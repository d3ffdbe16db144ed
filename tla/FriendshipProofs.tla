-------------------------- MODULE FriendshipProofs --------------------------
(***************************************************************************)
(* Proofs about Friendship, for any users, ids, workers and budgets, with  *)
(* or without failures.                                                    *)
(***************************************************************************)
EXTENDS Friendship, TLAPS

\* What the history L says.
AskedIn(L, u, v, i)    == [what |-> "asked", by |-> u, to |-> v, id |-> i] \in L
AcceptedIn(L, u, v, i) == [what |-> "accepted", by |-> u, to |-> v, id |-> i] \in L
AnsweredIn(L, a, i)    == \E u, v \in Users : [what |-> a, by |-> u, to |-> v, id |-> i] \in L

\* u and v have a request between them that was accepted.
ConsentedIn(L, u, v) ==
  \E i \in Ids : \/ AskedIn(L, u, v, i) /\ AcceptedIn(L, v, u, i)
                 \/ AskedIn(L, v, u, i) /\ AcceptedIn(L, u, v, i)

\* The row r may be known under id i: its sender made request i, and if it is
\* accepted, its receiver accepted request i.
VouchedIn(L, i, r) ==
  r # NoRow =>
    /\ AskedIn(L, r.sender, r.receiver, i)
    /\ r.status = "accepted" => AcceptedIn(L, r.receiver, r.sender, i)

\* What a worker at control point c knows about its job j.
KnowsIn(L, c, j) ==
  /\ c \in {"forget", "fill", "save"} => j.seen # NoRow /\ VouchedIn(L, j.id, j.seen)
  /\ c = "forget" => {j.seen.sender, j.seen.receiver} = {j.user, j.peer}
  /\ c = "save" => j.op \in {"accept", "reject"} /\ MayDecide(j.user, j.seen)
  /\ c = "insert" => ConsentedIn(L, j.user, j.peer)
  /\ c \in {"select", "delete"} => j.op = "remove"
  /\ c = "purge" \/ (c = "invalidate" /\ j.op # "remove") => AnsweredIn(L, Verdict(j), j.id)

RowsVouched    == \A i \in Ids : VouchedIn(log, i, rows[i]) /\ VouchedIn(log, i, cache[i])
WorkersKnow    == \A p \in Workers : KnowsIn(log, pc[p], job[p])
MessagesMutual == \A m \in messages : ConsentedIn(log, m.from, m.to)
AnswersLogged  ==
  \A t \in notifs \cup tasks :
    /\ t.type = "friend_accepted" => AnsweredIn(log, "accepted", t.target)
    /\ t.type = "friend_rejected" => AnsweredIn(log, "rejected", t.target)
LogIssued      == \A e \in log : e.id \in issued
RequestsUnique ==
  \A d, e \in log : d.what = "asked" /\ e.what = "asked" /\ d.id = e.id => d = e

\* The inductive invariant: whatever a row, a cache entry, a worker, a message
\* or a notification says is backed by what users did.
KnowledgeInv ==
  /\ TypeOK
  /\ RowsVouched
  /\ WorkersKnow
  /\ MessagesMutual
  /\ AnswersLogged
  /\ LogIssued
  /\ RequestsUnique

----------------------------------------------------------------------------
(* Jobs stay jobs.                                                         *)

LEMMA RestIsJob == Rest \in Job
<1>1. \E j : j \in Job
  <2>1. PICK u \in Users, i \in Ids : TRUE
    BY FriendshipAssumption
  <2>2. [op |-> "send", user |-> u, peer |-> u, id |-> i, seen |-> NoRow] \in Job
    BY DEF Job, Operations
  <2> QED BY <2>2
<1> QED BY <1>1 DEF Rest

\* Going on at a control point keeps pc and job typed.
LEMMA GoToTyping ==
  ASSUME TypeOK, NEW p \in Workers, NEW c \in Control, GoTo(p, c)
  PROVE  pc' \in [Workers -> Control] /\ job' \in [Workers -> Job]
BY RestIsJob DEF TypeOK, GoTo

LEMMA ReadTyping ==
  ASSUME TypeOK, NEW p \in Workers, NEW i \in Ids, NEW r \in Row \cup {NoRow},
         NEW c \in Control, Read(p, i, r, c)
  PROVE  pc' \in [Workers -> Control] /\ job' \in [Workers -> Job]
<1>1. [job[p] EXCEPT !.id = i, !.seen = r] \in Job
  <2>1. job[p] \in Job
    BY DEF TypeOK
  <2> QED BY <2>1 DEF Job
<1> QED BY <1>1, RestIsJob DEF TypeOK, Read

\* The decisions name control points.
LEMMA DecisionTyping ==
  ASSUME NEW j \in Job, NEW r
  PROVE  AfterLoad(j, r) \in Control /\ AfterLookup(j, r) \in Control
BY DEF AfterLoad, AfterLookup, Control

LEMMA InitType == Init => TypeOK
BY RestIsJob, FriendshipAssumption DEF Init, TypeOK, Control

LEMMA ServeType ==
  ASSUME TypeOK, NEW p \in Workers, Serve(p), pc[p] = "save" => job[p].seen # NoRow
  PROVE  TypeOK'
<1> USE FriendshipAssumption
<1>j. job[p] \in Job /\ job[p].id \in Ids /\ job[p].seen \in Row \cup {NoRow}
  BY DEF TypeOK, Job
<1>a. \A r : AfterLoad(job[p], r) \in Control /\ AfterLookup(job[p], r) \in Control
  BY <1>j, DecisionTyping
<1>1. CASE Lookup(p)
  <2>1. pc' \in [Workers -> Control] /\ job' \in [Workers -> Job]
    <3>1. ASSUME NEW i \in Ids, Read(p, i, rows[i], "forget")
          PROVE  pc' \in [Workers -> Control] /\ job' \in [Workers -> Job]
      <4>1. rows[i] \in Row \cup {NoRow} /\ "forget" \in Control
        BY DEF TypeOK, Control
      <4> QED BY <3>1, <4>1, ReadTyping
    <3>2. ASSUME NEW c \in {"create", "idle"}, GoTo(p, c)
          PROVE  pc' \in [Workers -> Control] /\ job' \in [Workers -> Job]
      BY <3>2, GoToTyping DEF Control
    <3> QED BY <1>1, <3>1, <3>2 DEF Lookup
  <2> QED BY <1>1, <2>1 DEF Lookup, TypeOK
<1>2. CASE Forget(p)
  <2>1. pc' \in [Workers -> Control] /\ job' \in [Workers -> Job]
    BY <1>2, <1>a, GoToTyping DEF Forget
  <2> QED BY <1>2, <1>j, <2>1 DEF Forget, ClearKey, TypeOK
<1>3. CASE FromCache(p)
  <2>1. cache[job[p].id] \in Row \cup {NoRow} /\ "db" \in Control
    BY <1>j DEF TypeOK, Control
  <2>2. pc' \in [Workers -> Control] /\ job' \in [Workers -> Job]
    BY <1>3, <1>j, <1>a, <2>1, GoToTyping, ReadTyping DEF FromCache
  <2> QED BY <1>3, <2>2 DEF FromCache, TypeOK
<1>4. CASE FromDB(p)
  <2>1. rows[job[p].id] \in Row \cup {NoRow} /\ "idle" \in Control /\ "fill" \in Control
    BY <1>j DEF TypeOK, Control
  <2>2. pc' \in [Workers -> Control] /\ job' \in [Workers -> Job]
    BY <1>4, <1>j, <2>1, GoToTyping, ReadTyping DEF FromDB
  <2> QED BY <1>4, <2>2 DEF FromDB, TypeOK
<1>5. CASE Fill(p)
  <2>1. pc' \in [Workers -> Control] /\ job' \in [Workers -> Job]
    BY <1>5, <1>a, GoToTyping DEF Fill
  <2> QED BY <1>5, <1>j, <2>1 DEF Fill, FillKey, TypeOK
<1>6. CASE Create(p)
  <2>1. PICK i \in Ids \ issued :
          /\ rows' = [rows EXCEPT ![i] =
                 [sender |-> job[p].user, receiver |-> job[p].peer, status |-> "pending"]]
          /\ issued' = issued \cup {i}
          /\ tasks' = tasks \cup {[type |-> "friend_request", target |-> i]}
          /\ log' = log \cup {[what |-> "asked", by |-> job[p].user, to |-> job[p].peer, id |-> i]}
          /\ Read(p, i, NoRow, "cache")
    BY <1>6 DEF Create
  <2>2. pc' \in [Workers -> Control] /\ job' \in [Workers -> Job]
    BY <2>1, ReadTyping DEF Control
  <2>3. job[p].user \in Users /\ job[p].peer \in Users
    BY <1>j DEF Job
  <2>4. rows' \in [Ids -> Row \cup {NoRow}]
    BY <2>1, <2>3 DEF TypeOK, Row, Status
  <2>5. tasks' \in SUBSET Notification /\ log' \in SUBSET Event
    BY <2>1, <2>3 DEF TypeOK, Notification, Event
  <2> QED BY <1>6, <2>1, <2>2, <2>4, <2>5 DEF Create, TypeOK
<1>7. CASE Insert(p)
  <2>1. pc' \in [Workers -> Control] /\ job' \in [Workers -> Job]
    BY <1>7, GoToTyping DEF Insert, Control
  <2>3. messages' \in SUBSET Message
    <3>1. [from |-> job[p].user, to |-> job[p].peer] \in Message
      BY <1>j DEF Job, Message
    <3> QED BY <1>7, <3>1 DEF Insert, TypeOK
  <2> QED BY <1>7, <2>1, <2>3 DEF Insert, TypeOK
<1>8. CASE Save(p)
  <2>1. pc' \in [Workers -> Control] /\ job' \in [Workers -> Job]
    BY <1>8, GoToTyping DEF Save, Control
  <2>2. job[p].seen \in Row /\ Verdict(job[p]) \in {"accepted", "rejected"}
    BY <1>8, <1>j DEF Save, Verdict
  <2>3. rows' \in [Ids -> Row \cup {NoRow}]
    <3>1. [job[p].seen EXCEPT !.status = Verdict(job[p])] \in Row
      BY <2>2 DEF Row, Status
    <3> QED BY <1>8, <3>1 DEF Save, TypeOK
  <2>4. log' \in SUBSET Event
    BY <1>8, <1>j, <2>2 DEF Save, TypeOK, Event, Job, Row
  <2> QED BY <1>8, <2>1, <2>3, <2>4 DEF Save, TypeOK
<1>9. CASE Invalidate(p)
  <2>1. pc' \in [Workers -> Control] /\ job' \in [Workers -> Job]
    BY <1>9, GoToTyping DEF Invalidate, Control
  <2> QED BY <1>9, <1>j, <2>1 DEF Invalidate, ClearKey, TypeOK
<1>10. CASE Purge(p)
  <2>1. pc' \in [Workers -> Control] /\ job' \in [Workers -> Job]
    BY <1>10, GoToTyping DEF Purge, Control
  <2> QED BY <1>10, <1>j, <2>1 DEF Purge, TypeOK, Notification
<1>11. CASE Select(p)
  <2>1. pc' \in [Workers -> Control] /\ job' \in [Workers -> Job]
    BY <1>11, GoToTyping DEF Select, Control
  <2> QED BY <1>11, <2>1 DEF Select, TypeOK
<1>12. CASE Delete(p)
  <2>1. pc' \in [Workers -> Control] /\ job' \in [Workers -> Job]
    BY <1>12, GoToTyping DEF Delete, Control
  <2> QED BY <1>12, <2>1 DEF Delete, TypeOK
<1> QED
  BY <1>1, <1>2, <1>3, <1>4, <1>5, <1>6, <1>7, <1>8, <1>9, <1>10, <1>11, <1>12 DEF Serve

\* A request that begins is a job.
LEMMA BeginType ==
  ASSUME TypeOK, NEW p \in Workers, BeginPair(p) \/ BeginById(p)
  PROVE  TypeOK'
<1> USE FriendshipAssumption
<1>1. left' \in [Workers -> 0..Budget]
  <2>1. left' = [left EXCEPT ![p] = left[p] - 1] /\ left[p] > 0
    BY DEF BeginPair, BeginById
  <2>2. left[p] \in 0..Budget
    BY DEF TypeOK
  <2>3. left[p] - 1 \in 0..Budget
    BY <2>1, <2>2
  <2> QED BY <2>1, <2>3 DEF TypeOK
<1>2. pc' \in [Workers -> Control]
  BY DEF BeginPair, BeginById, TypeOK, Control
<1>3. job' \in [Workers -> Job]
  <2>1. ASSUME NEW op \in Operations, NEW u \in Users, NEW v \in Users, NEW i \in Ids
        PROVE  /\ [Rest EXCEPT !.op = op, !.user = u, !.peer = v] \in Job
               /\ [Rest EXCEPT !.op = op, !.user = u, !.id = i] \in Job
    BY RestIsJob DEF Job
  <2>2. \E j \in Job : job' = [job EXCEPT ![p] = j]
    <3>1. CASE BeginPair(p)
      <4>1. PICK op \in {"send", "chat", "status"}, u \in Users, v \in Users :
              job' = [job EXCEPT ![p] = [Rest EXCEPT !.op = op, !.user = u, !.peer = v]]
        BY <3>1 DEF BeginPair
      <4>2. op \in Operations /\ \E i \in Ids : TRUE
        BY DEF Operations
      <4>3. [Rest EXCEPT !.op = op, !.user = u, !.peer = v] \in Job
        BY <4>2, <2>1
      <4> QED BY <4>1, <4>3
    <3>2. CASE BeginById(p)
      <4>1. PICK op \in {"accept", "reject", "remove", "read"}, u \in Users, i \in issued :
              job' = [job EXCEPT ![p] = [Rest EXCEPT !.op = op, !.user = u, !.id = i]]
        BY <3>2 DEF BeginById
      <4>2. op \in Operations /\ i \in Ids
        BY DEF Operations, TypeOK
      <4>3. [Rest EXCEPT !.op = op, !.user = u, !.id = i] \in Job
        BY <4>2, <2>1
      <4> QED BY <4>1, <4>3
    <3> QED BY <3>1, <3>2
  <2> QED BY <2>2 DEF TypeOK
<1> QED BY <1>1, <1>2, <1>3 DEF BeginPair, BeginById, TypeOK

\* Expiry, goroutines and failures.
LEMMA OtherType ==
  ASSUME TypeOK,
         \/ \E p \in Workers : Abort(p)
         \/ \E t \in Notification : RunTask(t) \/ LoseTask(t)
         \/ \E i \in Ids : Expire(i)
  PROVE  TypeOK'
<1>1. CASE \E p \in Workers : Abort(p)
  <2>1. PICK p \in Workers : Abort(p)
    BY <1>1
  <2>2. pc' \in [Workers -> Control] /\ job' \in [Workers -> Job]
    BY <2>1, GoToTyping DEF Abort, Control
  <2> QED BY <2>1, <2>2 DEF Abort, TypeOK
<1>2. CASE \E t \in Notification : RunTask(t) \/ LoseTask(t)
  BY <1>2 DEF RunTask, LoseTask, TypeOK
<1>3. CASE \E i \in Ids : Expire(i)
  BY <1>3 DEF Expire, TypeOK
<1> QED BY <1>1, <1>2, <1>3

----------------------------------------------------------------------------
(* The history only grows, so what was known stays known.                  *)

LEMMA KnowledgeKept ==
  ASSUME NEW L, NEW M, L \subseteq M
  PROVE  /\ \A i, r : VouchedIn(L, i, r) => VouchedIn(M, i, r)
         /\ \A u, v : ConsentedIn(L, u, v) => ConsentedIn(M, u, v)
         /\ \A a, i : AnsweredIn(L, a, i) => AnsweredIn(M, a, i)
         /\ \A c, j : KnowsIn(L, c, j) => KnowsIn(M, c, j)
<1>1. \A i, r : VouchedIn(L, i, r) => VouchedIn(M, i, r)
  BY DEF VouchedIn, AskedIn, AcceptedIn
<1>2. \A u, v : ConsentedIn(L, u, v) => ConsentedIn(M, u, v)
  BY DEF ConsentedIn, AskedIn, AcceptedIn
<1>3. \A a, i : AnsweredIn(L, a, i) => AnsweredIn(M, a, i)
  BY DEF AnsweredIn
<1> QED BY <1>1, <1>2, <1>3 DEF KnowsIn

\* What GoTo and Read leave of the workers.
LEMMA GoToEffect ==
  ASSUME TypeOK, NEW p \in Workers, NEW c, GoTo(p, c)
  PROVE  /\ pc'[p] = c
         /\ c # "idle" => job'[p] = job[p]
         /\ \A q \in Workers \ {p} : pc'[q] = pc[q] /\ job'[q] = job[q]
BY DEF TypeOK, GoTo

LEMMA ReadEffect ==
  ASSUME TypeOK, NEW p \in Workers, NEW i, NEW r, NEW c, Read(p, i, r, c)
  PROVE  /\ pc'[p] = c
         /\ c # "idle" => job'[p] = [job[p] EXCEPT !.id = i, !.seen = r]
         /\ \A q \in Workers \ {p} : pc'[q] = pc[q] /\ job'[q] = job[q]
BY DEF TypeOK, Read

\* A step of worker p leaves the others with what they knew.
LEMMA OthersKnow ==
  ASSUME WorkersKnow, log \subseteq log', NEW p \in Workers,
         \A q \in Workers \ {p} : pc'[q] = pc[q] /\ job'[q] = job[q],
         KnowsIn(log', pc'[p], job'[p])
  PROVE  WorkersKnow'
<1>1. SUFFICES ASSUME NEW q \in Workers PROVE KnowsIn(log', pc'[q], job'[q])
  BY DEF WorkersKnow
<1>2. CASE q = p
  BY <1>2
<1>3. CASE q # p
  <2>1. KnowsIn(log, pc[q], job[q])
    BY DEF WorkersKnow
  <2>2. KnowsIn(log', pc[q], job[q])
    BY <2>1, KnowledgeKept
  <2> QED BY <1>3, <2>2
<1> QED BY <1>2, <1>3

\* At these points nothing is demanded.
LEMMA KnowsNothing ==
  \A L, j : \A c \in {"idle", "lookup", "create", "cache", "db"} : KnowsIn(L, c, j)
BY DEF KnowsIn

\* Steps that write no history, message or notification, and only known rows.
LEMMA QuietStep ==
  ASSUME KnowledgeInv, TypeOK', UNCHANGED <<log, issued, messages>>,
         RowsVouched', WorkersKnow', (notifs \cup tasks)' \subseteq notifs \cup tasks
  PROVE  KnowledgeInv'
<1>1. MessagesMutual' /\ LogIssued' /\ RequestsUnique'
  BY DEF KnowledgeInv, MessagesMutual, LogIssued, RequestsUnique
<1>2. AnswersLogged'
  BY DEF KnowledgeInv, AnswersLogged
<1> QED BY <1>1, <1>2 DEF KnowledgeInv

----------------------------------------------------------------------------
(* Each step of a handler keeps the invariant.                             *)

LEMMA KnowledgeServe ==
  ASSUME KnowledgeInv, NEW p \in Workers, Serve(p)
  PROVE  KnowledgeInv'
<1> DEFINE j == job[p]
<1>j. j \in Job /\ j.id \in Ids /\ j.seen \in Row \cup {NoRow}
  BY DEF KnowledgeInv, TypeOK, Job
<1>k. TypeOK /\ WorkersKnow /\ RowsVouched /\ KnowsIn(log, pc[p], j)
  BY DEF KnowledgeInv, WorkersKnow
<1>t. TypeOK'
  <2>1. pc[p] = "save" => j.seen # NoRow
    BY <1>k DEF KnowsIn
  <2> QED BY <1>k, <2>1, ServeType
<1>1. CASE Lookup(p)
  <2>1. RowsVouched' /\ log' = log
    BY <1>1, <1>k DEF Lookup, RowsVouched
  <2>2. WorkersKnow'
    <3>1. CASE \E i \in Ids : First(j.user, j.peer, i) /\ Read(p, i, rows[i], "forget")
      <4>1. PICK i \in Ids : First(j.user, j.peer, i) /\ Read(p, i, rows[i], "forget")
        BY <3>1
      <4>2. rows[i] # NoRow /\ {rows[i].sender, rows[i].receiver} = {j.user, j.peer}
        BY <4>1 DEF First, Between
      <4>3. VouchedIn(log, i, rows[i])
        BY <1>k DEF RowsVouched
      <4>4. /\ pc'[p] = "forget"
            /\ job'[p] = [j EXCEPT !.id = i, !.seen = rows[i]]
            /\ \A q \in Workers \ {p} : pc'[q] = pc[q] /\ job'[q] = job[q]
        BY <4>1, <1>k DEF Read, TypeOK
      <4>5. /\ job'[p].id = i /\ job'[p].seen = rows[i]
            /\ job'[p].user = j.user /\ job'[p].peer = j.peer
        BY <4>4, <1>j DEF Job
      <4>6. KnowsIn(log', pc'[p], job'[p])
        BY <4>2, <4>3, <4>4, <4>5, <2>1 DEF KnowsIn
      <4> QED BY <4>4, <4>6, <2>1, <1>k, OthersKnow
    <3>2. CASE GoTo(p, IF j.op = "send" THEN "create" ELSE "idle")
      <4>1. pc'[p] \in {"create", "idle"}
            /\ \A q \in Workers \ {p} : pc'[q] = pc[q] /\ job'[q] = job[q]
        BY <3>2, <1>k, GoToEffect
      <4> QED BY <4>1, <2>1, <1>k, OthersKnow, KnowsNothing
    <3> QED BY <1>1, <3>1, <3>2 DEF Lookup
  <2> QED BY <1>1, <1>t, <2>1, <2>2, QuietStep DEF Lookup
<1>2. CASE Forget(p)
  <2>1. j.seen # NoRow /\ VouchedIn(log, j.id, j.seen)
        /\ {j.seen.sender, j.seen.receiver} = {j.user, j.peer}
    BY <1>2, <1>k DEF Forget, KnowsIn
  <2>2. RowsVouched' /\ log' = log
    BY <1>2, <1>j, <1>k DEF Forget, ClearKey, RowsVouched, VouchedIn, TypeOK
  <2>3. /\ pc'[p] = AfterLookup(j, j.seen)
        /\ AfterLookup(j, j.seen) # "idle" => job'[p] = j
        /\ \A q \in Workers \ {p} : pc'[q] = pc[q] /\ job'[q] = job[q]
    BY <1>2, <1>k, GoToEffect DEF Forget
  <2>4. KnowsIn(log', pc'[p], job'[p])
    <3>1. CASE j.op = "chat" /\ MayChat(j.seen)
      <4>1. AskedIn(log, j.seen.sender, j.seen.receiver, j.id)
            /\ AcceptedIn(log, j.seen.receiver, j.seen.sender, j.id)
        BY <2>1, <3>1 DEF VouchedIn, MayChat
      <4>2. ConsentedIn(log, j.user, j.peer)
        <5>1. \/ j.seen.sender = j.user /\ j.seen.receiver = j.peer
              \/ j.seen.sender = j.peer /\ j.seen.receiver = j.user
          BY <2>1
        <5> QED BY <4>1, <5>1, <1>j DEF ConsentedIn
      <4>3. pc'[p] = "insert" /\ job'[p] = j
        BY <2>3, <3>1 DEF AfterLookup
      <4> QED BY <4>2, <4>3, <2>2 DEF KnowsIn
    <3>2. CASE ~(j.op = "chat" /\ MayChat(j.seen))
      BY <3>2, <2>3, KnowsNothing DEF AfterLookup
    <3> QED BY <3>1, <3>2
  <2>5. WorkersKnow'
    BY <2>2, <2>3, <2>4, <1>k, OthersKnow
  <2> QED BY <1>2, <1>t, <2>2, <2>5, QuietStep DEF Forget
<1>3. CASE FromCache(p)
  <2>1. RowsVouched' /\ log' = log
    BY <1>3, <1>k DEF FromCache, RowsVouched
  <2>2. WorkersKnow'
    <3>1. CASE cache[j.id] # NoRow /\ Read(p, j.id, cache[j.id], AfterLoad(j, cache[j.id]))
      <4> DEFINE r == cache[j.id]
      <4>1. VouchedIn(log, j.id, r)
        BY <1>j, <1>k DEF RowsVouched
      <4>2. /\ pc'[p] = AfterLoad(j, r)
            /\ AfterLoad(j, r) # "idle" => job'[p] = [j EXCEPT !.id = j.id, !.seen = r]
            /\ \A q \in Workers \ {p} : pc'[q] = pc[q] /\ job'[q] = job[q]
        BY <3>1, <1>k, ReadEffect
      <4>3. AfterLoad(j, r) # "idle" =>
               job'[p].id = j.id /\ job'[p].seen = r /\ job'[p].user = j.user /\ job'[p].op = j.op
        BY <4>2, <1>j DEF Job
      <4>4. KnowsIn(log', pc'[p], job'[p])
        BY <3>1, <4>1, <4>2, <4>3, <2>1 DEF KnowsIn, AfterLoad
      <4> QED BY <4>2, <4>4, <2>1, <1>k, OthersKnow
    <3>2. CASE GoTo(p, "db")
      BY <3>2, <2>1, <1>k, GoToEffect, OthersKnow, KnowsNothing
    <3> QED BY <1>3, <3>1, <3>2 DEF FromCache
  <2> QED BY <1>3, <1>t, <2>1, <2>2, QuietStep DEF FromCache
<1>4. CASE FromDB(p)
  <2>1. RowsVouched' /\ log' = log
    BY <1>4, <1>k DEF FromDB, RowsVouched
  <2>2. WorkersKnow'
    <3>1. CASE rows[j.id] # NoRow /\ Read(p, j.id, rows[j.id], "fill")
      <4>1. VouchedIn(log, j.id, rows[j.id])
        BY <1>j, <1>k DEF RowsVouched
      <4>2. /\ pc'[p] = "fill"
            /\ job'[p] = [j EXCEPT !.id = j.id, !.seen = rows[j.id]]
            /\ \A q \in Workers \ {p} : pc'[q] = pc[q] /\ job'[q] = job[q]
        BY <3>1, <1>k DEF Read, TypeOK
      <4>3. job'[p].id = j.id /\ job'[p].seen = rows[j.id]
        BY <4>2, <1>j DEF Job
      <4>4. KnowsIn(log', pc'[p], job'[p])
        BY <3>1, <4>1, <4>2, <4>3, <2>1 DEF KnowsIn
      <4> QED BY <4>2, <4>4, <2>1, <1>k, OthersKnow
    <3>2. CASE GoTo(p, "idle")
      BY <3>2, <2>1, <1>k, GoToEffect, OthersKnow, KnowsNothing
    <3> QED BY <1>4, <3>1, <3>2 DEF FromDB
  <2> QED BY <1>4, <1>t, <2>1, <2>2, QuietStep DEF FromDB
<1>5. CASE Fill(p)
  <2>1. j.seen # NoRow /\ VouchedIn(log, j.id, j.seen)
    BY <1>5, <1>k DEF Fill, KnowsIn
  <2>2. RowsVouched' /\ log' = log
    BY <1>5, <1>j, <1>k, <2>1 DEF Fill, FillKey, RowsVouched, TypeOK
  <2>3. /\ pc'[p] = AfterLoad(j, j.seen)
        /\ AfterLoad(j, j.seen) # "idle" => job'[p] = j
        /\ \A q \in Workers \ {p} : pc'[q] = pc[q] /\ job'[q] = job[q]
    BY <1>5, <1>k, GoToEffect DEF Fill
  <2>4. KnowsIn(log', pc'[p], job'[p])
    BY <2>1, <2>2, <2>3 DEF KnowsIn, AfterLoad
  <2>5. WorkersKnow'
    BY <2>2, <2>3, <2>4, <1>k, OthersKnow
  <2> QED BY <1>5, <1>t, <2>2, <2>5, QuietStep DEF Fill
<1>6. CASE Create(p)
  <2>1. PICK i \in Ids \ issued :
          /\ rows' = [rows EXCEPT ![i] =
                 [sender |-> j.user, receiver |-> j.peer, status |-> "pending"]]
          /\ issued' = issued \cup {i}
          /\ tasks' = tasks \cup {[type |-> "friend_request", target |-> i]}
          /\ log' = log \cup {[what |-> "asked", by |-> j.user, to |-> j.peer, id |-> i]}
          /\ Read(p, i, NoRow, "cache")
    BY <1>6 DEF Create
  <2>2. UNCHANGED <<cache, notifs, messages>> /\ log \subseteq log'
    BY <1>6, <2>1 DEF Create
  <2>3. RowsVouched'
    <3>1. SUFFICES ASSUME NEW k \in Ids
                   PROVE  VouchedIn(log', k, rows'[k]) /\ VouchedIn(log', k, cache[k])
      BY <2>2 DEF RowsVouched
    <3>2. VouchedIn(log', k, rows[k]) /\ VouchedIn(log', k, cache[k])
      BY <1>k, <2>2, KnowledgeKept DEF RowsVouched
    <3>3. CASE k = i
      <4>1. rows'[k] = [sender |-> j.user, receiver |-> j.peer, status |-> "pending"]
        BY <2>1, <3>3, <1>k DEF TypeOK
      <4> QED BY <4>1, <2>1, <3>2, <3>3 DEF VouchedIn, AskedIn
    <3>4. CASE k # i
      BY <2>1, <3>2, <3>4, <1>k DEF TypeOK
    <3> QED BY <3>3, <3>4
  <2>4. WorkersKnow'
    <3>1. /\ pc'[p] = "cache"
          /\ \A q \in Workers \ {p} : pc'[q] = pc[q] /\ job'[q] = job[q]
      BY <2>1, <1>k DEF Read, TypeOK
    <3>2. KnowsIn(log', pc'[p], job'[p])
      BY <3>1, KnowsNothing
    <3> QED BY <3>1, <3>2, <2>2, <1>k, OthersKnow
  <2>5. MessagesMutual'
    BY <2>2, KnowledgeKept DEF KnowledgeInv, MessagesMutual
  <2>6. AnswersLogged'
    <3>1. SUFFICES ASSUME NEW t \in (notifs \cup tasks)'
                   PROVE /\ t.type = "friend_accepted" => AnsweredIn(log', "accepted", t.target)
                         /\ t.type = "friend_rejected" => AnsweredIn(log', "rejected", t.target)
      BY DEF AnswersLogged
    <3>2. t \in notifs \cup tasks \/ t.type = "friend_request"
      BY <2>1, <2>2
    <3> QED BY <3>2, <2>2, KnowledgeKept DEF KnowledgeInv, AnswersLogged
  <2>7. LogIssued' /\ RequestsUnique'
    BY <2>1 DEF KnowledgeInv, LogIssued, RequestsUnique
  <2> QED BY <1>t, <2>3, <2>4, <2>5, <2>6, <2>7 DEF KnowledgeInv
<1>7. CASE Insert(p)
  <2>1. ConsentedIn(log, j.user, j.peer)
    BY <1>7, <1>k DEF Insert, KnowsIn
  <2>2. RowsVouched' /\ UNCHANGED <<log, notifs, tasks, issued>>
    BY <1>7, <1>k DEF Insert, RowsVouched
  <2>3. MessagesMutual'
    BY <1>7, <2>1, <2>2 DEF Insert, KnowledgeInv, MessagesMutual
  <2>4. WorkersKnow'
    BY <1>7, <2>2, <1>k, GoToEffect, OthersKnow, KnowsNothing DEF Insert
  <2>5. AnswersLogged' /\ LogIssued' /\ RequestsUnique'
    BY <2>2 DEF KnowledgeInv, AnswersLogged, LogIssued, RequestsUnique
  <2> QED BY <1>t, <2>2, <2>3, <2>4, <2>5 DEF KnowledgeInv
<1>8. CASE Save(p)
  <2> DEFINE e == [what |-> Verdict(j), by |-> j.user, to |-> j.seen.sender, id |-> j.id]
             r == [j.seen EXCEPT !.status = Verdict(j)]
  <2>1. /\ j.seen \in Row /\ j.seen # NoRow /\ VouchedIn(log, j.id, j.seen)
        /\ j.op \in {"accept", "reject"} /\ MayDecide(j.user, j.seen)
    BY <1>8, <1>j, <1>k DEF Save, KnowsIn
  <2>2. /\ rows' = [rows EXCEPT ![j.id] = r] /\ log' = log \cup {e}
        /\ GoTo(p, "invalidate") /\ UNCHANGED <<cache, issued, notifs, tasks, messages>>
    BY <1>8 DEF Save
  <2>3. log \subseteq log' /\ e \in log' /\ AskedIn(log, j.seen.sender, j.seen.receiver, j.id)
    BY <2>1, <2>2 DEF VouchedIn, Row
  <2>4. r.sender = j.seen.sender /\ r.receiver = j.user /\ r.status = Verdict(j)
        /\ j.seen.receiver = j.user
    BY <2>1 DEF MayDecide, Row
  <2>5. VouchedIn(log', j.id, r)
    <3>1. AskedIn(log', r.sender, r.receiver, j.id)
      BY <2>3, <2>4 DEF AskedIn
    <3>2. r.status = "accepted" => AcceptedIn(log', r.receiver, r.sender, j.id)
      BY <2>3, <2>4 DEF AcceptedIn
    <3> QED BY <3>1, <3>2 DEF VouchedIn
  <2>6. RowsVouched'
    <3>1. SUFFICES ASSUME NEW k \in Ids
                   PROVE  VouchedIn(log', k, rows'[k]) /\ VouchedIn(log', k, cache[k])
      BY <2>2 DEF RowsVouched
    <3>2. VouchedIn(log', k, rows[k]) /\ VouchedIn(log', k, cache[k])
      BY <1>k, <2>3, KnowledgeKept DEF RowsVouched
    <3>3. rows'[k] = IF k = j.id THEN r ELSE rows[k]
      BY <2>2, <1>k DEF TypeOK
    <3> QED BY <3>2, <3>3, <2>5
  <2>7. KnowsIn(log', pc'[p], job'[p])
    <3>1. pc'[p] = "invalidate" /\ job'[p] = j
      BY <2>2, <1>k, GoToEffect
    <3>2. AnsweredIn(log', Verdict(j), j.id)
      BY <2>1, <2>3, <1>j DEF AnsweredIn, Job, Row
    <3> QED BY <3>1, <3>2 DEF KnowsIn
  <2>8. WorkersKnow'
    BY <2>2, <2>3, <2>7, <1>k, GoToEffect, OthersKnow
  <2>9. MessagesMutual' /\ AnswersLogged'
    BY <2>2, <2>3, KnowledgeKept DEF KnowledgeInv, MessagesMutual, AnswersLogged
  <2>10. LogIssued'
    BY <2>2, <2>3 DEF KnowledgeInv, LogIssued, AskedIn
  <2>11. RequestsUnique'
    BY <2>2 DEF KnowledgeInv, RequestsUnique, Verdict
  <2> QED BY <1>t, <2>6, <2>8, <2>9, <2>10, <2>11 DEF KnowledgeInv
<1>9. CASE Invalidate(p)
  <2>1. RowsVouched' /\ log' = log
    BY <1>9, <1>j, <1>k DEF Invalidate, ClearKey, RowsVouched, VouchedIn, TypeOK
  <2>2. KnowsIn(log', pc'[p], job'[p])
    BY <1>9, <2>1, <1>k, GoToEffect DEF Invalidate, KnowsIn
  <2>3. WorkersKnow'
    BY <1>9, <2>1, <2>2, <1>k, GoToEffect, OthersKnow DEF Invalidate
  <2> QED BY <1>9, <1>t, <2>1, <2>3, QuietStep DEF Invalidate
<1>10. CASE Purge(p)
  <2>1. AnsweredIn(log, Verdict(j), j.id)
    BY <1>10, <1>k DEF Purge, KnowsIn
  <2>2. RowsVouched' /\ UNCHANGED <<log, messages, issued>>
    BY <1>10, <1>k DEF Purge, RowsVouched
  <2>3. WorkersKnow'
    BY <1>10, <2>2, <1>k, GoToEffect, OthersKnow, KnowsNothing DEF Purge
  <2>4. AnswersLogged'
    <3>1. SUFFICES ASSUME NEW t \in (notifs \cup tasks)'
                   PROVE /\ t.type = "friend_accepted" => AnsweredIn(log, "accepted", t.target)
                         /\ t.type = "friend_rejected" => AnsweredIn(log, "rejected", t.target)
      BY <2>2 DEF AnswersLogged
    <3>2. CASE t \in notifs \cup tasks
      BY <3>2 DEF KnowledgeInv, AnswersLogged
    <3>3. CASE t = [type |-> IF j.op = "accept" THEN "friend_accepted" ELSE "friend_rejected",
                    target |-> j.id]
      BY <3>3, <2>1 DEF Verdict
    <3> QED BY <1>10, <3>2, <3>3 DEF Purge
  <2>5. MessagesMutual' /\ LogIssued' /\ RequestsUnique'
    BY <2>2 DEF KnowledgeInv, MessagesMutual, LogIssued, RequestsUnique
  <2> QED BY <1>t, <2>2, <2>3, <2>4, <2>5 DEF KnowledgeInv
<1>11. CASE Select(p)
  <2>1. RowsVouched' /\ log' = log
    BY <1>11, <1>k DEF Select, RowsVouched
  <2>2. j.op = "remove"
    BY <1>11, <1>k DEF Select, KnowsIn
  <2>3. KnowsIn(log', pc'[p], job'[p])
    BY <1>11, <2>2, <1>k, GoToEffect DEF Select, KnowsIn
  <2>4. WorkersKnow'
    BY <1>11, <2>1, <2>3, <1>k, GoToEffect, OthersKnow DEF Select
  <2> QED BY <1>11, <1>t, <2>1, <2>4, QuietStep DEF Select
<1>12. CASE Delete(p)
  <2>1. RowsVouched' /\ log' = log
    BY <1>12, <1>j, <1>k DEF Delete, RowsVouched, VouchedIn, TypeOK
  <2>2. j.op = "remove"
    BY <1>12, <1>k DEF Delete, KnowsIn
  <2>3. KnowsIn(log', pc'[p], job'[p])
    BY <1>12, <2>2, <1>k, GoToEffect DEF Delete, KnowsIn
  <2>4. WorkersKnow'
    BY <1>12, <2>1, <2>3, <1>k, GoToEffect, OthersKnow DEF Delete
  <2> QED BY <1>12, <1>t, <2>1, <2>4, QuietStep DEF Delete
<1> QED
  BY <1>1, <1>2, <1>3, <1>4, <1>5, <1>6, <1>7, <1>8, <1>9, <1>10, <1>11, <1>12 DEF Serve

\* The steps outside the handlers, and the arrival of a request.
LEMMA KnowledgeOther ==
  ASSUME KnowledgeInv,
         \/ \E p \in Workers : BeginPair(p) \/ BeginById(p) \/ Abort(p)
         \/ \E t \in Notification : RunTask(t) \/ LoseTask(t)
         \/ \E i \in Ids : Expire(i)
  PROVE  KnowledgeInv'
<1>k. TypeOK /\ WorkersKnow /\ RowsVouched
  BY DEF KnowledgeInv
<1>t. TypeOK'
  BY <1>k, BeginType, OtherType
<1>1. ASSUME NEW p \in Workers, BeginPair(p) \/ BeginById(p) PROVE KnowledgeInv'
  <2>1. RowsVouched' /\ log' = log
    BY <1>1, <1>k DEF BeginPair, BeginById, RowsVouched
  <2>2. /\ pc'[p] \in {"lookup", "cache"}
        /\ \A q \in Workers \ {p} : pc'[q] = pc[q] /\ job'[q] = job[q]
    <3>1. CASE BeginPair(p)
      BY <3>1, <1>k DEF BeginPair, TypeOK
    <3>2. CASE BeginById(p)
      BY <3>2, <1>k DEF BeginById, TypeOK
    <3> QED BY <1>1, <3>1, <3>2
  <2>3. KnowsIn(log', pc'[p], job'[p])
    BY <2>2, KnowsNothing
  <2>4. WorkersKnow'
    BY <2>1, <2>2, <2>3, <1>k, OthersKnow
  <2> QED BY <1>1, <1>t, <2>1, <2>4, QuietStep DEF BeginPair, BeginById
<1>2. ASSUME NEW p \in Workers, Abort(p) PROVE KnowledgeInv'
  <2>1. RowsVouched' /\ log' = log
    BY <1>2, <1>k DEF Abort, RowsVouched
  <2>2. WorkersKnow'
    BY <1>2, <2>1, <1>k, GoToEffect, OthersKnow, KnowsNothing DEF Abort
  <2> QED BY <1>2, <1>t, <2>1, <2>2, QuietStep DEF Abort
<1>3. ASSUME NEW t \in Notification, RunTask(t) \/ LoseTask(t) PROVE KnowledgeInv'
  <2>1. RowsVouched' /\ WorkersKnow'
    BY <1>3, <1>k DEF RunTask, LoseTask, RowsVouched, WorkersKnow
  <2> QED BY <1>3, <1>t, <2>1, QuietStep DEF RunTask, LoseTask
<1>4. ASSUME NEW i \in Ids, Expire(i) PROVE KnowledgeInv'
  <2>1. WorkersKnow'
    BY <1>4, <1>k DEF Expire, WorkersKnow
  <2>2. RowsVouched'
    BY <1>4, <1>k DEF Expire, RowsVouched, VouchedIn, TypeOK
  <2> QED BY <1>4, <1>t, <2>1, <2>2, QuietStep DEF Expire
<1> QED BY <1>1, <1>2, <1>3, <1>4

LEMMA KnowledgeInit == Init => KnowledgeInv
<1> SUFFICES ASSUME Init PROVE KnowledgeInv
  OBVIOUS
<1>1. TypeOK
  BY InitType
<1>2. RowsVouched /\ WorkersKnow
  BY KnowsNothing DEF Init, RowsVouched, WorkersKnow, VouchedIn
<1>3. MessagesMutual /\ AnswersLogged /\ LogIssued /\ RequestsUnique
  BY DEF Init, MessagesMutual, AnswersLogged, LogIssued, RequestsUnique
<1> QED BY <1>1, <1>2, <1>3 DEF KnowledgeInv

LEMMA KnowledgeNext == KnowledgeInv /\ [Next]_vars => KnowledgeInv'
<1> SUFFICES ASSUME KnowledgeInv, [Next]_vars PROVE KnowledgeInv'
  OBVIOUS
<1>1. CASE Next
  BY <1>1, KnowledgeServe, KnowledgeOther DEF Next
<1>2. CASE UNCHANGED vars
  BY <1>2 DEF vars, KnowledgeInv, TypeOK, RowsVouched, WorkersKnow, MessagesMutual,
              AnswersLogged, LogIssued, RequestsUnique
<1> QED BY <1>1, <1>2

LEMMA KnowledgeHolds == Spec => []KnowledgeInv
BY KnowledgeInit, KnowledgeNext, PTL DEF Spec

----------------------------------------------------------------------------
(* The results.                                                            *)

\* Every state of the friendship and chat handlers is well typed; in particular
\* no handler ever stores a status other than pending, accepted and rejected.
THEOREM TypeCorrect == Spec => []TypeOK
BY KnowledgeHolds, PTL DEF KnowledgeInv

\* However many requests race, over however stale a cache, and whatever fails:
\* an accepted row was requested by its sender and accepted by its receiver.
THEOREM FriendshipsAreMutual == Spec => []FriendshipTakesBothSides
<1>1. KnowledgeInv => FriendshipTakesBothSides
  BY DEF KnowledgeInv, RowsVouched, VouchedIn, AskedIn, AcceptedIn,
         FriendshipTakesBothSides, Asked, Accepted
<1> QED BY <1>1, KnowledgeHolds, PTL

\* A chat message is only ever stored between users one of whom asked the other
\* for a friendship and had that request accepted.
THEOREM ChatsAreMutual == Spec => []ChatTakesBothSides
<1>1. KnowledgeInv => ChatTakesBothSides
  BY DEF KnowledgeInv, MessagesMutual, ConsentedIn, AskedIn, AcceptedIn,
         ChatTakesBothSides, Asked, Accepted
<1> QED BY <1>1, KnowledgeHolds, PTL

\* No friend_accepted or friend_rejected notification precedes the stored answer.
THEOREM AnswersFollowDecisions == Spec => []AnswersAreReal
<1>1. KnowledgeInv => AnswersAreReal
  BY DEF KnowledgeInv, AnswersLogged, AnsweredIn, AnswersAreReal, Accepted
<1> QED BY <1>1, KnowledgeHolds, PTL

----------------------------------------------------------------------------
(* Friendship implements Consent.                                          *)

LEMMA SameRowsSamePromise ==
  ASSUME UNCHANGED <<rows, log>>
  PROVE  UNCHANGED Abstract!vars
BY DEF Abstract!vars, RequestsMade, RequestsGranted, FriendshipsNow

\* Create asks: the row is new, pending, and has an id nobody used.
LEMMA CreateAsks ==
  ASSUME KnowledgeInv, NEW p \in Workers, Create(p)
  PROVE  \E r \in Abstract!Request : Abstract!Ask(r)
<1> DEFINE j == job[p]
<1>j. j.user \in Users /\ j.peer \in Users
  BY DEF KnowledgeInv, TypeOK, Job
<1>1. PICK i \in Ids \ issued :
        /\ rows' = [rows EXCEPT ![i] =
               [sender |-> j.user, receiver |-> j.peer, status |-> "pending"]]
        /\ log' = log \cup {[what |-> "asked", by |-> j.user, to |-> j.peer, id |-> i]}
  BY DEF Create
<1> DEFINE r == [id |-> i, from |-> j.user, to |-> j.peer]
<1>2. \A e \in log : e.id # i
  BY DEF KnowledgeInv, LogIssued
<1>3. rows[i] = NoRow
  BY <1>2 DEF KnowledgeInv, RowsVouched, VouchedIn, AskedIn
<1>4. \A q \in RequestsMade : q.id # r.id
  BY <1>2 DEF RequestsMade
<1>5. RequestsMade' = RequestsMade \cup {r}
  <2> DEFINE e == [what |-> "asked", by |-> j.user, to |-> j.peer, id |-> i]
             Asks(L) == {x \in L : x.what = "asked"}
             Req(x) == [id |-> x.id, from |-> x.by, to |-> x.to]
  <2>1. Asks(log') = Asks(log) \cup {e}
    BY <1>1
  <2>2. Req(e) = r
    OBVIOUS
  <2>3. {Req(x) : x \in Asks(log) \cup {e}} = {Req(x) : x \in Asks(log)} \cup {Req(e)}
    <3> HIDE DEF Asks, Req, e
    <3> QED OBVIOUS
  <2> QED BY <2>1, <2>2, <2>3 DEF RequestsMade
<1>6. RequestsGranted' = RequestsGranted
  BY <1>1 DEF RequestsGranted
<1>7. FriendshipsNow' = FriendshipsNow
  <2>1. \A k \in Ids : k # i => rows'[k] = rows[k]
    BY <1>1 DEF KnowledgeInv, TypeOK
  <2>2. rows'[i].status = "pending"
    BY <1>1 DEF KnowledgeInv, TypeOK
  <2> QED BY <1>3, <2>1, <2>2 DEF FriendshipsNow
<1>8. r \in Abstract!Request
  BY <1>j DEF Abstract!Request
<1> QED BY <1>4, <1>5, <1>6, <1>7, <1>8 DEF Abstract!Ask

\* Save of an accept grants that very request; Save of a reject ends it.
LEMMA SaveDecides ==
  ASSUME KnowledgeInv, NEW p \in Workers, Save(p)
  PROVE  \E r \in Abstract!Request : Abstract!Accept(r) \/ Abstract!End(r)
<1> DEFINE j == job[p]
           r == [id |-> j.id, from |-> j.seen.sender, to |-> j.user]
           e == [what |-> Verdict(j), by |-> j.user, to |-> j.seen.sender, id |-> j.id]
<1>j. j \in Job /\ j.id \in Ids /\ j.seen \in Row \cup {NoRow}
  BY DEF KnowledgeInv, TypeOK, Job
<1>1. /\ j.seen \in Row /\ VouchedIn(log, j.id, j.seen) /\ j.seen # NoRow
      /\ j.op \in {"accept", "reject"} /\ j.seen.receiver = j.user
  BY <1>j DEF Save, KnowledgeInv, WorkersKnow, KnowsIn, MayDecide
<1>2. AskedIn(log, j.seen.sender, j.user, j.id)
  BY <1>1 DEF VouchedIn
<1>3. r \in RequestsMade
  BY <1>2 DEF AskedIn, RequestsMade
<1>4. RequestsMade' = RequestsMade
  BY DEF Save, RequestsMade, Verdict
<1>5. /\ rows'[j.id].sender = j.seen.sender /\ rows'[j.id].receiver = j.user
      /\ rows'[j.id].status = Verdict(j) /\ rows'[j.id] # NoRow
      /\ \A k \in Ids : k # j.id => rows'[k] = rows[k]
  <2>1. [j.seen EXCEPT !.status = Verdict(j)] \in Row
    BY <1>1 DEF Row, Status, Verdict
  <2>2. rows' = [rows EXCEPT ![j.id] = [j.seen EXCEPT !.status = Verdict(j)]]
    BY DEF Save
  <2>3. rows'[j.id] = [j.seen EXCEPT !.status = Verdict(j)]
        /\ \A k \in Ids : k # j.id => rows'[k] = rows[k]
    BY <2>2, <1>j DEF KnowledgeInv, TypeOK
  <2>4. rows'[j.id] # NoRow
    BY <2>1, <2>3, FriendshipAssumption DEF Row, Status
  <2> QED BY <2>3, <2>4, <1>1 DEF Row
<1>6. rows[j.id] # NoRow => rows[j.id].sender = j.seen.sender /\ rows[j.id].receiver = j.user
  <2>1. rows[j.id] # NoRow => AskedIn(log, rows[j.id].sender, rows[j.id].receiver, j.id)
    BY <1>j DEF KnowledgeInv, RowsVouched, VouchedIn
  <2> QED BY <2>1, <1>2 DEF KnowledgeInv, RequestsUnique, AskedIn
<1>7. r \in Abstract!Request
  BY <1>j, <1>1 DEF Abstract!Request, Job, Row
<1>8. CASE Verdict(j) = "accepted"
  <2>1. RequestsGranted' = RequestsGranted \cup {r}
    <3> DEFINE Grants(L) == {x \in L : x.what = "accepted"}
               Req(x) == [id |-> x.id, from |-> x.to, to |-> x.by]
    <3>1. Grants(log') = Grants(log) \cup {e}
      BY <1>8 DEF Save
    <3>2. Req(e) = r
      OBVIOUS
    <3>3. {Req(x) : x \in Grants(log) \cup {e}} = {Req(x) : x \in Grants(log)} \cup {Req(e)}
      <4> HIDE DEF Grants, Req, e
      <4> QED OBVIOUS
    <3> QED BY <3>1, <3>2, <3>3 DEF RequestsGranted
  <2>2. FriendshipsNow' = FriendshipsNow \cup {r}
    BY <1>j, <1>5, <1>6, <1>8 DEF FriendshipsNow
  <2> QED BY <1>3, <1>4, <1>7, <2>1, <2>2 DEF Abstract!Accept
<1>9. CASE Verdict(j) = "rejected"
  <2>1. RequestsGranted' = RequestsGranted
    BY <1>9 DEF Save, RequestsGranted
  <2>2. FriendshipsNow' = FriendshipsNow \ {r}
    BY <1>j, <1>5, <1>6, <1>9 DEF FriendshipsNow
  <2> QED BY <1>4, <1>7, <2>1, <2>2 DEF Abstract!End
<1> QED BY <1>8, <1>9 DEF Verdict

\* Delete ends the friendship, if the row was one.
LEMMA DeleteEnds ==
  ASSUME KnowledgeInv, NEW p \in Workers, Delete(p)
  PROVE  [Abstract!Next]_(Abstract!vars)
<1> DEFINE i == job[p].id
           r == [id |-> i, from |-> rows[i].sender, to |-> rows[i].receiver]
<1>1. i \in Ids /\ rows[i] \in Row \cup {NoRow}
  BY DEF KnowledgeInv, TypeOK, Job
<1>2. log' = log /\ rows'[i] = NoRow /\ \A k \in Ids : k # i => rows'[k] = rows[k]
  BY <1>1 DEF Delete, KnowledgeInv, TypeOK
<1>3. RequestsMade' = RequestsMade /\ RequestsGranted' = RequestsGranted
  BY <1>2 DEF RequestsMade, RequestsGranted
<1>4. CASE rows[i] = NoRow
  <2>1. FriendshipsNow' = FriendshipsNow
    BY <1>1, <1>2, <1>4 DEF FriendshipsNow
  <2> QED BY <1>3, <2>1 DEF Abstract!vars
<1>5. CASE rows[i] \in Row
  <2>1. FriendshipsNow' = FriendshipsNow \ {r}
    BY <1>1, <1>2 DEF FriendshipsNow
  <2>2. r \in Abstract!Request
    BY <1>1, <1>5 DEF Abstract!Request, Row
  <2>3. Abstract!End(r)
    BY <1>3, <2>1 DEF Abstract!End
  <2> QED BY <2>2, <2>3 DEF Abstract!Next
<1> QED BY <1>1, <1>4, <1>5

\* The handlers, racing over the table and its cache, do what Consent promises:
\* every step asks, accepts or ends a request there, or leaves it alone.
THEOREM FriendshipImplementsConsent == Spec => ImplementsConsent
<1>1. Init => Abstract!Init
  BY DEF Init, Abstract!Init, RequestsMade, RequestsGranted, FriendshipsNow
<1>2. KnowledgeInv /\ [Next]_vars => [Abstract!Next]_(Abstract!vars)
  <2> SUFFICES ASSUME KnowledgeInv, [Next]_vars PROVE [Abstract!Next]_(Abstract!vars)
    OBVIOUS
  <2>1. CASE \E p \in Workers : Create(p)
    BY <2>1, CreateAsks DEF Abstract!Next
  <2>2. CASE \E p \in Workers : Save(p)
    BY <2>2, SaveDecides DEF Abstract!Next
  <2>3. CASE \E p \in Workers : Delete(p)
    BY <2>3, DeleteEnds
  <2>4. CASE UNCHANGED <<rows, log>>
    BY <2>4, SameRowsSamePromise
  <2>5. \A p \in Workers :
          Serve(p) => Create(p) \/ Save(p) \/ Delete(p) \/ UNCHANGED <<rows, log>>
    BY DEF Serve, Lookup, Forget, FromCache, FromDB, Fill, Insert, Invalidate, Purge, Select
  <2>6. CASE Next
    BY <2>1, <2>2, <2>3, <2>4, <2>5, <2>6
       DEF Next, BeginPair, BeginById, Abort, RunTask, LoseTask, Expire
  <2>7. CASE UNCHANGED vars
    BY <2>4, <2>7 DEF vars
  <2> QED BY <2>6, <2>7
<1> QED BY <1>1, <1>2, KnowledgeHolds, PTL DEF Spec, ImplementsConsent, Abstract!Spec
=============================================================================
