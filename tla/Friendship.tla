----------------------------- MODULE Friendship -----------------------------
(***************************************************************************)
(* Friend requests, the by-id Redis cache of the friendship repository,    *)
(* the friend_* notifications, and the chat service that asks for an       *)
(* accepted friendship before it stores a message.                         *)
(*                                                                         *)
(* Every HTTP request runs in its own goroutine and uses no transaction    *)
(* and no lock.  A worker p stands for one such goroutine; each of its     *)
(* database statements and Redis commands is an action, so requests        *)
(* interleave at every round trip.  Checks on values a handler already     *)
(* holds belong to the step that obtained them.                            *)
(*                                                                         *)
(* gorm's Save is an upsert: a row that is gone is inserted again.         *)
(* The user lists (by user, pending, accepted, count) have cache keys of   *)
(* their own; nothing here reads them.                                     *)
(***************************************************************************)
EXTENDS Naturals, FiniteSets

CONSTANTS
  Users,     \* user ids
  Ids,       \* friendship ids (UUIDs; only their order matters, see First)
  Workers,   \* concurrently running HTTP requests
  Budget,    \* number of requests each worker serves
  Faults,    \* TRUE: statements, commands and the process itself may fail
  NoRow      \* an absent row or cache entry

ASSUME FriendshipAssumption ==
  /\ Users # {}
  /\ Ids # {} /\ Ids \subseteq Nat
  /\ Budget \in Nat
  /\ Faults \in BOOLEAN
  /\ NoRow \notin [sender : Users, receiver : Users, status : {"pending", "accepted", "rejected"}]

VARIABLES
  rows,      \* the friendships table
  cache,     \* the keys friendship:<id>
  issued,    \* ids that were ever given to a row
  notifs,    \* friend_* notifications in the database
  tasks,     \* goroutines that are about to create a notification
  messages,  \* the chat_messages table
  pc,        \* control point of each worker
  job,       \* the request a worker serves and what it has read
  left,      \* requests each worker has still to serve
  log        \* history: what users asked for and had carried out

vars == <<rows, cache, issued, notifs, tasks, messages, pc, job, left, log>>

Status == {"pending", "accepted", "rejected"}
Row    == [sender : Users, receiver : Users, status : Status]

Operations == {"send", "accept", "reject", "remove", "read", "status", "chat"}
Job == [op : Operations, user : Users, peer : Users, id : Ids, seen : Row \cup {NoRow}]

Notification == [type : {"friend_request", "friend_accepted", "friend_rejected"}, target : Ids]
Event == [what : {"asked", "accepted", "rejected"}, by : Users, to : Users, id : Ids]

Message == [from : Users, to : Users]

Control == {"idle", "lookup", "forget", "create", "cache", "db", "fill", "save",
            "invalidate", "purge", "select", "delete", "insert"}

TypeOK ==
  /\ rows \in [Ids -> Row \cup {NoRow}]
  /\ cache \in [Ids -> Row \cup {NoRow}]
  /\ issued \in SUBSET Ids
  /\ notifs \in SUBSET Notification
  /\ tasks \in SUBSET Notification
  /\ messages \in SUBSET Message
  /\ pc \in [Workers -> Control]
  /\ job \in [Workers -> Job]
  /\ left \in [Workers -> 0..Budget]
  /\ log \in SUBSET Event

\* What a worker that serves nothing holds; no step reads it.
Rest == CHOOSE j \in Job : TRUE

Init ==
  /\ rows = [i \in Ids |-> NoRow]
  /\ cache = [i \in Ids |-> NoRow]
  /\ issued = {}
  /\ notifs = {}
  /\ tasks = {}
  /\ messages = {}
  /\ pc = [p \in Workers |-> "idle"]
  /\ job = [p \in Workers |-> Rest]
  /\ left = [p \in Workers |-> Budget]
  /\ log = {}

----------------------------------------------------------------------------
(* Helpers.                                                                *)

\* Worker p goes on at control point c; an idle worker forgets its job.
GoTo(p, c) ==
  /\ pc' = [pc EXCEPT ![p] = c]
  /\ job' = IF c = "idle" THEN [job EXCEPT ![p] = Rest] ELSE job

\* Worker p has read row r under id i and goes on at c.
Read(p, i, r, c) ==
  /\ pc' = [pc EXCEPT ![p] = c]
  /\ job' = [job EXCEPT ![p] = IF c = "idle" THEN Rest
                                             ELSE [@ EXCEPT !.id = i, !.seen = r]]

\* The rows between u and v, whoever asked.
Between(u, v) ==
  {i \in Ids : rows[i] # NoRow /\ {rows[i].sender, rows[i].receiver} = {u, v}}

\* db.First with the condition of FindBySenderAndReceiver: lowest primary key.
First(u, v, i) == i \in Between(u, v) /\ \A k \in Between(u, v) : i <= k

\* A Redis DEL or SET that may get lost, its error being ignored.
ClearKey(i)        == cache' \in {[cache EXCEPT ![i] = NoRow]} \cup (IF Faults THEN {cache} ELSE {})
FillKey(i, r)      == cache' \in {[cache EXCEPT ![i] = r]} \cup (IF Faults THEN {cache} ELSE {})

\* Wrong on purpose: the handler trusts the id and skips the receiver check.
MayDecide_Anyone(u, r) == r.status = "pending"

\* Accept and reject: only by the receiver, and only of a pending request.
MayDecide(u, r) == r.receiver = u /\ r.status = "pending"

\* Remove: by either side, whatever the status.
MayRemove(u, r) == u \in {r.sender, r.receiver}

\* Wrong on purpose: the answer is announced instead of stored.
AfterLoad_AnnounceOnly(j, r) ==
  IF j.op \in {"accept", "reject"} /\ MayDecide(j.user, r) THEN "purge" ELSE "idle"

\* Where the handler goes once FindByID returned r.
AfterLoad(j, r) ==
  CASE j.op \in {"accept", "reject"} -> IF MayDecide(j.user, r) THEN "save" ELSE "idle"
    [] j.op = "remove"               -> IF MayRemove(j.user, r) THEN "select" ELSE "idle"
    [] OTHER                         -> "idle"

\* SendFriendRequest goes on although an earlier request was rejected.
MayAsk(r) == r.status \notin {"pending", "accepted"}

\* SendMessage goes on only when the row it found is accepted.
\* (MayChat_Unchecked is wrong on purpose: any row will do.)
MayChat_Unchecked(r) == TRUE
MayChat(r) == r.status = "accepted"

\* Where the handler goes once FindBySenderAndReceiver returned r.
AfterLookup(j, r) ==
  CASE j.op = "send" /\ MayAsk(r)  -> "create"
    [] j.op = "chat" /\ MayChat(r) -> "insert"
    [] OTHER                       -> "idle"

----------------------------------------------------------------------------
(* A request arrives.                                                      *)

\* Requests about another user: send, chat and status.
BeginPair(p) ==
  /\ pc[p] = "idle"
  /\ left[p] > 0
  /\ \E op \in {"send", "chat", "status"}, u, v \in Users :
       /\ u # v
       /\ job' = [job EXCEPT ![p] = [Rest EXCEPT !.op = op, !.user = u, !.peer = v]]
  /\ pc' = [pc EXCEPT ![p] = "lookup"]
  /\ left' = [left EXCEPT ![p] = @ - 1]
  /\ UNCHANGED <<rows, cache, issued, notifs, tasks, messages, log>>

\* Requests about a friendship id, by any user who knows it.
BeginById(p) ==
  /\ pc[p] = "idle"
  /\ left[p] > 0
  /\ \E op \in {"accept", "reject", "remove", "read"}, u \in Users, i \in issued :
       job' = [job EXCEPT ![p] = [Rest EXCEPT !.op = op, !.user = u, !.id = i]]
  /\ pc' = [pc EXCEPT ![p] = "cache"]
  /\ left' = [left EXCEPT ![p] = @ - 1]
  /\ UNCHANGED <<rows, cache, issued, notifs, tasks, messages, log>>

----------------------------------------------------------------------------
(* FindBySenderAndReceiver: the database, then a DEL of the row's key.     *)

\* SendFriendRequest takes any error for an absent row; the others end.
Lookup(p) ==
  LET j == job[p] IN
  /\ pc[p] = "lookup"
  /\ \/ \E i \in Ids : First(j.user, j.peer, i) /\ Read(p, i, rows[i], "forget")
     \/ /\ Between(j.user, j.peer) = {} \/ Faults
        /\ GoTo(p, IF j.op = "send" THEN "create" ELSE "idle")
  /\ UNCHANGED <<rows, cache, issued, notifs, tasks, messages, left, log>>

Forget(p) ==
  /\ pc[p] = "forget"
  /\ ClearKey(job[p].id)
  /\ GoTo(p, AfterLookup(job[p], job[p].seen))
  /\ UNCHANGED <<rows, issued, notifs, tasks, messages, left, log>>

----------------------------------------------------------------------------
(* FindByID: the cache, else the database and a SET of the row's key.      *)

FromCache(p) ==
  LET i == job[p].id IN
  /\ pc[p] = "cache"
  /\ \/ /\ cache[i] # NoRow
        /\ Read(p, i, cache[i], AfterLoad(job[p], cache[i]))
     \/ /\ cache[i] = NoRow \/ Faults
        /\ GoTo(p, "db")
  /\ UNCHANGED <<rows, cache, issued, notifs, tasks, messages, left, log>>

FromDB(p) ==
  LET i == job[p].id IN
  /\ pc[p] = "db"
  /\ IF rows[i] = NoRow THEN GoTo(p, "idle") ELSE Read(p, i, rows[i], "fill")
  /\ UNCHANGED <<rows, cache, issued, notifs, tasks, messages, left, log>>

Fill(p) ==
  /\ pc[p] = "fill"
  /\ FillKey(job[p].id, job[p].seen)
  /\ GoTo(p, AfterLoad(job[p], job[p].seen))
  /\ UNCHANGED <<rows, issued, notifs, tasks, messages, left, log>>

----------------------------------------------------------------------------
(* SendFriendRequest and SendMessage, after the check.                     *)

\* The INSERT, the goroutine for the notification, and on to the reload.
Create(p) ==
  LET j == job[p] IN
  /\ pc[p] = "create"
  /\ \E i \in Ids \ issued :
       /\ rows' = [rows EXCEPT ![i] =
                     [sender |-> j.user, receiver |-> j.peer, status |-> "pending"]]
       /\ issued' = issued \cup {i}
       /\ tasks' = tasks \cup {[type |-> "friend_request", target |-> i]}
       /\ log' = log \cup {[what |-> "asked", by |-> j.user, to |-> j.peer, id |-> i]}
       /\ Read(p, i, NoRow, "cache")
  /\ UNCHANGED <<cache, notifs, messages, left>>

Insert(p) ==
  LET j == job[p] IN
  /\ pc[p] = "insert"
  /\ messages' = messages \cup {[from |-> j.user, to |-> j.peer]}
  /\ GoTo(p, "idle")
  /\ UNCHANGED <<rows, cache, issued, notifs, tasks, left, log>>

----------------------------------------------------------------------------
(* AcceptFriendRequest, RejectFriendRequest, RemoveFriend.                 *)

Verdict_Blocked(j) == IF j.op = "accept" THEN "accepted" ELSE "blocked"
Verdict(j) == IF j.op = "accept" THEN "accepted" ELSE "rejected"

\* db.Save of the row as it was loaded, with its new status: UPDATE or INSERT.
Save(p) ==
  LET j == job[p] IN
  /\ pc[p] = "save"
  /\ rows' = [rows EXCEPT ![j.id] = [j.seen EXCEPT !.status = Verdict(j)]]
  /\ log' = log \cup {[what |-> Verdict(j), by |-> j.user, to |-> j.seen.sender, id |-> j.id]}
  /\ GoTo(p, "invalidate")
  /\ UNCHANGED <<cache, issued, notifs, tasks, messages, left>>

\* The DEL that ends Update and Delete in the repository.
Invalidate(p) ==
  /\ pc[p] = "invalidate"
  /\ ClearKey(job[p].id)
  /\ GoTo(p, IF job[p].op = "remove" THEN "idle" ELSE "purge")
  /\ UNCHANGED <<rows, issued, notifs, tasks, messages, left, log>>

\* DeleteByTargetIDAndType(friend_request), whose error is ignored, then the goroutine
\* for the answer.
Purge(p) ==
  LET j == job[p] IN
  /\ pc[p] = "purge"
  /\ notifs' \in {notifs \ {[type |-> "friend_request", target |-> j.id]}}
                   \cup (IF Faults THEN {notifs} ELSE {})
  /\ tasks' = tasks \cup
       {[type |-> IF j.op = "accept" THEN "friend_accepted" ELSE "friend_rejected",
         target |-> j.id]}
  /\ GoTo(p, "idle")
  /\ UNCHANGED <<rows, cache, issued, messages, left, log>>

\* Delete loads the row once more, past the cache, and then deletes it by id.
Select(p) ==
  /\ pc[p] = "select"
  /\ GoTo(p, IF rows[job[p].id] = NoRow THEN "idle" ELSE "delete")
  /\ UNCHANGED <<rows, cache, issued, notifs, tasks, messages, left, log>>

Delete(p) ==
  /\ pc[p] = "delete"
  /\ rows' = [rows EXCEPT ![job[p].id] = NoRow]
  /\ GoTo(p, "invalidate")
  /\ UNCHANGED <<cache, issued, notifs, tasks, messages, left, log>>

----------------------------------------------------------------------------
(* Goroutines, expiry, failures.                                           *)

\* sendNotification in its goroutine: the row is inserted.
RunTask(t) ==
  /\ t \in tasks
  /\ tasks' = tasks \ {t}
  /\ notifs' = notifs \cup {t}
  /\ UNCHANGED <<rows, cache, issued, messages, pc, job, left, log>>

\* Wrong on purpose: entries are stored without an expiration.
Expire_Never(i) == FALSE /\ UNCHANGED vars

\* A cache entry reaches its expiration (15 minutes).
Expire(i) ==
  /\ cache[i] # NoRow
  /\ cache' = [cache EXCEPT ![i] = NoRow]
  /\ UNCHANGED <<rows, issued, notifs, tasks, messages, pc, job, left, log>>

\* A statement returns an error, or the process stops: the handler ends where it
\* is.  The database and Redis keep what they have.
Abort(p) ==
  /\ Faults
  /\ pc[p] # "idle"
  /\ GoTo(p, "idle")
  /\ UNCHANGED <<rows, cache, issued, notifs, tasks, messages, left, log>>

\* The goroutine's INSERT fails, or the process stops before it: nobody retries.
LoseTask(t) ==
  /\ Faults
  /\ t \in tasks
  /\ tasks' = tasks \ {t}
  /\ UNCHANGED <<rows, cache, issued, notifs, messages, pc, job, left, log>>

----------------------------------------------------------------------------
Serve(p) ==
  \/ Lookup(p) \/ Forget(p) \/ FromCache(p) \/ FromDB(p) \/ Fill(p)
  \/ Create(p) \/ Insert(p) \/ Save(p) \/ Invalidate(p) \/ Purge(p)
  \/ Select(p) \/ Delete(p)

Next ==
  \/ \E p \in Workers : BeginPair(p) \/ BeginById(p) \/ Serve(p) \/ Abort(p)
  \/ \E t \in Notification : RunTask(t) \/ LoseTask(t)
  \/ \E i \in Ids : Expire(i)

Spec == Init /\ [][Next]_vars

\* Goroutines run and Redis expires keys; nobody has to send a request.
Fairness ==
  /\ \A p \in Workers : WF_vars(Serve(p))
  /\ \A t \in Notification : WF_vars(RunTask(t))
  /\ \A i \in Ids : WF_vars(Expire(i))

FairSpec == Spec /\ Fairness

----------------------------------------------------------------------------
(* Safety, whatever interleaves and whatever fails.                        *)

Asked(u, v, i)    == [what |-> "asked", by |-> u, to |-> v, id |-> i] \in log
Accepted(u, v, i) == [what |-> "accepted", by |-> u, to |-> v, id |-> i] \in log

\* A friendship takes both sides: an accepted row was requested by its sender
\* and accepted by its receiver, even if the handler decided on a stale cached
\* row or its Save brought a removed row back.
FriendshipTakesBothSides ==
  \A i \in Ids :
    rows[i] # NoRow /\ rows[i].status = "accepted" =>
      /\ Asked(rows[i].sender, rows[i].receiver, i)
      /\ Accepted(rows[i].receiver, rows[i].sender, i)

\* Nobody receives a chat message from a user with whom no request was ever both
\* made and accepted (SendMessage reads the friendship, then inserts).
ChatTakesBothSides ==
  \A m \in messages : \E i \in Ids :
    \/ Asked(m.from, m.to, i) /\ Accepted(m.to, m.from, i)
    \/ Asked(m.to, m.from, i) /\ Accepted(m.from, m.to, i)

\* A notification never announces an answer that was not stored before.
AnswersAreReal ==
  \A t \in notifs \cup tasks :
    /\ t.type = "friend_accepted" => \E u, v \in Users : Accepted(u, v, t.target)
    /\ t.type = "friend_rejected" =>
         \E u, v \in Users : [what |-> "rejected", by |-> u, to |-> v, id |-> t.target] \in log

\* RejectFriendRequest says "cannot reject an accepted friendship"; two workers
\* that both read "pending" do.
AcceptedIsNotRejected ==
  \A i \in Ids :
    rows[i] # NoRow /\ rows[i].status = "rejected" =>
      ~\E u, v \in Users : Accepted(u, v, i)

----------------------------------------------------------------------------
(* The abstract promise this module implements.                            *)

RequestsMade    == {[id |-> e.id, from |-> e.by, to |-> e.to] :
                      e \in {x \in log : x.what = "asked"}}
RequestsGranted == {[id |-> e.id, from |-> e.to, to |-> e.by] :
                      e \in {x \in log : x.what = "accepted"}}
FriendshipsNow  == {[id |-> i, from |-> rows[i].sender, to |-> rows[i].receiver] :
                      i \in {k \in Ids : rows[k] # NoRow /\ rows[k].status = "accepted"}}

Abstract == INSTANCE Consent WITH requests <- RequestsMade,
                                  granted  <- RequestsGranted,
                                  friends  <- FriendshipsNow

\* Every step of the handlers is a step of Consent or changes nothing there: in
\* particular a friendship begins only in the Save of an accept by the receiver
\* of that request, never in a Save of a reject, a Create or a cache step.
ImplementsConsent == Abstract!Spec

----------------------------------------------------------------------------
(* Liveness.                                                               *)

\* Races and lost DELs leave stale entries, but not for good: once requests stop
\* coming, the expiration makes the cache agree with the table.
StaleEntriesExpire == <>[](\A i \in Ids : cache[i] \in {NoRow, rows[i]})
=============================================================================
