----------------------------- MODULE Engagement -----------------------------
(***************************************************************************)
(* Likes, views and comments of one post, their cached numbers, the score  *)
(* by which the popular feed ranks the post, and the notifications its     *)
(* owner gets of them.                                                     *)
(*                                                                         *)
(* A worker p is the goroutine of one HTTP request, and goes on as the     *)
(* goroutine that notifies of a comment.  Every statement and every        *)
(* command to Redis is an action, but for the pair of commands that stores *)
(* a score.  A like, a view, a comment and a notification is named by the  *)
(* request that made it.                                                   *)
(*                                                                         *)
(* Most handlers look the post up first, in a cache that may still show it *)
(* after its deletion (module Posts), so that no request depends on it     *)
(* here.  Reactions are told apart by whether they change; the boost of    *)
(* new posts and the other posts of the feed are left out.                 *)
(***************************************************************************)
EXTENDS Notices

CONSTANTS
  Workers,   \* concurrently running HTTP requests
  Budget,    \* number of requests served in all
  Faults,    \* TRUE: statements, commands and the process itself may fail
  NoJob      \* what an idle worker holds

Kinds == {"likes", "comments", "views"}
Keys  == Kinds \cup {"unread"}
Row   == [user : Users, id : Nat]

Op == {"like", "react", "unlike", "view", "comment", "edit", "uncomment", "look", "count",
       "feed", "read", "readall", "dismiss", "delete", "update", "reload", "recall"}

\* A request: its user, the key it is about, the row it makes or found, the number or
\* sum it read, and whether the post was not liked when the handler looked.
Job == [op : Op, user : Users, key : Keys, id : Nat, sum : Nat, fresh : BOOLEAN]

ASSUME EngagementAssumption ==
  /\ Budget \in Nat
  /\ Faults \in BOOLEAN
  /\ Absent \notin Nat
  /\ NoJob \notin Job
  /\ Users # {}

VARIABLES
  alive,     \* FALSE once the post is deleted
  rows,      \* the rows of each kind
  cached,    \* the cached number of each kind
  shown,     \* the comments cached under their ids
  score,     \* the cached score of the post
  rank,      \* its score in the sorted set of the feed
  expires,   \* whether the sorted set was given a time to live
  pc,        \* control point of each worker
  job,       \* the request a worker serves
  left,      \* requests that may still arrive
  gone,      \* history: the likes and comments that were deleted
  raced,     \* history: whether a row was found or about to be saved while it was deleted
  doubled,   \* history: whether a like was notified of while another was looked for
  torn,      \* history: workers whose counts failed, or miss a change of the rows
  late       \* history: keys that were filled too late, not deleted or given a torn sum

vars == <<notices, unread, alive, rows, cached, shown, score, rank, expires, pc, job, left,
          gone, raced, doubled, torn, late>>

Control == {"idle", "check", "find", "show", "again", "insert", "save", "select", "remove", "clear",
            "likes", "comments", "views", "post", "rank", "sent", "notify", "clearunread",
            "mark", "dismiss", "get", "query", "fill", "feed", "delete", "unrank"}

TypeOK ==
  /\ NoticesOK
  /\ alive \in BOOLEAN
  /\ rows \in [Kinds -> SUBSET Row]
  /\ cached \in [Kinds -> Nat \cup {Absent}]
  /\ shown \subseteq Row
  /\ score \in Nat \cup {Absent}
  /\ rank \in Nat \cup {Absent}
  /\ expires \in BOOLEAN
  /\ pc \in [Workers -> Control]
  /\ job \in [Workers -> Job \cup {NoJob}]
  /\ \A p \in Workers : pc[p] # "idle" => job[p] \in Job
  /\ left \in 0..Budget
  /\ gone \subseteq Nat
  /\ raced \in BOOLEAN
  /\ doubled \in BOOLEAN
  /\ torn \subseteq Workers
  /\ late \subseteq Keys \cup {"rank"}

Init ==
  /\ NoticesInit
  /\ alive = TRUE
  /\ rows = [k \in Kinds |-> {}]
  /\ cached = [k \in Kinds |-> Absent] /\ shown = {}
  /\ score = Absent /\ rank = Absent /\ expires = FALSE
  /\ pc = [p \in Workers |-> "idle"]
  /\ job = [p \in Workers |-> NoJob]
  /\ left = Budget
  /\ gone = {}
  /\ raced = FALSE /\ doubled = FALSE
  /\ torn = {} /\ late = {}

----------------------------------------------------------------------------
(* Helpers.                                                                *)

post    == <<alive, score, rank, expires>>
store   == <<notices, unread>>
table   == <<rows, shown>>
data    == <<post, table, cached, store>>
history == <<gone, raced, doubled, torn, late>>

\* A request arrives and starts at control point c.
Take(p, j, c) ==
  /\ pc[p] = "idle"
  /\ left > 0
  /\ left' = left - 1
  /\ pc' = [pc EXCEPT ![p] = c]
  /\ job' = [job EXCEPT ![p] = j]
  /\ UNCHANGED <<data, history>>

\* Worker p goes on at c, holding j; an idle worker holds nothing.
GoTo(p, j, c) ==
  /\ pc' = [pc EXCEPT ![p] = c]
  /\ job' = [job EXCEPT ![p] = IF c = "idle" THEN NoJob ELSE j]
  /\ UNCHANGED left

Request(op, u, k) == [op |-> op, user |-> u, key |-> k, id |-> left, sum |-> 0, fresh |-> FALSE]

Somebody == CHOOSE u \in Users : TRUE

\* The row of the user that a SELECT finds.
Mine(j) == {r \in rows[j.key] : r.user = j.user}

\* The rows of a kind, or the unread notifications: a SELECT COUNT.
Number(k) == IF k = "unread" THEN Unread ELSE Cardinality(rows[k])

Weight == [likes |-> 2, comments |-> 3, views |-> 1]

Score == 2 * Cardinality(rows["likes"]) + 3 * Cardinality(rows["comments"])
           + Cardinality(rows["views"])

\* An error, where the code takes it for an absent row or key.
OrNone(s) == {s} \cup (IF Faults THEN {{}} ELSE {})

\* A command to Redis that fails is not noticed.
Done(done) == done \in BOOLEAN /\ (done \/ Faults)

\* Workers that have counted, or taken a cached score, and not stored the sum yet: a
\* change of the rows overtakes them.
Counting == {p \in Workers : pc[p] \in {"comments", "views", "post", "rank"}}

\* A key set to a value that is not the present one is stale from the start.
Stale(k, isStale) == late' = IF isStale THEN late \cup {k} ELSE late \ {k}

----------------------------------------------------------------------------
(* A request arrives.                                                      *)

LikePost(p)      == \E u \in Users : Take(p, Request("like", u, "likes"), "check")
UnlikePost(p)    == \E u \in Users : Take(p, Request("unlike", u, "likes"), "find")
TrackView(p)     == \E u \in Users : Take(p, Request("view", u, "views"), "find")
CreateComment(p) == \E u \in Users : Take(p, Request("comment", u, "comments"), "insert")
UpdateComment(p) == \E u \in Users : Take(p, Request("edit", u, "comments"), "find")
DeleteComment(p) == \E u \in Users : Take(p, Request("uncomment", u, "comments"), "find")
GetComment(p)    == \E u \in Users : Take(p, Request("look", u, "comments"), "find")
GetCount(p)      == \E k \in Keys : Take(p, Request("count", Somebody, k), "get")
GetFeed(p)       == Take(p, Request("feed", Somebody, "likes"), "feed")
UpdatePost(p)    == alive /\ Take(p, Request("update", Somebody, "likes"), "likes")
DeletePost(p)    == alive /\ Take(p, Request("delete", Somebody, "likes"), "delete")

\* The owner reads or deletes a notification, or reads them all.
MarkAsRead(p) ==
  \E n \in notices : Take(p, [Request("read", Somebody, "unread") EXCEPT !.id = n.id], "mark")
MarkAllAsRead(p) == Take(p, Request("readall", Somebody, "unread"), "mark")
DeleteNotification(p) ==
  \E n \in notices : Take(p, [Request("dismiss", Somebody, "unread") EXCEPT !.id = n.id], "dismiss")

----------------------------------------------------------------------------
(* Rows.                                                                   *)

\* CheckUserLiked, for the notification only.
CheckUserLiked(p) ==
  LET j == job[p] IN
  /\ pc[p] = "check"
  /\ \E mine \in OrNone(Mine(j)) : GoTo(p, [j EXCEPT !.fresh = mine = {}], "find")
  /\ UNCHANGED <<data, history>>

\* Where a handler goes that found row r of its user.
AfterFound(p, j, r) ==
  CASE j.op = "like"      -> \/ GoTo(p, j, IF j.fresh THEN "sent" ELSE "idle")
                             \/ GoTo(p, [j EXCEPT !.op = "react", !.id = r.id], "save")
    [] j.op = "edit"      -> GoTo(p, [j EXCEPT !.id = r.id], "save")
    [] j.op \in {"unlike", "uncomment"} -> GoTo(p, [j EXCEPT !.id = r.id], "select")
    [] j.op = "recall" -> GoTo(p, j, "notify")
    [] j.op \in {"view", "look", "reload"} -> GoTo(p, j, "idle")

\* FindByUserAndTarget or FindByPostAndUser.  A like or view that is not found, or
\* cannot be read, is made.
Find(p) ==
  LET j == job[p] IN
  /\ pc[p] = "find" /\ j.key # "comments"
  /\ \E mine \in OrNone(Mine(j)) :
       IF mine # {} THEN \E r \in mine : AfterFound(p, j, r)
       ELSE GoTo(p, j, CASE j.op = "like" -> "insert" [] j.op = "view" -> "again"
                         [] OTHER -> "idle")
  /\ UNCHANGED <<data, history>>

\* The comment a request is about: one of its user, or the one it has just written.
About(j, r) == IF j.op \in {"reload", "recall"} THEN r.id = j.id ELSE r.user = j.user

\* FindByID of a comment: from the cache, or, as the key may have expired, the table.
\* Only its author may change a comment.
FindComment(p) ==
  LET j == job[p] IN
  /\ pc[p] = "find" /\ j.key = "comments"
  /\ \/ \E r \in shown :
          /\ About(j, r)
          /\ AfterFound(p, j, r)
          /\ raced' = (raced \/ \E q \in Workers : pc[q] = "clear" /\ job[q].id = r.id)
     \/ \E r \in Mine(j) :
          About(j, r) /\ GoTo(p, [j EXCEPT !.id = r.id], "show") /\ UNCHANGED raced
     \/ GoTo(p, j, IF j.op = "recall" THEN "notify" ELSE "idle") /\ UNCHANGED raced
  /\ UNCHANGED <<data, gone, doubled, torn, late>>

\* It is cached as it was found.
ShowComment(p) ==
  LET j == job[p]
      r == [user |-> j.user, id |-> j.id] IN
  /\ pc[p] = "show"
  /\ shown' = shown \cup {r}
  /\ AfterFound(p, j, r)
  /\ UNCHANGED <<post, rows, cached, store, history>>

\* CreateOrUpdate looks for the view once more; the score is updated in any case.
FindAgain(p) ==
  LET j == job[p] IN
  /\ pc[p] = "again"
  /\ GoTo(p, j, IF Mine(j) = {} THEN "insert" ELSE "likes")
  /\ UNCHANGED <<data, history>>

\* Wrong on purpose: no unique index.
DuplicateKey_None(k, u) == FALSE

\* The unique indexes of likes and views.
DuplicateKey(k, u) == k # "comments" /\ \E r \in rows[k] : r.user = u

Insert(p) ==
  LET j == job[p] IN
  /\ pc[p] = "insert"
  /\ IF DuplicateKey(j.key, j.user)
       THEN GoTo(p, j, "idle") /\ UNCHANGED <<rows, torn>>
       ELSE /\ rows' = [rows EXCEPT ![j.key] = @ \cup {[user |-> j.user, id |-> j.id]}]
            /\ torn' = torn \cup Counting
            /\ GoTo(p, j, "clear")
  /\ UNCHANGED <<post, shown, cached, store, gone, raced, doubled, late>>

\* db.Save of a like with another reaction or of a comment with other words: a row
\* deleted since it was found is inserted again, unless the index refuses it.
Save(p) ==
  LET j == job[p]
      r == [user |-> j.user, id |-> j.id] IN
  /\ pc[p] = "save"
  /\ IF r \notin rows[j.key] /\ DuplicateKey(j.key, j.user)
       THEN GoTo(p, j, "idle") /\ UNCHANGED <<rows, torn, late>>
       ELSE /\ rows' = [rows EXCEPT ![j.key] = @ \cup {r}]
            /\ IF r \in rows[j.key] THEN UNCHANGED <<torn, late>>
               ELSE torn' = torn \cup Counting /\ late' = late \cup {"rank"}
            /\ GoTo(p, j, "clear")
  /\ UNCHANGED <<post, shown, cached, store, gone, raced, doubled>>

\* Delete of the repositories reads the row once more.
Select(p) ==
  LET j == job[p] IN
  /\ pc[p] = "select"
  /\ GoTo(p, j, IF [user |-> j.user, id |-> j.id] \in rows[j.key] THEN "remove" ELSE "idle")
  /\ UNCHANGED <<data, history>>

Remove(p) ==
  LET j == job[p] IN
  /\ pc[p] = "remove"
  /\ rows' = [rows EXCEPT ![j.key] = {r \in @ : r.id # j.id}]
  /\ gone' = gone \cup {j.id}
  /\ raced' = (raced \/ \E q \in Workers : pc[q] \in {"save", "show"} /\ job[q].id = j.id)
  /\ torn' = torn \cup Counting
  /\ GoTo(p, j, "clear")
  /\ UNCHANGED <<post, shown, cached, store, doubled, late>>

\* Wrong on purpose: a deletion leaves the score.
Scored_Created(op) == op \in {"like", "view", "comment"}

\* The operations after which the score is computed.
Scored(op) == op \in {"like", "unlike", "view", "comment", "uncomment"}

\* Wrong on purpose: deletions leave the cached number.
Cleared_Created(j) == j.op \notin {"unlike", "uncomment"}

\* Every write is followed by the deletion of the cached list and number.
Cleared(j) == TRUE

\* Wrong on purpose: the deleted comment stays in the cache.
Forgotten_Edited(j) == j.op = "edit"

\* An update or deletion of a comment takes it out of the cache.
Forgotten(j) == j.op \in {"edit", "uncomment"}

Clear(p) ==
  LET j == job[p] IN
  /\ pc[p] = "clear"
  /\ \E done \in BOOLEAN :
       /\ Done(done)
       /\ shown' = IF done /\ Forgotten(j) THEN {r \in shown : r.id # j.id} ELSE shown
       /\ raced' = (raced \/ (~done /\ j.op = "uncomment"))
       /\ cached' = IF done /\ Cleared(j) THEN [cached EXCEPT ![j.key] = Absent] ELSE cached
       /\ Stale(j.key, ~done /\ cached[j.key] # Absent)
  /\ CASE Scored(j.op) -> GoTo(p, j, "likes")
       [] j.op = "react" -> GoTo(p, j, IF j.fresh THEN "sent" ELSE "idle")
       [] j.op = "edit"  -> GoTo(p, [j EXCEPT !.op = "reload"], "find")
       [] OTHER          -> GoTo(p, j, "idle")
  /\ UNCHANGED <<post, rows, store, gone, doubled, torn>>

----------------------------------------------------------------------------
(* The score of the post and the popular feed.                             *)

\* UpdatePostEngagementScore counts in three statements, and so does the feed.  Nobody
\* looks at their errors: a count that fails is 0.  sum is what was counted before.
CountRows(p, k, sum, next) ==
  /\ pc[p] = k
  /\ \E n \in {Cardinality(rows[k])} \cup (IF Faults THEN {0} ELSE {}) :
       /\ GoTo(p, [job[p] EXCEPT !.sum = sum + Weight[k] * n], next)
       /\ torn' = IF n = Cardinality(rows[k]) THEN torn ELSE torn \cup {p}
  /\ UNCHANGED <<data, gone, raced, doubled, late>>

CountLikes(p)    == CountRows(p, "likes", 0, "comments")
CountComments(p) == CountRows(p, "comments", job[p].sum, "views")
CountViews(p)    == CountRows(p, "views", job[p].sum,
                              IF job[p].op = "feed" THEN "rank" ELSE "post")

\* What a handler does once the score is stored.  The notification of a comment and the
\* handler that reads it again go on side by side: either comes first.  The sum is used.
AfterScore(p) ==
  LET j == [job[p] EXCEPT !.sum = 0] IN
  CASE j.op = "like" /\ j.fresh -> GoTo(p, j, "sent")
    [] j.op = "comment" -> \/ GoTo(p, j, "notify")
                           \/ GoTo(p, [j EXCEPT !.op = "recall"], "find")
    [] OTHER -> GoTo(p, j, "idle")

\* No score for a post that is gone.
FindPost(p) ==
  /\ pc[p] = "post"
  /\ IF alive THEN GoTo(p, job[p], "rank") /\ UNCHANGED torn
              ELSE AfterScore(p) /\ torn' = torn \ {p}
  /\ UNCHANGED <<data, gone, raced, doubled, late>>

\* The sorted set is only given a time to live when the feed builds it; ZADD makes one
\* that stays.  SET and ZADD are two commands.
StoreScore(p) ==
  LET j == job[p] IN
  /\ pc[p] = "rank"
  /\ \E done \in BOOLEAN :
       /\ Done(done)
       /\ IF done
            THEN /\ score' = j.sum /\ rank' = j.sum
                 /\ expires' = (j.op = "feed" \/ (rank # Absent /\ expires))
            ELSE UNCHANGED <<score, rank, expires>>
       /\ late' = IF done /\ alive /\ p \notin torn THEN late \ {"rank"} ELSE late \cup {"rank"}
  /\ AfterScore(p)
  /\ torn' = torn \ {p}
  /\ UNCHANGED <<alive, table, cached, store, gone, raced, doubled>>

\* A worker that will store a score once more.
Rescores(p) == \/ pc[p] \in {"likes", "comments", "views", "post", "rank"}
               \/ pc[p] = "clear" /\ Scored(job[p].op)

\* FindFeedByEngagement builds the set when it finds none, from the cached score if
\* there is one, which may be about to be replaced.  Without Redis it sorts in memory.
FindFeed(p) ==
  LET j == job[p] IN
  /\ pc[p] = "feed"
  /\ IF rank # Absent \/ ~alive THEN GoTo(p, j, "idle") /\ UNCHANGED torn
     ELSE IF score = Absent THEN GoTo(p, j, "likes") /\ UNCHANGED torn
     ELSE /\ GoTo(p, [j EXCEPT !.sum = score], "rank")
          /\ torn' = IF "rank" \in late \/ \E q \in Workers : Rescores(q)
                     THEN torn \cup {p} ELSE torn
  /\ UNCHANGED <<data, gone, raced, doubled, late>>

\* The soft deletion of the post.  A score may be on its way.
RemovePost(p) ==
  /\ pc[p] = "delete"
  /\ alive' = FALSE
  /\ late' = IF \E q \in Workers : \/ pc[q] = "rank"
                                   \/ pc[q] \in Kinds /\ job[q].op = "feed"
               THEN late \cup {"rank"} ELSE late
  /\ GoTo(p, job[p], "unrank")
  /\ UNCHANGED <<table, cached, score, rank, expires, store, gone, raced, doubled, torn>>

Unrank(p) ==
  /\ pc[p] = "unrank"
  /\ \E done \in BOOLEAN :
       /\ Done(done)
       /\ IF done THEN rank' = Absent /\ score' = Absent ELSE UNCHANGED <<rank, score>>
       /\ late' = IF done THEN late ELSE late \cup {"rank"}
  /\ GoTo(p, job[p], "idle")
  /\ UNCHANGED <<alive, table, cached, expires, store, gone, raced, doubled, torn>>

----------------------------------------------------------------------------
(* Notifications of the owner.                                             *)

\* SendPostLikedNotification looks whether the owner has one of this user; an error, or
\* one that is not among the newest 1000, is taken for no.
FindNotice(p) ==
  LET j == job[p] IN
  /\ pc[p] = "sent"
  /\ \E sent \in {AlreadySent(j.user)} \cup (IF Faults THEN {FALSE} ELSE {}) :
       /\ GoTo(p, j, IF sent THEN "idle" ELSE "notify")
       /\ doubled' = \/ doubled
                     \/ sent # AlreadySent(j.user)
                     \/ \E q \in Workers : /\ pc[q] = "notify"
                                           /\ job[q].key # "comments"
                                           /\ job[q].user = j.user
  /\ UNCHANGED <<data, gone, raced, torn, late>>

\* sendNotification: the row, then the cached number; the push to the hub is in Hub.
CreateNotice(p) ==
  LET j == job[p] IN
  /\ pc[p] = "notify"
  /\ Create([id |-> j.id, kind |-> IF j.key = "comments" THEN "commented" ELSE "liked",
             sender |-> j.user, read |-> FALSE])
  /\ GoTo(p, j, "clearunread")
  /\ UNCHANGED <<post, table, cached, unread, history>>

MarkNotices(p) ==
  LET j == job[p] IN
  /\ pc[p] = "mark"
  /\ MarkRead(IF j.op = "readall" THEN {n.id : n \in notices} ELSE {j.id})
  /\ GoTo(p, j, "clearunread")
  /\ UNCHANGED <<post, table, cached, unread, history>>

DeleteNotice(p) ==
  LET j == job[p] IN
  /\ pc[p] = "dismiss"
  /\ Dismiss(j.id)
  /\ GoTo(p, j, IF \E n \in notices : n.id = j.id THEN "clearunread" ELSE "idle")
  /\ UNCHANGED <<post, table, cached, unread, history>>

ClearUnread(p) ==
  /\ pc[p] = "clearunread"
  /\ \E done \in BOOLEAN :
       /\ Done(done)
       /\ unread' = IF done THEN Absent ELSE unread
       /\ Stale("unread", ~done /\ unread # Absent)
  /\ IF job[p].op = "comment" THEN GoTo(p, [job[p] EXCEPT !.op = "reload"], "find")
                              ELSE GoTo(p, job[p], "idle")
  /\ UNCHANGED <<post, table, cached, notices, gone, raced, doubled, torn>>

----------------------------------------------------------------------------
(* Numbers, read through the cache.                                        *)

InCache(k) == IF k = "unread" THEN unread ELSE cached[k]

GetCached(p) ==
  LET j == job[p] IN
  /\ pc[p] = "get"
  /\ \E c \in {InCache(j.key)} \cup (IF Faults THEN {Absent} ELSE {}) :
       GoTo(p, j, IF c = Absent THEN "query" ELSE "idle")
  /\ UNCHANGED <<data, history>>

Query(p) ==
  /\ pc[p] = "query"
  /\ GoTo(p, [job[p] EXCEPT !.sum = Number(job[p].key)], "fill")
  /\ UNCHANGED <<data, history>>

Fill(p) ==
  LET j == job[p] IN
  /\ pc[p] = "fill"
  /\ IF j.key = "unread" THEN unread' = j.sum /\ UNCHANGED cached
                         ELSE cached' = [cached EXCEPT ![j.key] = j.sum] /\ UNCHANGED unread
  /\ Stale(j.key, j.sum # Number(j.key))
  /\ GoTo(p, j, "idle")
  /\ UNCHANGED <<post, table, notices, gone, raced, doubled, torn>>

----------------------------------------------------------------------------
(* Failures and time.                                                      *)

\* The keys that worker p has still to write or delete, and those that hold something.
Owed(p) == CASE pc[p] = "clear" -> {job[p].key} \cup (IF Scored(job[p].op) THEN {"rank"} ELSE {})
             [] pc[p] \in Kinds \cup {"post", "rank", "unrank"} -> {"rank"}
             [] pc[p] = "clearunread" -> {"unread"}
             [] OTHER -> {}

Holds(k) == IF k = "rank" THEN rank # Absent \/ score # Absent ELSE InCache(k) # Absent

\* A statement returns an error, or the process stops: what was owed is stale now.
Abort(p) ==
  /\ Faults
  /\ pc[p] # "idle"
  /\ late' = late \cup {k \in Owed(p) : Holds(k)}
  /\ raced' = (raced \/ (pc[p] = "clear" /\ job[p].op = "uncomment"))
  /\ GoTo(p, job[p], "idle")
  /\ torn' = torn \ {p}
  /\ UNCHANGED <<data, gone, doubled>>

\* A number expires, ten or fifteen minutes after it was stored.
Expire(k) ==
  /\ InCache(k) # Absent
  /\ IF k = "unread" THEN unread' = Absent /\ UNCHANGED cached
                     ELSE cached' = [cached EXCEPT ![k] = Absent] /\ UNCHANGED unread
  /\ late' = late \ {k}
  /\ UNCHANGED <<post, table, notices, pc, job, left, gone, raced, doubled, torn>>

ExpireScore ==
  /\ score # Absent
  /\ score' = Absent
  /\ UNCHANGED <<alive, rank, expires, table, cached, store, pc, job, left, history>>

ExpireRank ==
  /\ rank # Absent /\ expires
  /\ rank' = Absent
  /\ UNCHANGED <<alive, score, expires, table, cached, store, pc, job, left, history>>

----------------------------------------------------------------------------
Begin(p) ==
  \/ LikePost(p) \/ UnlikePost(p) \/ TrackView(p) \/ CreateComment(p) \/ UpdateComment(p)
  \/ DeleteComment(p) \/ GetComment(p) \/ GetCount(p) \/ GetFeed(p) \/ UpdatePost(p)
  \/ DeletePost(p) \/ MarkAsRead(p) \/ MarkAllAsRead(p) \/ DeleteNotification(p)

Serve(p) ==
  \/ CheckUserLiked(p) \/ Find(p) \/ FindComment(p) \/ ShowComment(p) \/ FindAgain(p)
  \/ Insert(p) \/ Save(p) \/ Select(p) \/ Remove(p) \/ Clear(p)
  \/ CountLikes(p) \/ CountComments(p) \/ CountViews(p)
  \/ FindPost(p) \/ StoreScore(p) \/ FindFeed(p) \/ RemovePost(p) \/ Unrank(p)
  \/ FindNotice(p) \/ CreateNotice(p) \/ MarkNotices(p) \/ DeleteNotice(p) \/ ClearUnread(p)
  \/ GetCached(p) \/ Query(p) \/ Fill(p)

Next ==
  \/ \E p \in Workers : Begin(p) \/ Serve(p) \/ Abort(p)
  \/ \E k \in Keys : Expire(k)
  \/ ExpireScore \/ ExpireRank

Spec == Init /\ [][Next]_vars
----------------------------------------------------------------------------
(* Safety, whatever interleaves and whatever fails.                        *)

\* A user likes and views the post once, however many requests look for the row and
\* then make it.
OneRowPerUser ==
  \A k \in {"likes", "views"} : \A r, s \in rows[k] : r.user = s.user => r = s

\* A like taken back and a deleted comment do not return, although a change of either
\* saves the whole row, as it was found or cached; unless that overlapped the deletion,
\* or the comment could not be taken out of the cache.
DeletedRowsStayDeleted ==
  ~raced => \A k \in {"likes", "comments"} : \A r \in rows[k] : r.id \notin gone

\* The owner has one notification of the likes of a user, however often the user takes
\* the like back, unless two likes overlap or the search fails.
LikedOnce ==
  ~doubled => \A m, n \in notices :
    m.kind = "liked" /\ n.kind = "liked" /\ m.sender = n.sender => m = n

Pending(points, key) == \E p \in Workers : pc[p] \in points /\ job[p].key \in key

\* Between requests the cached numbers are those of the rows.  One disagrees only while
\* a worker has still to delete it, or since it was filled with something counted
\* earlier or a command to Redis was lost.
NumbersFollowRows ==
  /\ \A k \in Kinds : cached[k] # Absent /\ k \notin late =>
       cached[k] = Number(k) \/ Pending({"clear"}, {k})
  /\ unread # Absent /\ "unread" \notin late =>
       unread = Unread \/ Pending({"clearunread"}, Keys)

\* Two likes, three comments and one view weigh alike whoever counts them, and every
\* change of the rows is followed by a new score: once no request is under way the feed
\* ranks the post by its rows, and a deleted post not at all.  Excepted is what was last
\* stored by a request one of whose counts failed, which counts as 0, whose counts a
\* change overtook, or which took a cached score that was to be replaced; a score that a
\* lost command or an end of the process left alone; and one that met the post's deletion.
RankFollowsRows ==
  "rank" \notin late /\ ~Pending(Control \ {"idle"}, Keys) =>
    IF alive THEN rank \in {Score, Absent} /\ score \in {Score, Absent}
             ELSE rank = Absent /\ score = Absent

=============================================================================
