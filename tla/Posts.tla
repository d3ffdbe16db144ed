------------------------------- MODULE Posts -------------------------------
(***************************************************************************)
(* One post: creation with an upload that goes on in the background,       *)
(* edits, deletion, and what the repository keeps of it in Redis: the post *)
(* under its id, lists of posts and the number of posts of the user.       *)
(*                                                                         *)
(* A worker p is the goroutine of one HTTP request, and goes on as the     *)
(* goroutine that uploads the files.  Every statement and every command to *)
(* Redis is an action.  Updates write the whole row back that FindByID     *)
(* returned, from the database or from the cache.                          *)
(*                                                                         *)
(* The lists of the user, of the feed and of the group are filled and      *)
(* deleted alike; one of them stands for all.  A request of somebody who   *)
(* may not change the post ends like a read of it.  Media stands for the   *)
(* image and video URLs.                                                   *)
(***************************************************************************)
EXTENDS Naturals

CONSTANTS
  Workers,   \* concurrently running requests and uploads
  Budget,    \* number of requests served in all
  Faults,    \* TRUE: statements, commands and the process itself may fail
  NoRow,     \* an absent row, an empty list, and what an idle worker holds
  Absent     \* an absent key

\* The content is named by the edit that wrote it; ver counts the writes of the row
\* and is there for the properties only.
Row  == [content : Nat, media : BOOLEAN, deleted : BOOLEAN, ver : Nat]
\* What a new post comes with: nothing, URLs, or files that are still to be uploaded.
Media == {"none", "urls", "files"}
Op   == {"create", "attach", "edit", "strip", "delete", "read", "list", "count", "reload",
         "announce"}
Job  == [op : Op, edit : Nat, media : Media, row : Row \cup {NoRow}]
Keys == {"post", "list", "count"}

ASSUME PostsAssumption ==
  /\ Budget \in Nat
  /\ Faults \in BOOLEAN
  /\ NoRow \notin Row \cup Job
  /\ Absent \notin Row \cup {NoRow, 0, 1}

VARIABLES
  row,      \* the row of the post
  cache,    \* the post under its id
  list,     \* a list that would show it: NoRow if it does not
  count,    \* the number of posts
  pc,       \* control point of each worker
  job,      \* the request a worker serves
  left,     \* requests that may still arrive
  uploaded, \* whether the user was notified that the upload is complete
  wanted,   \* history: the content, media and deletion last written on purpose
  raced,    \* history: whether a row was written back that had changed since
  late      \* history: keys that were filled too late or not deleted

vars == <<row, cache, list, count, pc, job, left, uploaded, wanted, raced, late>>

Control == {"idle", "insert", "get", "query", "fill", "upload", "save", "set", "clear",
            "uncount", "select", "remove", "forget", "getlist", "querylist", "filllist",
            "getcount", "querycount", "fillcount", "notify"}

TypeOK ==
  /\ row \in Row \cup {NoRow}
  /\ cache \in Row \cup {Absent}
  /\ list \in Row \cup {NoRow, Absent}
  /\ count \in {0, 1, Absent}
  /\ pc \in [Workers -> Control]
  /\ job \in [Workers -> Job \cup {NoRow}]
  /\ \A p \in Workers : pc[p] # "idle" => job[p] \in Job
  /\ \A p \in Workers : pc[p] \in {"save", "set", "remove", "forget"} => row # NoRow
  /\ left \in 0..Budget
  /\ uploaded \in BOOLEAN
  /\ wanted \in [content : Nat, media : BOOLEAN, deleted : BOOLEAN]
  /\ raced \in BOOLEAN
  /\ late \subseteq Keys

Init ==
  /\ row = NoRow
  /\ cache = Absent /\ list = Absent /\ count = Absent
  /\ pc = [p \in Workers |-> "idle"]
  /\ job = [p \in Workers |-> NoRow]
  /\ left = Budget
  /\ uploaded = FALSE
  /\ wanted = [content |-> 0, media |-> FALSE, deleted |-> FALSE]
  /\ raced = FALSE
  /\ late = {}

----------------------------------------------------------------------------
(* Helpers.                                                                *)

keys    == <<cache, list, count>>
history == <<uploaded, wanted, raced, late>>

Request(op, edit, media) == [op |-> op, edit |-> edit, media |-> media, row |-> NoRow]

\* A request arrives and starts at control point c.
Take(p, op, edit, media, c) ==
  /\ pc[p] = "idle"
  /\ left > 0
  /\ left' = left - 1
  /\ pc' = [pc EXCEPT ![p] = c]
  /\ job' = [job EXCEPT ![p] = Request(op, edit, media)]
  /\ UNCHANGED <<row, keys, history>>

\* A request that writes no content.
Ask(p, op, c) == Take(p, op, 0, "none", c)

\* Worker p goes on at c, holding j; an idle worker holds nothing.
GoTo(p, j, c) ==
  /\ pc' = [pc EXCEPT ![p] = c]
  /\ job' = [job EXCEPT ![p] = IF c = "idle" THEN NoRow ELSE j]
  /\ UNCHANGED left

\* What a SELECT finds, and a COUNT.
Visible == IF row # NoRow /\ row.deleted THEN NoRow ELSE row
Number  == IF Visible = NoRow THEN 0 ELSE 1

\* Wrong on purpose: the media are lost on the way through the cache.
Decoded_Bare(c) == IF c \in Row THEN [c EXCEPT !.media = FALSE] ELSE c

\* What comes back of a cached post or list.  MarshalJSON writes the URLs as an
\* array, which json.Unmarshal refuses to put into a string: the caller takes the
\* error for an absent key.
Decoded(c) == IF c \in Row /\ c.media THEN Absent ELSE c

\* Where a handler goes once FindByID returned the post.
AfterFind(j) ==
  CASE j.op = "create" -> IF j.media = "files" THEN "upload" ELSE "idle"
    [] j.op \in {"attach", "edit", "strip"} -> "save"
    [] j.op = "delete" -> "select"
    [] j.op = "announce" -> "notify"
    [] j.op \in {"read", "reload"} -> "idle"

\* A command to Redis that fails is not noticed.
Done(done) == done \in BOOLEAN /\ (done \/ Faults)

\* A key set to a value that is not the present one is stale from the start.
Stale(k, isStale) == late' = IF isStale THEN late \cup {k} ELSE late \ {k}

----------------------------------------------------------------------------
(* A request arrives.                                                      *)

\* CreatePost refuses a post with neither text nor URLs.  Only a JSON request has URLs;
\* of the uploads, the handler of videos adds a placeholder for the text and the one of
\* images does not.
Accepted(text, media, kind) == text \/ media = "urls" \/ (media = "files" /\ kind = "videos")

\* The post is created once.
CreatePost(p) ==
  /\ row = NoRow
  /\ \A q \in Workers : pc[q] # "idle" => job[q].op # "create"
  /\ \E text \in BOOLEAN, media \in Media, kind \in {"json", "images", "videos"} :
       /\ media = "urls" => kind = "json"
       /\ media = "files" => kind # "json"
       /\ Accepted(text, media, kind)
       /\ Take(p, "create", 0, media, "insert")

\* The user writes new content, or takes the media out.
UpdatePost(p) ==
  /\ row # NoRow
  /\ \E op \in {"edit", "strip"} : Take(p, op, left, "none", "get")

DeletePost(p)         == row # NoRow /\ Ask(p, "delete", "get")
GetPostByID(p)        == row # NoRow /\ Ask(p, "read", "get")
GetFeed(p)            == Ask(p, "list", "getlist")
CountPostsByUserID(p) == Ask(p, "count", "getcount")

----------------------------------------------------------------------------
(* FindByID, the lists and the count: read through the cache.              *)

\* An error of Redis is a miss.
Seen(c) == {c} \cup (IF Faults THEN {Absent} ELSE {})

GetCached(p) ==
  LET j == job[p] IN
  /\ pc[p] = "get"
  /\ \E c \in Seen(Decoded(cache)) :
       IF c = Absent THEN GoTo(p, j, "query")
                     ELSE GoTo(p, [j EXCEPT !.row = c], AfterFind(j))
  /\ UNCHANGED <<row, keys, history>>

Query(p) ==
  LET j == job[p] IN
  /\ pc[p] = "query"
  /\ GoTo(p, [j EXCEPT !.row = Visible], IF Visible = NoRow THEN "idle" ELSE "fill")
  /\ UNCHANGED <<row, keys, history>>

Fill(p) ==
  LET j == job[p] IN
  /\ pc[p] = "fill"
  /\ \E done \in BOOLEAN :
       /\ Done(done)
       /\ IF done THEN cache' = j.row /\ Stale("post", j.row # Visible)
                  ELSE UNCHANGED <<cache, late>>
  /\ GoTo(p, j, AfterFind(j))
  /\ UNCHANGED <<row, list, count, uploaded, wanted, raced>>

GetList(p) ==
  /\ pc[p] = "getlist"
  /\ \E c \in Seen(Decoded(list)) :
       GoTo(p, job[p], IF c = Absent THEN "querylist" ELSE "idle")
  /\ UNCHANGED <<row, keys, history>>

QueryList(p) ==
  /\ pc[p] = "querylist"
  /\ GoTo(p, [job[p] EXCEPT !.row = Visible], "filllist")
  /\ UNCHANGED <<row, keys, history>>

FillList(p) ==
  /\ pc[p] = "filllist"
  /\ list' = job[p].row
  /\ Stale("list", job[p].row # Visible)
  /\ GoTo(p, job[p], "idle")
  /\ UNCHANGED <<row, cache, count, uploaded, wanted, raced>>

GetCount(p) ==
  /\ pc[p] = "getcount"
  /\ \E c \in Seen(count) : GoTo(p, job[p], IF c = Absent THEN "querycount" ELSE "idle")
  /\ UNCHANGED <<row, keys, history>>

\* The number is 1 or 0, kept in the field for the content.
QueryCount(p) ==
  /\ pc[p] = "querycount"
  /\ GoTo(p, [job[p] EXCEPT !.edit = Number], "fillcount")
  /\ UNCHANGED <<row, keys, history>>

FillCount(p) ==
  /\ pc[p] = "fillcount"
  /\ count' = job[p].edit
  /\ Stale("count", job[p].edit # Number)
  /\ GoTo(p, job[p], "idle")
  /\ UNCHANGED <<row, cache, list, uploaded, wanted, raced>>

----------------------------------------------------------------------------
(* What the handlers write.                                                *)

Insert(p) ==
  /\ pc[p] = "insert"
  /\ row' = [content |-> 0, media |-> job[p].media = "urls", deleted |-> FALSE, ver |-> 1]
  /\ wanted' = [wanted EXCEPT !.media = job[p].media = "urls"]
  /\ GoTo(p, job[p], "clear")
  /\ UNCHANGED <<keys, uploaded, raced, late>>

\* The files go to the media store.  Without an answer the goroutine ends and the
\* post stays as it is; otherwise it calls UpdatePost.
Upload(p) ==
  /\ pc[p] = "upload"
  /\ \/ GoTo(p, [job[p] EXCEPT !.op = "attach", !.row = NoRow], "get")
     \/ Faults /\ GoTo(p, job[p], "idle")
  /\ UNCHANGED <<row, keys, history>>

\* The row with the fields of the request.
Changed(j) ==
  LET r == [j.row EXCEPT !.ver = row.ver + 1] IN
  CASE j.op = "attach" -> [r EXCEPT !.media = TRUE]
    [] j.op = "edit"   -> [r EXCEPT !.content = j.edit]
    [] j.op = "strip"  -> [r EXCEPT !.media = FALSE]

\* db.Save of the row as it was found; a row deleted meanwhile comes back, and the
\* count does not follow.
Save(p) ==
  LET j == job[p] IN
  /\ pc[p] = "save"
  /\ row' = Changed(j)
  /\ wanted' = CASE j.op = "attach" -> [wanted EXCEPT !.media = TRUE]
                 [] j.op = "edit"   -> [wanted EXCEPT !.content = j.edit]
                 [] j.op = "strip"  -> [wanted EXCEPT !.media = FALSE]
  /\ raced' = (raced \/ j.row.ver # row.ver)
  /\ late' = IF row.deleted THEN late \cup {"count"} ELSE late
  /\ GoTo(p, [j EXCEPT !.row = Changed(j)], "set")
  /\ UNCHANGED <<keys, uploaded>>

\* The repository caches the row it saved.
SetCached(p) ==
  LET j == job[p] IN
  /\ pc[p] = "set"
  /\ \E done \in BOOLEAN :
       /\ Done(done)
       /\ cache' = IF done THEN j.row ELSE cache
       /\ Stale("post", cache' # Absent /\ cache' # Visible)
  /\ GoTo(p, j, "clear")
  /\ UNCHANGED <<row, list, count, uploaded, wanted, raced>>

\* Wrong on purpose: an update leaves the lists.
Cleared_OnlyNew(j) == j.op = "create"

\* The lists are deleted after every creation and update.
Cleared(j) == TRUE

\* After Create the count is deleted too; then FindByID reads the post again.
ClearList(p) ==
  LET j == job[p] IN
  /\ pc[p] = "clear"
  /\ \E done \in BOOLEAN :
       /\ Done(done)
       /\ list' = IF done /\ Cleared(j) THEN Absent ELSE list
       /\ Stale("list", ~done /\ list # Absent)
  /\ IF j.op = "create" THEN GoTo(p, j, "uncount")
     ELSE GoTo(p, [j EXCEPT !.op = IF @ = "attach" THEN "announce" ELSE "reload",
                            !.row = NoRow], "get")
  /\ UNCHANGED <<row, cache, count, uploaded, wanted, raced>>

\* The goroutine of the upload read the post again and notifies its user.
Notify(p) ==
  /\ pc[p] = "notify"
  /\ uploaded' = TRUE
  /\ GoTo(p, job[p], "idle")
  /\ UNCHANGED <<row, keys, wanted, raced, late>>

ClearCount(p) ==
  /\ pc[p] = "uncount"
  /\ \E done \in BOOLEAN :
       /\ Done(done)
       /\ count' = IF done THEN Absent ELSE count
       /\ Stale("count", ~done /\ count # Absent)
  /\ GoTo(p, job[p], "get")
  /\ UNCHANGED <<row, cache, list, uploaded, wanted, raced>>

\* The repository looks for the row once more, past the cache.
SelectForDelete(p) ==
  /\ pc[p] = "select"
  /\ GoTo(p, job[p], IF Visible = NoRow THEN "idle" ELSE "remove")
  /\ UNCHANGED <<row, keys, history>>

\* The soft deletion.
Remove(p) ==
  /\ pc[p] = "remove"
  /\ row' = IF row.deleted THEN row ELSE [row EXCEPT !.deleted = TRUE, !.ver = @ + 1]
  /\ wanted' = [wanted EXCEPT !.deleted = TRUE]
  /\ GoTo(p, job[p], "forget")
  /\ UNCHANGED <<keys, uploaded, raced, late>>

\* The deleted post leaves the cache; lists and counts are left to expire.
Forget(p) ==
  /\ pc[p] = "forget"
  /\ \E done \in BOOLEAN :
       /\ Done(done)
       /\ cache' = IF done THEN Absent ELSE cache
       /\ Stale("post", ~done /\ cache # Absent)
  /\ GoTo(p, job[p], "idle")
  /\ UNCHANGED <<row, list, count, uploaded, wanted, raced>>

\* A statement returns an error, or the process stops.  The keys that were still to
\* be written or deleted are stale now.
Abort(p) ==
  /\ Faults
  /\ pc[p] # "idle"
  /\ late' = late \cup (CASE pc[p] = "set"     -> {"post", "list"}
                          [] pc[p] = "clear"   -> IF job[p].op = "create" THEN {"list", "count"}
                                                                          ELSE {"list"}
                          [] pc[p] = "uncount" -> {"count"}
                          [] pc[p] = "forget"  -> {"post"}
                          [] OTHER             -> {})
  /\ GoTo(p, job[p], "idle")
  /\ UNCHANGED <<row, keys, uploaded, wanted, raced>>

\* Wrong on purpose: the keys have no expiration.
Expire_Never(k) == FALSE /\ UNCHANGED vars

\* A key expires fifteen minutes after it was set.
Expire(k) ==
  /\ late' = late \ {k}
  /\ CASE k = "post"  -> cache # Absent /\ cache' = Absent /\ UNCHANGED <<list, count>>
       [] k = "list"  -> list # Absent /\ list' = Absent /\ UNCHANGED <<cache, count>>
       [] k = "count" -> count # Absent /\ count' = Absent /\ UNCHANGED <<cache, list>>
  /\ UNCHANGED <<row, pc, job, left, uploaded, wanted, raced>>

----------------------------------------------------------------------------
Begin(p) ==
  \/ CreatePost(p) \/ UpdatePost(p) \/ DeletePost(p) \/ GetPostByID(p) \/ GetFeed(p)
  \/ CountPostsByUserID(p)

Serve(p) ==
  \/ GetCached(p) \/ Query(p) \/ Fill(p) \/ GetList(p) \/ QueryList(p) \/ FillList(p)
  \/ GetCount(p) \/ QueryCount(p) \/ FillCount(p) \/ Insert(p) \/ Upload(p) \/ Save(p)
  \/ SetCached(p) \/ ClearList(p) \/ ClearCount(p) \/ SelectForDelete(p) \/ Remove(p)
  \/ Forget(p) \/ Notify(p)

Next ==
  \/ \E p \in Workers : Begin(p) \/ Serve(p) \/ Abort(p)
  \/ \E k \in Keys : Expire(k)

Spec == Init /\ [][Next]_vars

\* Requests that were taken go on, and keys expire; nobody has to send requests.
Fairness ==
  /\ \A p \in Workers : WF_vars(Serve(p))
  /\ \A k \in Keys : WF_vars(Expire(k))

FairSpec == Spec /\ Fairness
----------------------------------------------------------------------------
(* Safety, whatever interleaves and whatever fails.                        *)

\* What a request wrote on purpose - the media of an upload, an edit, a deletion -
\* stays until another means to change it, unless a row is written back that had
\* changed since it was read.  No edit drops media because they do not survive the
\* cache.
AcknowledgedChangesSurvive ==
  row # NoRow /\ ~raced =>
    /\ row.content = wanted.content
    /\ row.media = wanted.media
    /\ row.deleted = wanted.deleted

Pending(points) == \E p \in Workers : pc[p] \in points

\* The request that created the post has not deleted the count yet.
Uncounted == \E p \in Workers : pc[p] \in {"clear", "uncount"} /\ job[p].op = "create"

\* Between requests the cache shows what the row says.  A key disagrees only while a
\* worker has still to write or delete it, or since it was filled with something read
\* earlier or a command to Redis was lost, or, for lists and counts, since the post
\* was deleted: then a list shows it as it was last.
CachesFollowWrites ==
  /\ cache # Absent /\ "post" \notin late =>
       cache = row \/ Pending({"set", "forget"})
  /\ list # Absent /\ "list" \notin late =>
       \/ list = Visible
       \/ Pending({"set", "clear"})
       \/ row.deleted /\ list = [row EXCEPT !.deleted = FALSE, !.ver = @ - 1]
  /\ count # Absent /\ "count" \notin late =>
       count = Number \/ Uncounted \/ row.deleted

(* Liveness.                                                               *)

\* A deleted post does not stay in the cache, in a list or in the count for ever,
\* although DeletePost leaves the last two: once requests stop, the entries expire.
DeletedPostDisappears ==
  <>[](row # NoRow /\ row.deleted =>
         cache = Absent /\ list \in {NoRow, Absent} /\ count \in {0, Absent})

=============================================================================
