-------------------------- MODULE EngagementProofs --------------------------
(***************************************************************************)
(* Proofs about Engagement, for any users, any number of requests, and     *)
(* with or without failures.                                               *)
(*                                                                         *)
(* The rows, the cached numbers and the rank are separate keys, written    *)
(* one after the other by whoever gets there.  Every invariant is          *)
(* therefore about the table and about the workers on their way to it.     *)
(***************************************************************************)
EXTENDS Engagement, TLAPS, FiniteSetTheorems

\* The key a request is about; any key can be counted.
HasKey(j) ==
  /\ j.op \in {"like", "react", "unlike", "feed", "update", "delete"} => j.key = "likes"
  /\ j.op = "view" => j.key = "views"
  /\ j.op \in {"comment", "edit", "uncomment", "look", "reload", "recall"} => j.key = "comments"
  /\ j.op \in {"read", "readall", "dismiss"} => j.key = "unread"

\* The requests that reach a control point.
Reaches(o, c) ==
  /\ c = "check" => o = "like"
  /\ c = "find" => o \in {"like", "unlike", "view", "edit", "uncomment", "look", "reload", "recall"}
  /\ c = "show" => o \in {"edit", "uncomment", "look", "reload", "recall"}
  /\ c = "again" => o = "view"
  /\ c = "insert" => o \in {"like", "view", "comment"}
  /\ c = "save" => o \in {"react", "edit"}
  /\ c \in {"select", "remove"} => o \in {"unlike", "uncomment"}
  /\ c = "clear" => o \in {"like", "view", "comment", "react", "edit", "unlike", "uncomment"}
  /\ c \in {"likes", "comments", "views", "post", "rank"} =>
       o \in {"like", "view", "comment", "unlike", "uncomment", "feed", "update"}
  /\ c = "sent" => o \in {"like", "react"}
  /\ c = "notify" => o \in {"like", "react", "comment", "recall"}
  /\ c = "clearunread" => o \in {"like", "react", "comment", "recall", "read", "readall", "dismiss"}
  /\ c = "mark" => o \in {"read", "readall"}
  /\ c = "dismiss" => o = "dismiss"
  /\ c \in {"get", "query", "fill"} => o = "count"
  /\ c = "feed" => o = "feed"
  /\ c \in {"delete", "unrank"} => o = "delete"

WorkerOK(p) == pc[p] # "idle" => HasKey(job[p]) /\ Reaches(job[p].op, pc[p])

\* The tables are finite, so that they can be counted.
Countable == /\ \A k \in Kinds : IsFiniteSet(rows[k])
             /\ IsFiniteSet(notices)

SafeInv ==
  /\ TypeOK
  /\ Countable
  /\ \A p \in Workers : WorkerOK(p)

\* A request that has still to make the row it is named for.
MakesAt(c, o) == c \in {"check", "find", "again", "insert"} /\ o \in {"like", "view", "comment"}
Makes(p) == pc[p] # "idle" /\ MakesAt(pc[p], job[p].op)

\* The rows that a handler may find, in the table or in the cache.
Seen(k) == rows[k] \cup (IF k = "comments" THEN shown ELSE {})

\* Number i names a row of kind k, or a request about one.
UsedFor(k, i) ==
  \/ \E r \in Seen(k) : r.id = i
  \/ \E p \in Workers : pc[p] # "idle" /\ job[p].key = k /\ job[p].id = i

\* Anything but the request p knows the number i.
KnownBeside(p, i) ==
  \/ i \in gone
  \/ \E n \in notices : n.id = i
  \/ \E k \in Kinds : \E r \in Seen(k) : r.id = i
  \/ \E q \in Workers : q # p /\ pc[q] # "idle" /\ job[q].id = i

\* A number is given once, to one request: what is there has a number already given, no
\* number is both of a like and of a comment, and nothing knows the number of a row
\* that is still to be made.
NumbersAreNew ==
  /\ \A i \in gone : i > left
  /\ \A n \in notices : n.id > left
  /\ \A k \in Kinds : \A r \in Seen(k) : r.id > left
  /\ \A p \in Workers : pc[p] # "idle" => job[p].id > left
  /\ \A i : ~(UsedFor("likes", i) /\ UsedFor("comments", i))
  /\ \A p \in Workers : Makes(p) => ~KnownBeside(p, job[p].id)

\* What is about to be saved or cached was not deleted, and a deleted comment is only
\* still cached while its deletion is under way, unless that overlapped.
DeletionsHold ==
  ~raced =>
    /\ \A k \in {"likes", "comments"} : \A r \in rows[k] : r.id \notin gone
    /\ \A p \in Workers : pc[p] \in {"save", "show"} => job[p].id \notin gone
    /\ \A r \in shown : r.id \in gone =>
         \E q \in Workers : pc[q] = "clear" /\ job[q].op = "uncomment" /\ job[q].id = r.id

\* A worker about to notify of a like.
NotifiesLike(p) == pc[p] = "notify" /\ job[p].key # "comments"

\* It is the only one of its user, who has no notification yet, unless likes overlapped.
LikesNotifiedOnce ==
  ~doubled =>
    /\ \A m, n \in notices :
         m.kind = "liked" /\ n.kind = "liked" /\ m.sender = n.sender => m = n
    /\ \A p \in Workers : NotifiesLike(p) => ~AlreadySent(job[p].user)
    /\ \A p, q \in Workers :
         NotifiesLike(p) /\ NotifiesLike(q) /\ job[p].user = job[q].user => p = q

\* The score of a post is that of its rows or will be computed once more; that of a
\* deleted post is gone or will be removed, and none is on its way.
ScoreKept ==
  "rank" \notin late =>
    IF alive THEN \/ rank \in {Score, Absent} /\ score \in {Score, Absent}
                  \/ \E p \in Workers : Rescores(p)
             ELSE /\ \/ rank = Absent /\ score = Absent
                     \/ \E p \in Workers : pc[p] = "unrank"
                  /\ \A p \in Workers :
                       pc[p] # "rank" /\ (pc[p] \in Kinds => job[p].op # "feed")

\* Where worker p may go on, and with what.
Fits(p, j, c) ==
  /\ HasKey(j)
  /\ Reaches(j.op, c)
  /\ j.user = job[p].user
  /\ j.key = job[p].key
  /\ j.id = job[p].id \/ (j.key \in Kinds /\ \E r \in Seen(j.key) : r.id = j.id)
  /\ MakesAt(c, j.op) => MakesAt(pc[p], job[p].op) /\ j.id = job[p].id
  /\ c \in {"save", "show"} => pc[p] \in {"find", "show"}
  /\ c = "notify" => j.key = "comments" \/ pc[p] = "sent"
  /\ c \in {"comments", "views", "post", "rank"} =>
       pc[p] \in {"likes", "comments", "views", "post", "rank", "feed"}
  /\ j.op = "feed" => job[p].op = "feed"

\* Worker p goes on.
Continues(p) ==
  /\ left' = left
  /\ pc' = [pc EXCEPT ![p] = pc'[p]]
  /\ job' = [job EXCEPT ![p] = job'[p]]
  /\ pc'[p] \in Control
  /\ pc'[p] = "idle" => job'[p] = NoJob
  /\ pc'[p] # "idle" => job'[p] \in Job /\ Fits(p, job'[p], pc'[p])

\* A request arrives, with a number no request had before.
Arrives(p) ==
  /\ pc[p] = "idle"
  /\ left > 0
  /\ left' = left - 1
  /\ pc' = [pc EXCEPT ![p] = pc'[p]]
  /\ job' = [job EXCEPT ![p] = job'[p]]
  /\ pc'[p] \in {"check", "find", "insert", "get", "feed", "likes", "delete", "mark", "dismiss"}
  /\ job'[p] \in Job /\ HasKey(job'[p]) /\ Reaches(job'[p].op, pc'[p])
  /\ \/ job'[p].id = left
     \/ job'[p].key = "unread" /\ \E n \in notices : n.id = job'[p].id
  /\ pc'[p] \in {"likes", "delete"} => alive /\ job'[p].op # "feed"
  /\ UNCHANGED <<data, history>>

----------------------------------------------------------------------------
(* Facts about the helpers.                                                *)

\* A worker under way holds a request.
LEMMA WorkerFacts ==
  ASSUME TypeOK, NEW p \in Workers, WorkerOK(p), pc[p] # "idle"
  PROVE  /\ job[p] \in Job
         /\ HasKey(job[p])
         /\ Reaches(job[p].op, pc[p])
         /\ job[p].op \in Op /\ job[p].user \in Users /\ job[p].key \in Keys
         /\ job[p].id \in Nat /\ job[p].sum \in Nat /\ job[p].fresh \in BOOLEAN
         /\ job[p] = [op |-> job[p].op, user |-> job[p].user, key |-> job[p].key,
                      id |-> job[p].id, sum |-> job[p].sum, fresh |-> job[p].fresh]
<1>1. job[p] \in Job
  BY DEF TypeOK
<1> QED BY <1>1 DEF Job, WorkerOK

\* What GoTo does, if where it goes fits.
LEMMA GoToFits ==
  ASSUME TypeOK, NEW p \in Workers, NEW j \in Job, NEW c \in Control,
         GoTo(p, j, c), c # "idle" => Fits(p, j, c)
  PROVE  Continues(p)
<1>1. pc'[p] = c /\ job'[p] = IF c = "idle" THEN NoJob ELSE j
  BY DEF GoTo, TypeOK
<1> QED BY <1>1 DEF GoTo, Continues

\* Going idle always fits.
LEMMA GoToIdle ==
  ASSUME TypeOK, NEW p \in Workers, NEW j, GoTo(p, j, "idle")
  PROVE  Continues(p)
<1>1. pc'[p] = "idle" /\ job'[p] = NoJob
  BY DEF GoTo, TypeOK
<1> QED BY <1>1 DEF GoTo, Continues, Control

\* Holding the same request, or one that differs in what was read, fits where its
\* operation may go.
LEMMA SameFits ==
  ASSUME TypeOK, NEW p \in Workers, WorkerOK(p), pc[p] # "idle",
         NEW j \in Job, j.op = job[p].op, j.user = job[p].user, j.key = job[p].key,
         j.id = job[p].id,
         NEW c, Reaches(j.op, c),
         MakesAt(c, j.op) => MakesAt(pc[p], job[p].op),
         c \in {"save", "show"} => pc[p] \in {"find", "show"},
         c = "notify" => j.key = "comments" \/ pc[p] = "sent",
         c \in {"comments", "views", "post", "rank"} =>
           pc[p] \in {"likes", "comments", "views", "post", "rank", "feed"}
  PROVE  Fits(p, j, c)
BY WorkerFacts DEF Fits, HasKey

\* A request stays one when a field is changed.
LEMMA JobFields ==
  ASSUME NEW j \in Job
  PROVE  /\ \A n \in Nat : [j EXCEPT !.id = n] \in Job
         /\ \A n \in Nat : [j EXCEPT !.sum = n] \in Job
         /\ \A b \in BOOLEAN : [j EXCEPT !.fresh = b] \in Job
         /\ \A o \in Op : [j EXCEPT !.op = o] \in Job
         /\ \A o \in Op, n \in Nat : [j EXCEPT !.op = o, !.id = n] \in Job
BY DEF Job

\* A row that is seen is a row.
LEMMA SeenRows ==
  ASSUME TypeOK, NEW k \in Kinds, NEW r \in Seen(k)
  PROVE  r \in Row /\ r.user \in Users /\ r.id \in Nat
<1>1. r \in Row
  BY DEF TypeOK, Seen
<1> QED BY <1>1 DEF Row

\* A handler that found a row goes on with it, or without it.
LEMMA AfterFoundFits ==
  ASSUME TypeOK, NEW p \in Workers, WorkerOK(p), pc[p] \in {"find", "show"},
         job[p].key \in Kinds, NEW r \in Row, r \in Seen(job[p].key) \/ r.id = job[p].id,
         AfterFound(p, job[p], r)
  PROVE  /\ Continues(p)
         /\ pc'[p] = "save" => job'[p].id = r.id
         /\ pc'[p] \in {"idle", "sent", "save", "select", "notify"}
<1> DEFINE j == job[p]
<1>1. /\ j \in Job /\ HasKey(j) /\ Reaches(j.op, pc[p]) /\ j.key \in Kinds /\ j.id \in Nat
      /\ r.id \in Nat
  BY WorkerFacts DEF Row
<1>2. j.op \in {"like", "unlike", "view", "edit", "uncomment", "look", "reload", "recall"}
  BY <1>1 DEF Reaches
<1>3. ASSUME NEW k \in Job, NEW c \in Control, GoTo(p, k, c), c # "idle" => Fits(p, k, c),
             c = "save" => k.id = r.id, c \in {"idle", "sent", "save", "select", "notify"}
      PROVE  /\ Continues(p)
             /\ pc'[p] = "save" => job'[p].id = r.id
             /\ pc'[p] \in {"idle", "sent", "save", "select", "notify"}
  <2>1. Continues(p)
    BY <1>3, GoToFits
  <2>2. pc'[p] = c /\ (c # "idle" => job'[p] = k)
    BY <1>3 DEF GoTo, TypeOK
  <2> QED BY <1>3, <2>1, <2>2
<1>4. ASSUME NEW o \in Op, NEW k \in Job, k = [j EXCEPT !.op = o, !.id = r.id],
             o \in {"react", "edit", "unlike", "uncomment"},
             HasKey(k)
      PROVE  \A c \in {"save", "select"} : Reaches(o, c) => Fits(p, k, c)
  <2>1. k.op = o /\ k.id = r.id /\ k.user = j.user /\ k.key = j.key
    BY <1>1, <1>4 DEF Job
  <2> QED BY <1>1, <1>4, <2>1 DEF Fits, MakesAt
<1>5. CASE j.op = "like"
  <2>1. CASE GoTo(p, j, IF j.fresh THEN "sent" ELSE "idle")
    <3>1. Fits(p, j, "sent")
      BY <1>1, <1>5, SameFits DEF Reaches, MakesAt
    <3> QED BY <1>1, <1>3, <2>1, <3>1 DEF Control
  <2>2. CASE GoTo(p, [j EXCEPT !.op = "react", !.id = r.id], "save")
    <3> DEFINE k == [j EXCEPT !.op = "react", !.id = r.id]
    <3>0. "react" \in Op
      BY DEF Op
    <3>1. k \in Job /\ k.op = "react" /\ k.id = r.id /\ k.key = j.key
      <4>1. k \in Job
        BY <1>1, <3>0, JobFields
      <4> QED BY <1>1, <4>1 DEF Job
    <3>2. HasKey(k)
      BY <1>1, <1>5, <3>1 DEF HasKey
    <3>3. Reaches("react", "save") /\ "react" \in Op /\ "save" \in Control
      BY DEF Reaches, Op, Control
    <3>4. Fits(p, k, "save")
      BY <1>4, <3>1, <3>2, <3>3
    <3> QED BY <1>3, <2>2, <3>1, <3>3, <3>4
  <2> QED BY <1>5, <2>1, <2>2 DEF AfterFound
<1>6. CASE j.op \in {"edit", "unlike", "uncomment"}
  <2> DEFINE k == [j EXCEPT !.id = r.id]
             c == IF j.op = "edit" THEN "save" ELSE "select"
  <2>1. k \in Job /\ k.op = j.op /\ k.id = r.id /\ k.key = j.key
    BY <1>1, JobFields DEF Job
  <2>2. HasKey(k)
    BY <1>1, <2>1 DEF HasKey
  <2>3. Reaches(j.op, c) /\ c \in Control /\ c \in {"save", "select"}
    BY <1>6 DEF Reaches, Control
  <2>4. k = [j EXCEPT !.op = j.op, !.id = r.id]
    BY <1>1 DEF Job
  <2>5. Fits(p, k, c)
    BY <1>1, <1>4, <1>6, <2>1, <2>2, <2>3, <2>4, WorkerFacts
  <2>6. GoTo(p, k, c)
    BY <1>6 DEF AfterFound
  <2> QED BY <1>3, <2>1, <2>3, <2>5, <2>6
<1>7. CASE j.op = "recall"
  <2>1. Fits(p, j, "notify")
    BY <1>1, <1>7, SameFits DEF Reaches, MakesAt, HasKey
  <2>2. GoTo(p, j, "notify")
    BY <1>7 DEF AfterFound
  <2> QED BY <1>1, <1>3, <2>1, <2>2 DEF Control
<1>8. CASE j.op \in {"view", "look", "reload"}
  <2>1. GoTo(p, j, "idle")
    BY <1>8 DEF AfterFound
  <2> QED BY <1>1, <1>3, <2>1 DEF Control
<1> QED BY <1>2, <1>5, <1>6, <1>7, <1>8

----------------------------------------------------------------------------
(* Where each action takes its worker.                                     *)

\* Worker p, which was given what it needs, goes on with the same request.
LEMMA GoesOn ==
  ASSUME TypeOK, NEW p \in Workers, WorkerOK(p), pc[p] # "idle", NEW c \in Control,
         GoTo(p, job[p], c),
         c # "idle" =>
           /\ Reaches(job[p].op, c)
           /\ ~MakesAt(c, job[p].op) \/ MakesAt(pc[p], job[p].op)
           /\ c \notin {"save", "show"}
           /\ c = "notify" => job[p].key = "comments" \/ pc[p] = "sent"
           /\ c \in {"comments", "views", "post", "rank"} =>
                pc[p] \in {"likes", "comments", "views", "post", "rank", "feed"}
  PROVE  Continues(p)
<1>1. job[p] \in Job
  BY WorkerFacts
<1>2. c # "idle" => Fits(p, job[p], c)
  BY <1>1, SameFits
<1> QED BY <1>1, <1>2, GoToFits

\* The same with something read on the way.
LEMMA GoesOnWith ==
  ASSUME TypeOK, NEW p \in Workers, WorkerOK(p), pc[p] # "idle", NEW c \in Control,
         NEW j \in Job, j.op = job[p].op, j.user = job[p].user, j.key = job[p].key,
         j.id = job[p].id, GoTo(p, j, c), Reaches(job[p].op, c),
         ~MakesAt(c, job[p].op) \/ MakesAt(pc[p], job[p].op), c \notin {"save", "show", "notify"},
         c \in {"comments", "views", "post", "rank"} =>
           pc[p] \in {"likes", "comments", "views", "post", "rank", "feed"}
  PROVE  Continues(p)
<1>1. Fits(p, j, c)
  BY SameFits
<1> QED BY <1>1, GoToFits

LEMMA CheckUserLikedContinues ==
  ASSUME TypeOK, NEW p \in Workers, WorkerOK(p), CheckUserLiked(p)
  PROVE  Continues(p)
<1>1. PICK mine \in OrNone(Mine(job[p])) : GoTo(p, [job[p] EXCEPT !.fresh = mine = {}], "find")
  BY DEF CheckUserLiked
<1> DEFINE j == [job[p] EXCEPT !.fresh = mine = {}]
<1>2. pc[p] = "check" /\ pc[p] # "idle"
  BY DEF CheckUserLiked
<1>3. job[p] \in Job /\ job[p].op = "like"
  BY <1>2, WorkerFacts DEF Reaches
<1>4. j \in Job
  <2>1. (mine = {}) \in BOOLEAN
    OBVIOUS
  <2> QED BY <1>3, <2>1, JobFields
<1>5. j.op = job[p].op /\ j.user = job[p].user /\ j.key = job[p].key /\ j.id = job[p].id
  BY <1>3 DEF Job
<1>6. "find" \in Control /\ Reaches(job[p].op, "find") /\ MakesAt(pc[p], job[p].op)
  BY <1>2, <1>3 DEF Control, Reaches, MakesAt
<1> HIDE DEF j
<1> QED BY <1>1, <1>2, <1>4, <1>5, <1>6, GoesOnWith DEF j

LEMMA FindContinues ==
  ASSUME TypeOK, NEW p \in Workers, WorkerOK(p), Find(p)
  PROVE  /\ Continues(p)
         /\ pc'[p] = "save" =>
              job[p].key = "likes" /\ \E r \in rows["likes"] : job'[p].id = r.id
         /\ pc'[p] # "show"
<1> DEFINE j == job[p]
<1>1. pc[p] = "find" /\ j.key # "comments"
  BY DEF Find
<1>2. /\ j \in Job /\ HasKey(j) /\ Reaches(j.op, "find")
      /\ j.op \in {"like", "unlike", "view"} /\ j.key \in Kinds
  BY <1>1, WorkerFacts DEF Reaches, HasKey, Kinds
<1>3. PICK mine \in OrNone(Mine(j)) :
        IF mine # {} THEN \E r \in mine : AfterFound(p, j, r)
        ELSE GoTo(p, j, CASE j.op = "like" -> "insert" [] j.op = "view" -> "again"
                          [] OTHER -> "idle")
  BY DEF Find
<1>4. CASE mine # {}
  <2>1. mine \subseteq rows[j.key]
    BY <1>3 DEF OrNone, Mine
  <2>2. PICK r \in mine : AfterFound(p, j, r)
    BY <1>3, <1>4
  <2>3. r \in Seen(j.key) /\ r \in Row
    BY <1>2, <2>1, SeenRows DEF Seen
  <2>4. /\ Continues(p)
        /\ pc'[p] = "save" => job'[p].id = r.id
        /\ pc'[p] \in {"idle", "sent", "save", "select", "notify"}
    BY <1>1, <1>2, <2>2, <2>3, AfterFoundFits
  <2>5. pc'[p] = "save" => j.key = "likes"
    BY <1>2, <2>4 DEF Continues, Fits, Reaches, HasKey
  <2> QED BY <2>1, <2>4, <2>5
<1>5. CASE mine = {}
  <2> DEFINE c == CASE j.op = "like" -> "insert" [] j.op = "view" -> "again" [] OTHER -> "idle"
  <2>1. GoTo(p, j, c)
    BY <1>3, <1>5
  <2>2. c \in Control /\ c \in {"insert", "again", "idle"}
    BY <1>2 DEF Control
  <2>3. c # "idle" => Reaches(j.op, c) /\ MakesAt("find", j.op)
    BY <1>2 DEF Reaches, MakesAt
  <2> HIDE DEF c
  <2>4. Continues(p)
    BY <1>1, <2>1, <2>2, <2>3, GoesOn
  <2>5. pc'[p] = c
    BY <2>1 DEF GoTo, TypeOK
  <2> QED BY <2>2, <2>4, <2>5
<1> QED BY <1>4, <1>5

LEMMA FindCommentContinues ==
  ASSUME TypeOK, NEW p \in Workers, WorkerOK(p), FindComment(p)
  PROVE  /\ Continues(p)
         /\ pc'[p] = "save" => \E r \in shown :
              /\ job'[p].id = r.id
              /\ (\E q \in Workers : pc[q] = "clear" /\ job[q].id = r.id) => raced'
         /\ pc'[p] = "show" => \E r \in rows["comments"] : job'[p].id = r.id
<1> DEFINE j == job[p]
<1>1. pc[p] = "find" /\ j.key = "comments"
  BY DEF FindComment
<1>2. /\ j \in Job /\ HasKey(j) /\ Reaches(j.op, "find")
      /\ j.op \in {"edit", "uncomment", "look", "reload", "recall"} /\ j.key \in Kinds
  BY <1>1, WorkerFacts DEF Reaches, HasKey, Kinds
<1>3. ASSUME NEW r \in shown, AfterFound(p, j, r),
             raced' = (raced \/ \E q \in Workers : pc[q] = "clear" /\ job[q].id = r.id)
      PROVE  /\ Continues(p)
             /\ pc'[p] = "save" =>
                  /\ job'[p].id = r.id
                  /\ (\E q \in Workers : pc[q] = "clear" /\ job[q].id = r.id) => raced'
             /\ pc'[p] # "show"
  <2>1. r \in Seen(j.key) /\ r \in Row
    BY <1>1, <1>2, SeenRows DEF Seen
  <2>2. /\ Continues(p)
        /\ pc'[p] = "save" => job'[p].id = r.id
        /\ pc'[p] \in {"idle", "sent", "save", "select", "notify"}
    BY <1>1, <1>2, <1>3, <2>1, AfterFoundFits
  <2> QED BY <1>3, <2>2
<1>4. ASSUME NEW r \in Mine(j), GoTo(p, [j EXCEPT !.id = r.id], "show")
      PROVE  /\ Continues(p)
             /\ pc'[p] = "show" /\ job'[p].id = r.id /\ r \in rows["comments"]
  <2> DEFINE k == [j EXCEPT !.id = r.id]
  <2>1. r \in rows["comments"] /\ r \in Seen(j.key)
    BY <1>1 DEF Mine, Seen
  <2>2. k \in Job /\ k.op = j.op /\ k.id = r.id /\ k.key = j.key /\ k.user = j.user
    BY <1>2, <2>1, JobFields, SeenRows DEF Job
  <2>3. HasKey(k) /\ Reaches(k.op, "show") /\ ~MakesAt("show", k.op) /\ "show" \in Control
    BY <1>2, <2>2 DEF HasKey, Reaches, MakesAt, Control
  <2> HIDE DEF k
  <2>4. Fits(p, k, "show")
    BY <1>1, <1>2, <2>1, <2>2, <2>3 DEF Fits
  <2>5. Continues(p) /\ GoTo(p, k, "show")
    BY <1>4, <2>2, <2>3, <2>4, GoToFits DEF k
  <2>6. pc'[p] = "show" /\ job'[p] = k
    BY <2>5 DEF GoTo, TypeOK
  <2> QED BY <2>1, <2>2, <2>5, <2>6
<1>5. ASSUME GoTo(p, j, IF j.op = "recall" THEN "notify" ELSE "idle")
      PROVE  Continues(p) /\ pc'[p] \in {"notify", "idle"}
  <2> DEFINE c == IF j.op = "recall" THEN "notify" ELSE "idle"
  <2>1. c \in Control /\ c \in {"notify", "idle"} /\ GoTo(p, j, c)
    BY <1>5 DEF Control
  <2>2. c # "idle" => Reaches(j.op, c) /\ ~MakesAt(c, j.op)
    BY DEF Reaches, MakesAt
  <2> HIDE DEF c
  <2>3. Continues(p)
    BY <1>1, <2>1, <2>2, GoesOn
  <2>4. pc'[p] = c
    BY <2>1 DEF GoTo, TypeOK
  <2> QED BY <2>1, <2>3, <2>4
<1>6. \/ \E r \in shown :
           /\ AfterFound(p, j, r)
           /\ raced' = (raced \/ \E q \in Workers : pc[q] = "clear" /\ job[q].id = r.id)
      \/ \E r \in Mine(j) : GoTo(p, [j EXCEPT !.id = r.id], "show")
      \/ GoTo(p, j, IF j.op = "recall" THEN "notify" ELSE "idle")
  BY DEF FindComment
<1>7. CASE \E r \in shown :
             /\ AfterFound(p, j, r)
             /\ raced' = (raced \/ \E q \in Workers : pc[q] = "clear" /\ job[q].id = r.id)
  BY <1>3, <1>7
<1>8. CASE \E r \in Mine(j) : GoTo(p, [j EXCEPT !.id = r.id], "show")
  BY <1>4, <1>8
<1>9. CASE GoTo(p, j, IF j.op = "recall" THEN "notify" ELSE "idle")
  BY <1>5, <1>9
<1> QED BY <1>6, <1>7, <1>8, <1>9

LEMMA ShowCommentContinues ==
  ASSUME TypeOK, NEW p \in Workers, WorkerOK(p), ShowComment(p)
  PROVE  /\ Continues(p)
         /\ pc'[p] = "save" => job'[p].id = job[p].id
         /\ pc'[p] # "show"
<1> DEFINE j == job[p]
           r == [user |-> j.user, id |-> j.id]
<1>1. pc[p] = "show" /\ AfterFound(p, j, r)
  BY DEF ShowComment
<1>2. j.key = "comments" /\ "comments" \in Kinds /\ r \in Row /\ r.id = j.id
  BY <1>1, WorkerFacts DEF Reaches, HasKey, Kinds, Row
<1> HIDE DEF r
<1> QED BY <1>1, <1>2, AfterFoundFits

LEMMA FindAgainContinues ==
  ASSUME TypeOK, NEW p \in Workers, WorkerOK(p), FindAgain(p)
  PROVE  Continues(p)
<1>1. pc[p] = "again" /\ job[p].op = "view"
  BY WorkerFacts DEF FindAgain, Reaches
<1>2. PICK c \in {"insert", "likes"} : GoTo(p, job[p], c)
  BY DEF FindAgain
<1>3. c \in Control /\ Reaches("view", c) /\ MakesAt("again", "view")
  BY <1>2 DEF Control, Reaches, MakesAt
<1> QED BY <1>1, <1>2, <1>3, GoesOn

LEMMA InsertContinues ==
  ASSUME TypeOK, NEW p \in Workers, WorkerOK(p), Insert(p)
  PROVE  /\ Continues(p) /\ job[p].key \in Kinds
         /\ \/ pc'[p] = "idle" /\ rows' = rows
            \/ /\ pc'[p] = "clear"
               /\ job'[p] = job[p]
               /\ rows' = [rows EXCEPT ![job[p].key] =
                            @ \cup {[user |-> job[p].user, id |-> job[p].id]}]
               /\ ~DuplicateKey(job[p].key, job[p].user)
<1>1. /\ pc[p] = "insert" /\ job[p].op \in {"like", "view", "comment"}
      /\ job[p].key \in Kinds
  BY WorkerFacts DEF Insert, Reaches, HasKey, Kinds
<1>2. PICK c \in {"idle", "clear"} : GoTo(p, job[p], c)
  BY DEF Insert
<1>3. c \in Control /\ Reaches(job[p].op, "clear") /\ ~MakesAt(c, job[p].op)
  BY <1>1, <1>2 DEF Control, Reaches, MakesAt
<1>4. Continues(p)
  BY <1>1, <1>2, <1>3, GoesOn
<1> QED BY <1>1, <1>4 DEF Insert, GoTo, TypeOK

LEMMA SaveContinues ==
  ASSUME TypeOK, NEW p \in Workers, WorkerOK(p), Save(p)
  PROVE  /\ Continues(p) /\ job[p].key \in Kinds
         /\ LET r == [user |-> job[p].user, id |-> job[p].id] IN
            \/ pc'[p] = "idle" /\ rows' = rows /\ late' = late
            \/ /\ pc'[p] = "clear"
               /\ job'[p] = job[p]
               /\ rows' = [rows EXCEPT ![job[p].key] = @ \cup {r}]
               /\ r \in rows[job[p].key] \/ ~DuplicateKey(job[p].key, job[p].user)
               /\ late' = IF r \in rows[job[p].key] THEN late ELSE late \cup {"rank"}
<1>1. /\ pc[p] = "save" /\ job[p].op \in {"react", "edit"}
      /\ job[p].key \in Kinds
  BY WorkerFacts DEF Save, Reaches, HasKey, Kinds
<1>2. PICK c \in {"idle", "clear"} : GoTo(p, job[p], c)
  BY DEF Save
<1>3. c \in Control /\ Reaches(job[p].op, "clear") /\ ~MakesAt(c, job[p].op)
  BY <1>1, <1>2 DEF Control, Reaches, MakesAt
<1>4. Continues(p)
  BY <1>1, <1>2, <1>3, GoesOn
<1> QED BY <1>1, <1>4 DEF Save, GoTo, TypeOK

LEMMA RemoveContinues ==
  ASSUME TypeOK, NEW p \in Workers, WorkerOK(p), Select(p) \/ Remove(p)
  PROVE  /\ Continues(p) /\ job[p].key \in {"likes", "comments"}
         /\ Remove(p) => pc'[p] = "clear" /\ job'[p] = job[p]
<1>1. /\ pc[p] \in {"select", "remove"} /\ job[p].op \in {"unlike", "uncomment"}
      /\ job[p].key \in {"likes", "comments"}
  BY WorkerFacts DEF Select, Remove, Reaches, HasKey
<1>2. PICK c \in {"idle", "remove", "clear"} : GoTo(p, job[p], c) /\ (Remove(p) => c = "clear")
  BY DEF Select, Remove
<1>3. /\ c \in Control /\ Reaches(job[p].op, "clear") /\ Reaches(job[p].op, "remove")
      /\ ~MakesAt(c, job[p].op)
  BY <1>1, <1>2 DEF Control, Reaches, MakesAt
<1>4. Continues(p)
  BY <1>1, <1>2, <1>3, GoesOn
<1> QED BY <1>1, <1>2, <1>4 DEF GoTo, TypeOK

LEMMA ClearContinues ==
  ASSUME TypeOK, NEW p \in Workers, WorkerOK(p), Clear(p)
  PROVE  /\ Continues(p) /\ job[p].key \in Kinds
         /\ pc'[p] \in {"likes", "sent", "find", "idle"}
         /\ Scored(job[p].op) => pc'[p] = "likes"
<1> DEFINE j == job[p]
<1>1. /\ pc[p] = "clear" /\ j \in Job /\ HasKey(j) /\ j.key \in Kinds
      /\ j.op \in {"like", "view", "comment", "react", "edit", "unlike", "uncomment"}
  BY WorkerFacts DEF Clear, Reaches, HasKey, Kinds
<1>2. CASE j.op # "edit"
  <2>1. PICK c \in {"likes", "sent", "idle"} : /\ GoTo(p, j, c)
                                               /\ Scored(j.op) => c = "likes"
                                               /\ c = "likes" => Scored(j.op)
                                               /\ c = "sent" => j.op = "react"
    <3>1. CASE Scored(j.op)
      <4>1. GoTo(p, j, "likes")
        BY <1>1, <3>1 DEF Clear, Scored
      <4> QED BY <3>1, <4>1
    <3>2. CASE j.op = "react"
      <4>1. GoTo(p, j, IF j.fresh THEN "sent" ELSE "idle")
        BY <1>1, <3>2 DEF Clear, Scored
      <4> QED BY <3>2, <4>1 DEF Scored
    <3> QED BY <1>1, <1>2, <3>1, <3>2 DEF Scored
  <2>2. c \in Control /\ (c # "idle" => Reaches(j.op, c) /\ ~MakesAt(c, j.op))
    BY <1>1, <2>1 DEF Control, Reaches, MakesAt, Scored
  <2>3. Continues(p)
    BY <1>1, <2>1, <2>2, GoesOn
  <2>4. pc'[p] = c
    BY <2>1 DEF GoTo, TypeOK
  <2> QED BY <1>1, <2>1, <2>3, <2>4
<1>3. CASE j.op = "edit"
  <2> DEFINE k == [j EXCEPT !.op = "reload"]
  <2>1. GoTo(p, k, "find") /\ ~Scored(j.op)
    BY <1>3 DEF Clear, Scored
  <2>2. "reload" \in Op
    BY DEF Op
  <2>3. k \in Job
    BY <1>1, <2>2, JobFields
  <2>4. k.op = "reload" /\ k.id = j.id /\ k.key = j.key /\ k.user = j.user /\ k.key = "comments"
    BY <1>1, <1>3 DEF Job, HasKey
  <2> HIDE DEF k
  <2>5. Fits(p, k, "find") /\ "find" \in Control
    BY <1>1, <2>4 DEF Fits, Reaches, HasKey, MakesAt, Control
  <2>6. Continues(p)
    BY <2>1, <2>3, <2>5, GoToFits
  <2>7. pc'[p] = "find"
    BY <2>1 DEF GoTo, TypeOK
  <2> QED BY <1>1, <2>1, <2>6, <2>7
<1> QED BY <1>2, <1>3

\* Counted rows are a number, and so is a score of them.
LEMMA Numbers ==
  ASSUME Countable
  PROVE  /\ \A k \in Kinds : Cardinality(rows[k]) \in Nat
         /\ Unread \in Nat
         /\ \A k \in Keys : Number(k) \in Nat
<1>1. \A k \in Kinds : Cardinality(rows[k]) \in Nat
  BY FS_CardinalityType DEF Countable
<1>2. Unread \in Nat
  <2>1. {n \in notices : ~n.read} \in SUBSET notices
    OBVIOUS
  <2>2. IsFiniteSet({n \in notices : ~n.read})
    BY <2>1, FS_Subset DEF Countable
  <2> QED BY <2>2, FS_CardinalityType DEF Unread
<1> QED BY <1>1, <1>2 DEF Number, Keys

LEMMA CountContinues ==
  ASSUME TypeOK, Countable, NEW p \in Workers, WorkerOK(p),
         CountLikes(p) \/ CountComments(p) \/ CountViews(p)
  PROVE  /\ Continues(p)
         /\ pc'[p] = CASE pc[p] = "likes" -> "comments"
                       [] pc[p] = "comments" -> "views"
                       [] OTHER -> IF job[p].op = "feed" THEN "rank" ELSE "post"
         /\ job'[p].op = job[p].op
<1> DEFINE j == job[p]
<1>1. /\ pc[p] \in Kinds /\ pc[p] # "idle" /\ j \in Job /\ j.sum \in Nat
      /\ j.op \in {"like", "view", "comment", "unlike", "uncomment", "feed", "update"}
  BY WorkerFacts DEF CountLikes, CountComments, CountViews, CountRows, Reaches, Kinds
<1> DEFINE c == CASE pc[p] = "likes" -> "comments"
                  [] pc[p] = "comments" -> "views"
                  [] OTHER -> IF j.op = "feed" THEN "rank" ELSE "post"
<1>2. PICK n \in {Cardinality(rows[pc[p]]), 0}, s \in {0, j.sum} :
        GoTo(p, [j EXCEPT !.sum = s + Weight[pc[p]] * n], c)
  BY DEF CountLikes, CountComments, CountViews, CountRows
<1> DEFINE k == [j EXCEPT !.sum = s + Weight[pc[p]] * n]
<1>3. s + Weight[pc[p]] * n \in Nat
  <2>1. n \in Nat
    BY <1>1, <1>2, Numbers
  <2>2. Weight[pc[p]] \in {1, 2, 3}
    BY <1>1 DEF Weight, Kinds
  <2> QED BY <1>1, <1>2, <2>1, <2>2
<1>4. k \in Job
  BY <1>1, <1>3, JobFields
<1>5. k.op = j.op /\ k.id = j.id /\ k.key = j.key /\ k.user = j.user
  BY <1>1 DEF Job
<1>6. /\ c \in {"comments", "views", "rank", "post"} /\ c \in Control
      /\ Reaches(j.op, c) /\ ~MakesAt(c, j.op)
      /\ pc[p] \in {"likes", "comments", "views", "post", "rank", "feed"}
  BY <1>1 DEF Control, Reaches, MakesAt, Kinds
<1>7. GoTo(p, k, c)
  BY <1>2
<1> HIDE DEF k
<1>8. Continues(p) /\ pc'[p] = c /\ job'[p] = k
  <2> HIDE DEF c
  <2>1. Continues(p)
    BY <1>1, <1>4, <1>5, <1>6, <1>7, GoesOnWith
  <2>2. c # "idle"
    BY <1>6
  <2> QED BY <1>6, <1>7, <2>1, <2>2 DEF GoTo, TypeOK
<1> QED BY <1>5, <1>8

\* Once the score is dealt with, the request ends or turns to the notification.
LEMMA AfterScoreContinues ==
  ASSUME TypeOK, NEW p \in Workers, WorkerOK(p), pc[p] \in {"post", "rank"},
         AfterScore(p)
  PROVE  /\ Continues(p)
         /\ pc'[p] \in {"idle", "sent", "notify", "find"}
<1> DEFINE j == [job[p] EXCEPT !.sum = 0]
<1>1. /\ j \in Job /\ HasKey(job[p]) /\ pc[p] # "idle"
      /\ j.op = job[p].op /\ j.user = job[p].user /\ j.key = job[p].key /\ j.id = job[p].id
  <2>1. job[p] \in Job /\ HasKey(job[p]) /\ pc[p] # "idle"
    BY WorkerFacts
  <2> QED BY <2>1, JobFields DEF Job
<1>2. j.op = "comment" =>
        \/ GoTo(p, j, "notify")
        \/ GoTo(p, [j EXCEPT !.op = "recall"], "find")
  BY DEF AfterScore
<1>3. j.op # "comment" =>
        \E c \in {"idle", "sent"} : GoTo(p, j, c) /\ (c = "sent" => j.op = "like")
  BY DEF AfterScore
<1> HIDE DEF j
<1>4. ASSUME NEW k \in Job, NEW c \in {"idle", "sent", "notify", "find"}, GoTo(p, k, c),
             c # "idle" => Fits(p, k, c)
      PROVE  Continues(p) /\ pc'[p] \in {"idle", "sent", "notify", "find"}
  <2>1. c \in Control
    BY DEF Control
  <2> QED BY <1>4, <2>1, GoToFits DEF GoTo, TypeOK
<1>5. CASE j.op = "comment" /\ GoTo(p, j, "notify")
  <2>1. j.key = "comments" /\ Reaches(j.op, "notify") /\ ~MakesAt("notify", j.op)
    BY <1>1, <1>5 DEF HasKey, Reaches, MakesAt
  <2>2. Fits(p, j, "notify")
    BY <1>1, <2>1, SameFits
  <2> QED BY <1>1, <1>4, <1>5, <2>2
<1>6. CASE j.op = "comment" /\ GoTo(p, [j EXCEPT !.op = "recall"], "find")
  <2> DEFINE k == [j EXCEPT !.op = "recall"]
  <2>1. "recall" \in Op
    BY DEF Op
  <2>2. k \in Job
    BY <1>1, <2>1, JobFields
  <2>3. k.op = "recall" /\ k.id = j.id /\ k.key = "comments" /\ k.key = j.key /\ k.user = j.user
    BY <1>1, <1>6 DEF Job, HasKey
  <2> HIDE DEF k
  <2>4. Fits(p, k, "find")
    BY <1>1, <2>3 DEF Fits, Reaches, HasKey, MakesAt
  <2> QED BY <1>4, <1>6, <2>2, <2>4 DEF k
<1>7. CASE j.op # "comment"
  <2>1. PICK c \in {"idle", "sent"} : GoTo(p, j, c) /\ (c = "sent" => j.op = "like")
    BY <1>3, <1>7
  <2>2. c # "idle" => Fits(p, j, c)
    <3> SUFFICES ASSUME c = "sent" PROVE Fits(p, j, "sent")
      BY <2>1
    <3>1. Reaches(j.op, "sent") /\ ~MakesAt("sent", j.op)
      BY <2>1 DEF Reaches, MakesAt
    <3> QED BY <1>1, <3>1, SameFits
  <2> QED BY <1>1, <1>4, <2>1, <2>2
<1> QED BY <1>2, <1>5, <1>6, <1>7

LEMMA FindPostContinues ==
  ASSUME TypeOK, NEW p \in Workers, WorkerOK(p), FindPost(p)
  PROVE  /\ Continues(p)
         /\ alive => pc'[p] = "rank"
         /\ ~alive => pc'[p] \in {"idle", "sent", "notify", "find"}
<1>1. pc[p] = "post"
  BY DEF FindPost
<1>2. CASE alive
  <2>1. GoTo(p, job[p], "rank")
    BY <1>2 DEF FindPost
  <2>2. Reaches(job[p].op, "rank") /\ ~MakesAt("rank", job[p].op) /\ "rank" \in Control
    BY <1>1, WorkerFacts DEF Reaches, MakesAt, Control
  <2>3. Continues(p)
    BY <1>1, <2>1, <2>2, GoesOn
  <2> QED BY <1>2, <2>1, <2>3 DEF GoTo, TypeOK
<1>3. CASE ~alive
  <2>1. AfterScore(p)
    BY <1>3 DEF FindPost
  <2> QED BY <1>1, <1>3, <2>1, AfterScoreContinues
<1> QED BY <1>2, <1>3

LEMMA StoreScoreContinues ==
  ASSUME TypeOK, NEW p \in Workers, WorkerOK(p), StoreScore(p)
  PROVE  Continues(p) /\ pc'[p] \in {"idle", "sent", "notify", "find"}
<1>1. pc[p] = "rank" /\ AfterScore(p)
  BY DEF StoreScore
<1> QED BY <1>1, AfterScoreContinues

LEMMA FindFeedContinues ==
  ASSUME TypeOK, NEW p \in Workers, WorkerOK(p), FindFeed(p)
  PROVE  Continues(p) /\ (~alive => pc'[p] = "idle")
<1> DEFINE j == job[p]
<1>1. pc[p] = "feed" /\ j \in Job /\ j.op = "feed"
  BY WorkerFacts DEF FindFeed, Reaches
<1>2. CASE rank # Absent \/ ~alive
  <2>1. GoTo(p, j, "idle")
    BY <1>2 DEF FindFeed
  <2> QED BY <2>1, GoToIdle DEF GoTo, TypeOK
<1>3. CASE rank = Absent /\ alive /\ score # Absent
  <2> DEFINE k == [j EXCEPT !.sum = score]
  <2>1. GoTo(p, k, "rank") /\ score \in Nat
    BY <1>3 DEF FindFeed, TypeOK
  <2>2. k \in Job
    BY <1>1, <2>1, JobFields
  <2>3. k.op = j.op /\ k.id = j.id /\ k.key = j.key /\ k.user = j.user
    BY <1>1 DEF Job
  <2>4. Reaches("feed", "rank") /\ ~MakesAt("rank", "feed") /\ "rank" \in Control
    BY DEF Reaches, MakesAt, Control
  <2> HIDE DEF k
  <2>5. Continues(p)
    BY <1>1, <2>1, <2>2, <2>3, <2>4, GoesOnWith
  <2> QED BY <1>3, <2>5
<1>4. CASE rank = Absent /\ alive /\ score = Absent
  <2>1. GoTo(p, j, "likes")
    BY <1>4 DEF FindFeed
  <2>2. Reaches("feed", "likes") /\ ~MakesAt("likes", "feed") /\ "likes" \in Control
    BY DEF Reaches, MakesAt, Control
  <2>3. Continues(p)
    BY <1>1, <2>1, <2>2, GoesOn
  <2> QED BY <1>4, <2>3
<1> QED BY <1>2, <1>3, <1>4

LEMMA DeletionContinues ==
  ASSUME TypeOK, NEW p \in Workers, WorkerOK(p), RemovePost(p) \/ Unrank(p)
  PROVE  Continues(p) /\ pc'[p] = IF pc[p] = "delete" THEN "unrank" ELSE "idle"
<1>1. pc[p] \in {"delete", "unrank"} /\ job[p].op = "delete"
  BY WorkerFacts DEF RemovePost, Unrank, Reaches
<1>2. /\ Reaches("delete", "unrank") /\ ~MakesAt("unrank", "delete")
      /\ "unrank" \in Control /\ "idle" \in Control
  BY DEF Reaches, MakesAt, Control
<1> DEFINE c == IF pc[p] = "delete" THEN "unrank" ELSE "idle"
<1>3. GoTo(p, job[p], c)
  BY DEF RemovePost, Unrank
<1>4. Continues(p)
  BY <1>1, <1>2, <1>3, GoesOn
<1> QED BY <1>2, <1>3, <1>4 DEF GoTo, TypeOK

LEMMA FindNoticeContinues ==
  ASSUME TypeOK, NEW p \in Workers, WorkerOK(p), FindNotice(p)
  PROVE  Continues(p)
<1>1. pc[p] = "sent" /\ job[p].op \in {"like", "react"}
  BY WorkerFacts DEF FindNotice, Reaches
<1>2. PICK c \in {"idle", "notify"} : GoTo(p, job[p], c)
  BY DEF FindNotice
<1>3. c \in Control /\ Reaches(job[p].op, "notify") /\ ~MakesAt(c, job[p].op)
  BY <1>1, <1>2 DEF Control, Reaches, MakesAt
<1> QED BY <1>1, <1>2, <1>3, GoesOn

LEMMA NoticeContinues ==
  ASSUME TypeOK, NEW p \in Workers, WorkerOK(p),
         CreateNotice(p) \/ MarkNotices(p) \/ DeleteNotice(p)
  PROVE  /\ Continues(p)
         /\ pc'[p] = "clearunread" \/ (pc'[p] = "idle" /\ notices' = notices)
<1>1. /\ pc[p] \in {"notify", "mark", "dismiss"}
      /\ job[p].op \in {"like", "react", "comment", "recall", "read", "readall", "dismiss"}
  BY WorkerFacts DEF CreateNotice, MarkNotices, DeleteNotice, Reaches
<1>2. PICK c \in {"idle", "clearunread"} :
        /\ GoTo(p, job[p], c)
        /\ c = "clearunread" \/ (DeleteNotice(p) /\ \A n \in notices : n.id # job[p].id)
  BY DEF CreateNotice, MarkNotices, DeleteNotice
<1>3. c \in Control /\ Reaches(job[p].op, "clearunread") /\ ~MakesAt(c, job[p].op)
  BY <1>1, <1>2 DEF Control, Reaches, MakesAt
<1>4. Continues(p)
  BY <1>1, <1>2, <1>3, GoesOn
<1>5. c = "idle" => notices' = notices
  BY <1>2 DEF DeleteNotice, Dismiss
<1>6. pc'[p] = c
  BY <1>2 DEF GoTo, TypeOK
<1> QED BY <1>2, <1>4, <1>5, <1>6

LEMMA ClearUnreadContinues ==
  ASSUME TypeOK, NEW p \in Workers, WorkerOK(p), ClearUnread(p)
  PROVE  Continues(p) /\ pc'[p] \in {"idle", "find"}
<1> DEFINE j == job[p]
           k == [j EXCEPT !.op = "reload"]
<1>1. pc[p] = "clearunread" /\ j \in Job /\ HasKey(j)
  BY WorkerFacts DEF ClearUnread
<1>2. CASE j.op # "comment"
  <2>1. GoTo(p, j, "idle")
    BY <1>2 DEF ClearUnread
  <2> QED BY <2>1, GoToIdle DEF GoTo, TypeOK
<1>3. CASE j.op = "comment"
  <2>1. GoTo(p, k, "find")
    BY <1>3 DEF ClearUnread
  <2>2. "reload" \in Op
    BY DEF Op
  <2>3. k \in Job
    BY <1>1, <2>2, JobFields
  <2>4. k.op = "reload" /\ k.id = j.id /\ k.key = j.key /\ k.user = j.user /\ k.key = "comments"
    BY <1>1, <1>3 DEF Job, HasKey
  <2> HIDE DEF k
  <2>5. Fits(p, k, "find") /\ "find" \in Control
    BY <1>1, <2>4 DEF Fits, Reaches, HasKey, MakesAt, Control
  <2>6. Continues(p)
    BY <2>1, <2>3, <2>5, GoToFits
  <2> QED BY <2>1, <2>6 DEF GoTo, TypeOK
<1> QED BY <1>2, <1>3

LEMMA CacheContinues ==
  ASSUME TypeOK, Countable, NEW p \in Workers, WorkerOK(p),
         GetCached(p) \/ Query(p) \/ Fill(p)
  PROVE  Continues(p) /\ pc'[p] \in {"idle", "query", "fill"}
<1> DEFINE j == job[p]
<1>1. pc[p] \in {"get", "query", "fill"} /\ j \in Job /\ j.op = "count" /\ j.key \in Keys
  BY WorkerFacts DEF GetCached, Query, Fill, Reaches
<1>2. /\ \A c \in {"query", "fill"} : Reaches("count", c) /\ ~MakesAt(c, "count")
      /\ {"idle", "query", "fill"} \subseteq Control
  BY DEF Reaches, MakesAt, Control
<1>3. CASE GetCached(p) \/ Fill(p)
  <2>1. PICK c \in {"idle", "query"} : GoTo(p, j, c)
    BY <1>3 DEF GetCached, Fill
  <2>2. Continues(p)
    BY <1>1, <1>2, <2>1, GoesOn
  <2> QED BY <2>1, <2>2 DEF GoTo, TypeOK
<1>4. CASE Query(p)
  <2> DEFINE k == [j EXCEPT !.sum = Number(j.key)]
  <2>1. GoTo(p, k, "fill")
    BY <1>4 DEF Query
  <2>2. Number(j.key) \in Nat
    BY <1>1, Numbers
  <2>3. k \in Job
    BY <1>1, <2>2, JobFields
  <2>4. k.op = j.op /\ k.id = j.id /\ k.key = j.key /\ k.user = j.user
    BY <1>1 DEF Job
  <2> HIDE DEF k
  <2>5. Continues(p)
    BY <1>1, <1>2, <2>1, <2>3, <2>4, GoesOnWith
  <2> QED BY <2>1, <2>5 DEF GoTo, TypeOK
<1> QED BY <1>3, <1>4

LEMMA AbortContinues ==
  ASSUME TypeOK, NEW p \in Workers, Abort(p)
  PROVE  Continues(p) /\ pc'[p] = "idle" /\ pc[p] # "idle"
<1>1. GoTo(p, job[p], "idle") /\ pc[p] # "idle"
  BY DEF Abort
<1> QED BY <1>1, GoToIdle DEF GoTo, TypeOK

\* Every step of a handler takes it where it may go.
LEMMA ServeContinues ==
  ASSUME SafeInv, NEW p \in Workers, Serve(p) \/ Abort(p)
  PROVE  Continues(p) /\ pc[p] # "idle"
<1>1. TypeOK /\ Countable /\ WorkerOK(p)
  BY DEF SafeInv
<1>2. CASE Abort(p)
  BY <1>1, <1>2, AbortContinues
<1>3. CASE CheckUserLiked(p) \/ Find(p) \/ FindComment(p) \/ ShowComment(p) \/ FindAgain(p)
  BY <1>1, <1>3, CheckUserLikedContinues, FindContinues, FindCommentContinues,
     ShowCommentContinues, FindAgainContinues
     DEF CheckUserLiked, Find, FindComment, ShowComment, FindAgain
<1>4. CASE Insert(p) \/ Save(p) \/ Select(p) \/ Remove(p) \/ Clear(p)
  BY <1>1, <1>4, InsertContinues, SaveContinues, RemoveContinues, ClearContinues
     DEF Insert, Save, Select, Remove, Clear
<1>5. CASE CountLikes(p) \/ CountComments(p) \/ CountViews(p)
  BY <1>1, <1>5, CountContinues DEF CountLikes, CountComments, CountViews, CountRows
<1>6. CASE FindPost(p) \/ StoreScore(p) \/ FindFeed(p) \/ RemovePost(p) \/ Unrank(p)
  BY <1>1, <1>6, FindPostContinues, StoreScoreContinues, FindFeedContinues, DeletionContinues
     DEF FindPost, StoreScore, FindFeed, RemovePost, Unrank
<1>7. CASE \/ FindNotice(p) \/ CreateNotice(p) \/ MarkNotices(p) \/ DeleteNotice(p)
           \/ ClearUnread(p)
  BY <1>1, <1>7, FindNoticeContinues, NoticeContinues, ClearUnreadContinues
     DEF FindNotice, CreateNotice, MarkNotices, DeleteNotice, ClearUnread
<1>8. CASE GetCached(p) \/ Query(p) \/ Fill(p)
  BY <1>1, <1>8, CacheContinues DEF GetCached, Query, Fill
<1> QED BY <1>2, <1>3, <1>4, <1>5, <1>6, <1>7, <1>8 DEF Serve

\* A request that arrives is one, and has a new number or that of a notification.
LEMMA TakeArrives ==
  ASSUME TypeOK, NEW p \in Workers, NEW j \in Job, NEW c, Take(p, j, c), HasKey(j),
         Reaches(j.op, c),
         c \in {"check", "find", "insert", "get", "feed", "likes", "delete", "mark", "dismiss"},
         c \in {"likes", "delete"} => alive /\ j.op # "feed",
         j.id = left \/ (j.key = "unread" /\ \E n \in notices : n.id = j.id)
  PROVE  Arrives(p)
<1>1. pc'[p] = c /\ job'[p] = j
  BY DEF Take, TypeOK
<1> QED BY <1>1 DEF Take, Arrives

LEMMA BeginArrives ==
  ASSUME TypeOK, NEW p \in Workers, Begin(p)
  PROVE  Arrives(p)
<1>1. ASSUME NEW o \in Op, NEW u \in Users, NEW k \in Keys
      PROVE  LET j == Request(o, u, k)
             IN  j \in Job /\ j.op = o /\ j.user = u /\ j.key = k /\ j.id = left
  BY DEF Request, Job, TypeOK
<1>2. Somebody \in Users
  BY EngagementAssumption DEF Somebody
<1>3. ASSUME NEW o \in Op, NEW u \in Users, NEW k \in Keys, NEW c, Take(p, Request(o, u, k), c),
             Reaches(o, c), \A j : j.op = o /\ j.key = k => HasKey(j),
             c \in {"check", "find", "insert", "get", "feed", "likes", "delete", "mark", "dismiss"},
             c \in {"likes", "delete"} => alive /\ o # "feed"
      PROVE  Arrives(p)
  BY <1>1, <1>3, TakeArrives
<1>4. /\ {"like", "react", "unlike", "view", "comment", "edit", "uncomment", "look", "count",
          "feed", "read", "readall", "dismiss", "delete", "update"} \subseteq Op
      /\ {"likes", "comments", "views", "unread"} \subseteq Keys
  BY DEF Op, Keys, Kinds
<1>5. CASE LikePost(p)
  BY <1>3, <1>4, <1>5 DEF LikePost, HasKey, Reaches
<1>6. CASE UnlikePost(p)
  BY <1>3, <1>4, <1>6 DEF UnlikePost, HasKey, Reaches
<1>7. CASE TrackView(p)
  BY <1>3, <1>4, <1>7 DEF TrackView, HasKey, Reaches
<1>8. CASE CreateComment(p)
  BY <1>3, <1>4, <1>8 DEF CreateComment, HasKey, Reaches
<1>9. CASE UpdateComment(p)
  BY <1>3, <1>4, <1>9 DEF UpdateComment, HasKey, Reaches
<1>10. CASE DeleteComment(p)
  BY <1>3, <1>4, <1>10 DEF DeleteComment, HasKey, Reaches
<1>11. CASE GetComment(p)
  BY <1>3, <1>4, <1>11 DEF GetComment, HasKey, Reaches
<1>12. CASE GetCount(p)
  BY <1>2, <1>3, <1>4, <1>12 DEF GetCount, HasKey, Reaches
<1>13. CASE GetFeed(p)
  BY <1>2, <1>3, <1>4, <1>13 DEF GetFeed, HasKey, Reaches
<1>14. CASE UpdatePost(p)
  BY <1>2, <1>3, <1>4, <1>14 DEF UpdatePost, HasKey, Reaches
<1>15. CASE DeletePost(p)
  BY <1>2, <1>3, <1>4, <1>15 DEF DeletePost, HasKey, Reaches
<1>16. CASE MarkAllAsRead(p)
  BY <1>2, <1>3, <1>4, <1>16 DEF MarkAllAsRead, HasKey, Reaches
<1>17. CASE MarkAsRead(p) \/ DeleteNotification(p)
  <2>1. PICK n \in notices, o \in {"read", "dismiss"}, c \in {"mark", "dismiss"} :
          /\ Take(p, [Request(o, Somebody, "unread") EXCEPT !.id = n.id], c)
          /\ Reaches(o, c)
    BY <1>17 DEF MarkAsRead, DeleteNotification, Reaches
  <2>2. n.id \in Nat
    BY DEF TypeOK, NoticesOK, Notice
  <2> DEFINE j == Request(o, Somebody, "unread")
             k == [j EXCEPT !.id = n.id]
  <2>3. j \in Job /\ j.op = o /\ j.key = "unread"
    BY <1>1, <1>2, <1>4, <2>1
  <2>4. k \in Job
    BY <2>2, <2>3, JobFields
  <2>5. k.op = o /\ k.key = "unread" /\ k.id = n.id
    BY <2>3 DEF Job
  <2>6. HasKey(k)
    BY <2>5, <2>1 DEF HasKey
  <2> HIDE DEF k
  <2>7. Take(p, k, c)
    BY <2>1 DEF k
  <2> QED BY <2>1, <2>4, <2>5, <2>6, <2>7, TakeArrives
<1> QED BY <1>5, <1>6, <1>7, <1>8, <1>9, <1>10, <1>11, <1>12, <1>13, <1>14, <1>15, <1>16,
           <1>17 DEF Begin

\* Which action serves a worker at a control point.
LEMMA ServedAt ==
  ASSUME NEW p \in Workers, Serve(p)
  PROVE  /\ pc[p] \in {"find", "show"} => Find(p) \/ FindComment(p) \/ ShowComment(p)
         /\ pc[p] = "clear" => Clear(p)
         /\ pc[p] \in Kinds => CountLikes(p) \/ CountComments(p) \/ CountViews(p)
         /\ pc[p] = "post" => FindPost(p)
         /\ pc[p] = "rank" => StoreScore(p)
         /\ pc[p] = "feed" => FindFeed(p)
         /\ pc[p] = "unrank" => Unrank(p)
         /\ pc[p] = "sent" => FindNotice(p)
         /\ pc[p] = "clearunread" => ClearUnread(p)
BY DEF Serve, CheckUserLiked, Find, FindComment, ShowComment, FindAgain, Insert, Save, Select,
       Remove, Clear, CountLikes, CountComments, CountViews, CountRows, FindPost, StoreScore,
       FindFeed, RemovePost, Unrank, FindNotice, CreateNotice, MarkNotices, DeleteNotice,
       ClearUnread, GetCached, Query, Fill, Kinds

\* Which actions change which variables.
Changes(p) ==
  /\ rows' = rows \/ Insert(p) \/ Save(p) \/ Remove(p)
  /\ shown' = shown \/ ShowComment(p) \/ Clear(p)
  /\ cached' = cached \/ Clear(p) \/ Fill(p)
  /\ unread' = unread \/ ClearUnread(p) \/ Fill(p)
  /\ notices' = notices \/ CreateNotice(p) \/ MarkNotices(p) \/ DeleteNotice(p)
  /\ (score' = score /\ rank' = rank /\ expires' = expires) \/ StoreScore(p) \/ Unrank(p)
  /\ alive' = alive \/ RemovePost(p)
  /\ gone' = gone \/ Remove(p)
  /\ raced' = raced \/ FindComment(p) \/ Remove(p) \/ Clear(p) \/ Abort(p)
  /\ doubled' = doubled \/ FindNotice(p)
  /\ \/ torn' = torn
     \/ Insert(p) \/ Save(p) \/ Remove(p) \/ CountLikes(p) \/ CountComments(p) \/ CountViews(p)
     \/ FindPost(p) \/ StoreScore(p) \/ FindFeed(p) \/ Abort(p)
  /\ \/ late' = late
     \/ Save(p) \/ Clear(p) \/ StoreScore(p) \/ RemovePost(p) \/ Unrank(p) \/ ClearUnread(p)
     \/ Fill(p) \/ Abort(p)

LEMMA ServeChanges ==
  ASSUME NEW p \in Workers, Serve(p) \/ Abort(p)
  PROVE  Changes(p)
<1>1. CASE CheckUserLiked(p) \/ Find(p) \/ FindAgain(p) \/ Select(p) \/ GetCached(p) \/ Query(p)
  <2>1. UNCHANGED <<data, history>>
    BY <1>1 DEF CheckUserLiked, Find, FindAgain, Select, GetCached, Query
  <2> QED BY <2>1 DEF data, post, table, store, history, Changes
<1>16. CASE CountLikes(p) \/ CountComments(p) \/ CountViews(p) \/ FindPost(p) \/ FindFeed(p)
  <2>1. UNCHANGED <<data, gone, raced, doubled, late>>
    BY <1>16 DEF CountLikes, CountComments, CountViews, CountRows, FindPost, FindFeed
  <2> QED BY <1>16, <2>1 DEF data, post, table, store, Changes
<1>2. CASE FindComment(p)
  <2>1. UNCHANGED <<data, gone, doubled, torn, late>>
    BY <1>2 DEF FindComment
  <2> QED BY <1>2, <2>1 DEF data, post, table, store, history, Changes
<1>3. CASE ShowComment(p)
  <2>1. UNCHANGED <<post, rows, cached, store, history>>
    BY <1>3 DEF ShowComment
  <2> QED BY <1>3, <2>1 DEF post, store, history, Changes
<1>4. CASE Insert(p)
  <2>1. UNCHANGED <<post, shown, cached, store, gone, raced, doubled, late>>
    BY <1>4 DEF Insert
  <2> QED BY <1>4, <2>1 DEF post, store, Changes
<1>5. CASE Save(p)
  <2>1. UNCHANGED <<post, shown, cached, store, gone, raced, doubled>>
    BY <1>5 DEF Save
  <2> QED BY <1>5, <2>1 DEF post, store, Changes
<1>6. CASE Remove(p)
  <2>1. UNCHANGED <<post, shown, cached, store, doubled, late>>
    BY <1>6 DEF Remove
  <2> QED BY <1>6, <2>1 DEF post, store, Changes
<1>7. CASE Clear(p)
  <2>1. UNCHANGED <<post, rows, store, gone, doubled, torn>>
    BY <1>7 DEF Clear
  <2> QED BY <1>7, <2>1 DEF post, store, Changes
<1>8. CASE StoreScore(p)
  <2>1. UNCHANGED <<alive, table, cached, store, gone, raced, doubled>>
    BY <1>8 DEF StoreScore
  <2> QED BY <1>8, <2>1 DEF table, store, Changes
<1>9. CASE RemovePost(p)
  <2>1. UNCHANGED <<table, cached, score, rank, expires, store, gone, raced, doubled, torn>>
    BY <1>9 DEF RemovePost
  <2> QED BY <1>9, <2>1 DEF table, store, Changes
<1>10. CASE Unrank(p)
  <2>1. UNCHANGED <<alive, table, cached, expires, store, gone, raced, doubled, torn>>
    BY <1>10 DEF Unrank
  <2> QED BY <1>10, <2>1 DEF table, store, Changes
<1>11. CASE FindNotice(p)
  <2>1. UNCHANGED <<data, gone, raced, torn, late>>
    BY <1>11 DEF FindNotice
  <2> QED BY <1>11, <2>1 DEF data, post, table, store, Changes
<1>12. CASE CreateNotice(p) \/ MarkNotices(p) \/ DeleteNotice(p)
  <2>1. UNCHANGED <<post, table, cached, unread, history>>
    BY <1>12 DEF CreateNotice, MarkNotices, DeleteNotice
  <2> QED BY <1>12, <2>1 DEF post, table, history, Changes
<1>13. CASE ClearUnread(p)
  <2>1. UNCHANGED <<post, table, cached, notices, gone, raced, doubled, torn>>
    BY <1>13 DEF ClearUnread
  <2> QED BY <1>13, <2>1 DEF post, table, Changes
<1>14. CASE Fill(p)
  <2>1. UNCHANGED <<post, table, notices, gone, raced, doubled, torn>>
    BY <1>14 DEF Fill
  <2> QED BY <1>14, <2>1 DEF post, table, Changes
<1>15. CASE Abort(p)
  <2>1. UNCHANGED <<data, gone, doubled>>
    BY <1>15 DEF Abort
  <2> QED BY <1>15, <2>1 DEF data, post, table, store, Changes
<1> QED BY <1>1, <1>2, <1>3, <1>4, <1>5, <1>6, <1>7, <1>8, <1>9, <1>10, <1>11, <1>12, <1>13,
           <1>14, <1>15, <1>16 DEF Serve

\* Time changes what Redis holds, and nothing else.
Expires ==
  /\ UNCHANGED <<rows, shown, notices, alive, pc, job, left, gone, raced, doubled, torn>>
  /\ \/ \E k \in Keys : Expire(k)
     \/ ExpireScore \/ ExpireRank

\* The three kinds of steps.
LEMMA Steps ==
  ASSUME SafeInv, [Next]_vars
  PROVE  \/ UNCHANGED vars
         \/ Expires
         \/ \E p \in Workers : Arrives(p)
         \/ \E p \in Workers : (Serve(p) \/ Abort(p)) /\ Continues(p) /\ Changes(p) /\ pc[p] # "idle"
<1>1. TypeOK
  BY DEF SafeInv
<1>2. CASE \E k \in Keys : Expire(k)
  BY <1>2 DEF Expire, Expires, post, table
<1>3. CASE ExpireScore \/ ExpireRank
  BY <1>3 DEF ExpireScore, ExpireRank, Expires, table, store, history
<1>4. ASSUME NEW p \in Workers, Begin(p) PROVE Arrives(p)
  BY <1>1, <1>4, BeginArrives
<1>5. ASSUME NEW p \in Workers, Serve(p) \/ Abort(p)
      PROVE  Continues(p) /\ Changes(p) /\ pc[p] # "idle"
  BY <1>5, ServeContinues, ServeChanges
<1> QED BY <1>2, <1>3, <1>4, <1>5 DEF Next

----------------------------------------------------------------------------
(* Types.                                                                  *)

\* Workers stay typed, and where they may be.
LEMMA WorkersTyped ==
  ASSUME TypeOK, NEW p \in Workers, pc' = [pc EXCEPT ![p] = pc'[p]],
         job' = [job EXCEPT ![p] = job'[p]], pc'[p] \in Control,
         \A q \in Workers : WorkerOK(q),
         \/ pc'[p] = "idle" /\ job'[p] = NoJob
         \/ job'[p] \in Job /\ HasKey(job'[p]) /\ Reaches(job'[p].op, pc'[p])
  PROVE  /\ pc' \in [Workers -> Control]
         /\ job' \in [Workers -> Job \cup {NoJob}]
         /\ \A q \in Workers : pc'[q] # "idle" => job'[q] \in Job
         /\ \A q \in Workers : WorkerOK(q)'
<1>1. pc' \in [Workers -> Control] /\ job' \in [Workers -> Job \cup {NoJob}]
  BY DEF TypeOK
<1>2. ASSUME NEW q \in Workers, q # p PROVE pc'[q] = pc[q] /\ job'[q] = job[q]
  BY <1>2 DEF TypeOK
<1>3. ASSUME NEW q \in Workers PROVE (pc'[q] # "idle" => job'[q] \in Job) /\ WorkerOK(q)'
  <2>1. CASE q = p
    BY <2>1 DEF WorkerOK
  <2>2. CASE q # p
    BY <1>2, <2>2 DEF WorkerOK, TypeOK
  <2> QED BY <2>1, <2>2
<1> QED BY <1>1, <1>3

\* The rows stay rows, and finitely many.
LEMMA RowsTyped ==
  ASSUME SafeInv, NEW p \in Workers, Insert(p) \/ Save(p) \/ Remove(p)
  PROVE  rows' \in [Kinds -> SUBSET Row] /\ \A k \in Kinds : IsFiniteSet(rows'[k])
<1>1. TypeOK /\ Countable /\ WorkerOK(p)
  BY DEF SafeInv
<1> DEFINE j == job[p]
           r == [user |-> j.user, id |-> j.id]
<1>2. pc[p] # "idle"
  BY DEF Insert, Save, Remove
<1>3. r \in Row
  BY <1>1, <1>2, WorkerFacts DEF Row
<1>4. CASE rows' = rows
  BY <1>1, <1>4 DEF TypeOK, Countable
<1>5. CASE j.key \in Kinds /\ rows' = [rows EXCEPT ![j.key] = @ \cup {r}]
  <2>1. IsFiniteSet(rows[j.key] \cup {r})
    BY <1>1, <1>5, FS_AddElement DEF Countable
  <2> HIDE DEF r
  <2> QED BY <1>1, <1>3, <1>5, <2>1 DEF TypeOK, Countable
<1>6. CASE Remove(p)
  <2>1. j.key \in Kinds
    BY <1>1, <1>6, RemoveContinues DEF Kinds
  <2>2. rows' = [rows EXCEPT ![j.key] = {s \in @ : s.id # j.id}]
    BY <1>6 DEF Remove
  <2>3. {s \in rows[j.key] : s.id # j.id} \in SUBSET rows[j.key]
    OBVIOUS
  <2>4. IsFiniteSet({s \in rows[j.key] : s.id # j.id})
    BY <1>1, <2>1, <2>3, FS_Subset DEF Countable
  <2> QED BY <1>1, <2>1, <2>2, <2>3, <2>4 DEF TypeOK, Countable
<1> QED BY <1>1, <1>4, <1>5, <1>6, InsertContinues, SaveContinues

\* So do the notifications.
LEMMA NoticesTyped ==
  ASSUME SafeInv, NEW p \in Workers, CreateNotice(p) \/ MarkNotices(p) \/ DeleteNotice(p)
  PROVE  notices' \subseteq Notice /\ IsFiniteSet(notices')
<1>1. TypeOK /\ Countable /\ WorkerOK(p) /\ notices \subseteq Notice /\ IsFiniteSet(notices)
  BY DEF SafeInv, TypeOK, NoticesOK, Countable
<1> DEFINE j == job[p]
<1>2. pc[p] # "idle"
  BY DEF CreateNotice, MarkNotices, DeleteNotice
<1>3. j.id \in Nat /\ j.user \in Users
  BY <1>1, <1>2, WorkerFacts
<1>4. CASE CreateNotice(p)
  <2> DEFINE n == [id |-> j.id, kind |-> IF j.key = "comments" THEN "commented" ELSE "liked",
                   sender |-> j.user, read |-> FALSE]
  <2>1. notices' = notices \cup {n}
    BY <1>4 DEF CreateNotice, Create
  <2>2. n \in Notice
    BY <1>3 DEF Notice
  <2> HIDE DEF n
  <2> QED BY <1>1, <2>1, <2>2, FS_AddElement
<1>5. CASE MarkNotices(p)
  <2> DEFINE ids == IF j.op = "readall" THEN {n.id : n \in notices} ELSE {j.id}
  <2>1. notices' = {[n EXCEPT !.read = n.read \/ n.id \in ids] : n \in notices}
    BY <1>5 DEF MarkNotices, MarkRead
  <2> HIDE DEF ids
  <2> DEFINE f == [n \in notices |-> [n EXCEPT !.read = n.read \/ n.id \in ids]]
  <2>2. f \in Surjection(notices, notices')
    BY <2>1 DEF Surjection
  <2>3. IsFiniteSet(notices')
    BY <1>1, <2>2, FS_Surjection
  <2>4. ASSUME NEW n \in notices PROVE [n EXCEPT !.read = n.read \/ n.id \in ids] \in Notice
    <3>1. (n.read \/ n.id \in ids) \in BOOLEAN
      OBVIOUS
    <3> HIDE DEF f
    <3> QED BY <1>1, <3>1 DEF Notice
  <2> QED BY <2>1, <2>3, <2>4
<1>6. CASE DeleteNotice(p)
  <2>1. notices' \in SUBSET notices
    BY <1>6 DEF DeleteNotice, Dismiss
  <2> QED BY <1>1, <2>1, FS_Subset
<1> QED BY <1>4, <1>5, <1>6

\* The rest of the data stays typed.
LEMMA DataTyped ==
  ASSUME SafeInv, NEW p \in Workers, Serve(p) \/ Abort(p), Changes(p)
  PROVE  /\ shown' \subseteq Row
         /\ cached' \in [Kinds -> Nat \cup {Absent}]
         /\ unread' \in Nat \cup {Absent}
         /\ score' \in Nat \cup {Absent} /\ rank' \in Nat \cup {Absent} /\ expires' \in BOOLEAN
         /\ alive' \in BOOLEAN /\ gone' \subseteq Nat
         /\ raced' \in BOOLEAN /\ doubled' \in BOOLEAN /\ late' \subseteq Keys \cup {"rank"}
         /\ torn' \subseteq Workers
<1>1. TypeOK /\ Countable /\ WorkerOK(p) /\ pc[p] # "idle"
  BY ServeContinues DEF SafeInv
<1> DEFINE j == job[p]
<1>2. j.id \in Nat /\ j.user \in Users /\ j.key \in Keys /\ j.sum \in Nat
  BY <1>1, WorkerFacts
<1>3. shown' \subseteq Row
  <2>1. ShowComment(p) => shown' = shown \cup {[user |-> j.user, id |-> j.id]}
    BY DEF ShowComment
  <2>2. Clear(p) => shown' \subseteq shown
    BY DEF Clear
  <2>3. [user |-> j.user, id |-> j.id] \in Row
    BY <1>2 DEF Row
  <2> QED BY <1>1, <2>1, <2>2, <2>3 DEF Changes, TypeOK
<1>4. cached' \in [Kinds -> Nat \cup {Absent}]
  <2>1. Clear(p) => cached' \in [Kinds -> Nat \cup {Absent}]
    BY <1>1 DEF Clear, TypeOK
  <2>2. Fill(p) => cached' \in [Kinds -> Nat \cup {Absent}]
    BY <1>1, <1>2 DEF Fill, TypeOK
  <2> QED BY <1>1, <2>1, <2>2 DEF Changes, TypeOK
<1>5. unread' \in Nat \cup {Absent}
  BY <1>1, <1>2 DEF Changes, TypeOK, NoticesOK, ClearUnread, Fill
<1>6. score' \in Nat \cup {Absent} /\ rank' \in Nat \cup {Absent} /\ expires' \in BOOLEAN
  <2>1. StoreScore(p) =>
          \/ score' = score /\ rank' = rank /\ expires' = expires
          \/ /\ score' = j.sum /\ rank' = j.sum
             /\ expires' = (j.op = "feed" \/ (rank # Absent /\ expires))
    BY DEF StoreScore
  <2>2. Unrank(p) => expires' = expires /\ rank' \in {rank, Absent} /\ score' \in {score, Absent}
    BY DEF Unrank
  <2>3. (j.op = "feed" \/ (rank # Absent /\ expires)) \in BOOLEAN
    OBVIOUS
  <2>4. score \in Nat \cup {Absent} /\ rank \in Nat \cup {Absent} /\ expires \in BOOLEAN
    BY <1>1 DEF TypeOK
  <2>5. score' \in Nat \cup {Absent} /\ rank' \in Nat \cup {Absent}
    BY <1>2, <2>1, <2>2, <2>4 DEF Changes
  <2>6. expires' = expires \/ expires' = (j.op = "feed" \/ (rank # Absent /\ expires))
    BY <2>1, <2>2 DEF Changes
  <2>7. expires' \in BOOLEAN
    BY <2>3, <2>4, <2>6
  <2> QED BY <2>5, <2>7
<1>7. alive' \in BOOLEAN
  BY <1>1 DEF Changes, TypeOK, RemovePost
<1>8. gone' \subseteq Nat
  BY <1>1, <1>2 DEF Changes, TypeOK, Remove
<1>9. raced' \in BOOLEAN
  <2>1. raced \in BOOLEAN
    BY <1>1 DEF TypeOK
  <2>2. FindComment(p) => raced' \in BOOLEAN
    BY <2>1 DEF FindComment
  <2>3. Remove(p) => raced' \in BOOLEAN
    BY DEF Remove
  <2>4. Clear(p) => raced' \in BOOLEAN
    BY DEF Clear
  <2>5. Abort(p) => raced' \in BOOLEAN
    BY DEF Abort
  <2> QED BY <2>1, <2>2, <2>3, <2>4, <2>5 DEF Changes
<1>10. doubled' \in BOOLEAN
  <2>1. FindNotice(p) => doubled' \in BOOLEAN
    BY DEF FindNotice
  <2> QED BY <1>1, <2>1 DEF Changes, TypeOK
<1>11. late' \subseteq Keys \cup {"rank"}
  <2>1. "unread" \in Keys
    BY DEF Keys
  <2> QED BY <1>1, <1>2, <2>1
          DEF Changes, TypeOK, Save, Clear, StoreScore, RemovePost, Unrank, ClearUnread, Fill,
              Abort, Owed, Stale
<1>12. torn' \subseteq Workers
  <2>1. torn' \subseteq torn \cup Counting \cup {p}
    BY DEF Changes, Insert, Save, Remove, CountLikes, CountComments, CountViews, CountRows,
           FindPost, StoreScore, FindFeed, Abort
  <2> QED BY <1>1, <2>1 DEF TypeOK, Counting
<1> QED BY <1>3, <1>4, <1>5, <1>6, <1>7, <1>8, <1>9, <1>10, <1>11, <1>12

LEMMA SafeStep == SafeInv /\ [Next]_vars => SafeInv'
<1> SUFFICES ASSUME SafeInv, [Next]_vars PROVE SafeInv'
  OBVIOUS
<1>1. TypeOK /\ Countable /\ \A q \in Workers : WorkerOK(q)
  BY DEF SafeInv
<1>2. CASE UNCHANGED vars
  <2>1. TypeOK' /\ Countable'
    BY <1>1, <1>2 DEF vars, TypeOK, NoticesOK, Countable
  <2>2. \A q \in Workers : WorkerOK(q)'
    BY <1>1, <1>2 DEF vars, WorkerOK
  <2> QED BY <2>1, <2>2 DEF SafeInv
<1>3. CASE Expires
  <2>1. \A q \in Workers : WorkerOK(q)'
    BY <1>1, <1>3 DEF Expires, WorkerOK
  <2>2. Countable'
    BY <1>1, <1>3 DEF Expires, Countable
  <2>3. /\ unread' \in Nat \cup {Absent} /\ cached' \in [Kinds -> Nat \cup {Absent}]
        /\ late' \subseteq Keys \cup {"rank"}
        /\ score' \in Nat \cup {Absent} /\ rank' \in Nat \cup {Absent} /\ expires' \in BOOLEAN
    <3>1. CASE \E k \in Keys : Expire(k)
      BY <1>1, <3>1 DEF Expire, TypeOK, NoticesOK, post
    <3>2. CASE ExpireScore \/ ExpireRank
      BY <1>1, <3>2 DEF ExpireScore, ExpireRank, TypeOK, NoticesOK, store, history
    <3> QED BY <1>3, <3>1, <3>2 DEF Expires
  <2>4. TypeOK'
    BY <1>1, <1>3, <2>3 DEF Expires, TypeOK, NoticesOK
  <2> QED BY <2>1, <2>2, <2>4 DEF SafeInv
<1>4. ASSUME NEW p \in Workers, Arrives(p) PROVE SafeInv'
  <2>1. /\ pc' \in [Workers -> Control] /\ job' \in [Workers -> Job \cup {NoJob}]
        /\ \A q \in Workers : pc'[q] # "idle" => job'[q] \in Job
        /\ \A q \in Workers : WorkerOK(q)'
    <3>1. pc'[p] \in Control
      BY <1>4 DEF Arrives, Control
    <3> QED BY <1>1, <1>4, <3>1, WorkersTyped DEF Arrives
  <2>2. left' \in 0..Budget
    BY <1>1, <1>4, EngagementAssumption DEF Arrives, TypeOK
  <2>3. TypeOK' /\ Countable'
    BY <1>1, <1>4, <2>1, <2>2
       DEF Arrives, TypeOK, NoticesOK, Countable, data, post, table, store, history
  <2> QED BY <2>1, <2>3 DEF SafeInv
<1>5. ASSUME NEW p \in Workers, Serve(p) \/ Abort(p), Continues(p), Changes(p) PROVE SafeInv'
  <2>1. /\ pc' \in [Workers -> Control] /\ job' \in [Workers -> Job \cup {NoJob}]
        /\ \A q \in Workers : pc'[q] # "idle" => job'[q] \in Job
        /\ \A q \in Workers : WorkerOK(q)'
    BY <1>1, <1>5, WorkersTyped DEF Continues, Fits
  <2>2. rows' \in [Kinds -> SUBSET Row] /\ \A k \in Kinds : IsFiniteSet(rows'[k])
    BY <1>1, <1>5, RowsTyped DEF Changes, TypeOK, Countable
  <2>3. notices' \subseteq Notice /\ IsFiniteSet(notices')
    BY <1>1, <1>5, NoticesTyped DEF Changes, TypeOK, NoticesOK, Countable
  <2>4. left' \in 0..Budget
    BY <1>1, <1>5 DEF Continues, TypeOK
  <2>5. TypeOK'
    BY <1>5, <2>1, <2>2, <2>3, <2>4, DataTyped DEF TypeOK, NoticesOK
  <2>6. Countable'
    BY <2>2, <2>3 DEF Countable
  <2> QED BY <2>1, <2>5, <2>6 DEF SafeInv
<1> QED BY <1>2, <1>3, <1>4, <1>5, Steps

LEMMA SafeInit == Init => SafeInv
<1> SUFFICES ASSUME Init PROVE SafeInv
  OBVIOUS
<1>1. TypeOK
  <2>1. NoticesOK /\ rows \in [Kinds -> SUBSET Row]
    BY DEF Init, NoticesInit, NoticesOK
  <2>2. cached \in [Kinds -> Nat \cup {Absent}] /\ shown \subseteq Row
    BY DEF Init
  <2>3. pc \in [Workers -> Control] /\ \A p \in Workers : pc[p] = "idle"
    BY DEF Init, Control
  <2>4. job \in [Workers -> Job \cup {NoJob}]
    BY DEF Init
  <2>5. left \in 0..Budget
    BY EngagementAssumption DEF Init
  <2> QED BY <2>1, <2>2, <2>3, <2>4, <2>5 DEF Init, TypeOK
<1>2. Countable
  BY FS_EmptySet DEF Init, NoticesInit, Countable
<1>3. \A p \in Workers : WorkerOK(p)
  BY DEF Init, WorkerOK
<1> QED BY <1>1, <1>2, <1>3 DEF SafeInv

\* The invariant that the proofs below build on.
LEMMA Safety == Spec => []SafeInv
BY SafeInit, SafeStep, PTL DEF Spec

\* Rows, cached numbers, the ranking and the notifications keep their types, however the
\* requests and what expires interleave and whatever fails.
THEOREM TypeCorrect == Spec => []TypeOK
<1>1. SafeInv => TypeOK
  BY DEF SafeInv
<1> QED BY <1>1, Safety, PTL

\* The worker that takes a step is the only one that moves.
LEMMA OthersWait ==
  ASSUME TypeOK, NEW p \in Workers, Continues(p) \/ Arrives(p)
  PROVE  \A q \in Workers : q # p => pc'[q] = pc[q] /\ job'[q] = job[q]
BY DEF TypeOK, Continues, Arrives

----------------------------------------------------------------------------
(* One row per user.                                                       *)

LEMMA OneRowStep ==
  SafeInv /\ OneRowPerUser /\ [Next]_vars => OneRowPerUser'
<1> SUFFICES ASSUME SafeInv, OneRowPerUser, [Next]_vars PROVE OneRowPerUser'
  OBVIOUS
<1>1. CASE rows' = rows
  BY <1>1 DEF OneRowPerUser
<1>2. ASSUME NEW p \in Workers, Insert(p) \/ Save(p)
      PROVE  OneRowPerUser'
  <2> DEFINE j == job[p]
             r == [user |-> j.user, id |-> j.id]
  <2>1. TypeOK /\ WorkerOK(p)
    BY DEF SafeInv
  <2>2. \/ rows' = rows
        \/ /\ rows' = [rows EXCEPT ![j.key] = @ \cup {r}]
           /\ j.key \in Kinds
           /\ r \in rows[j.key] \/ ~DuplicateKey(j.key, j.user)
    BY <1>2, <2>1, InsertContinues, SaveContinues
  <2>3. CASE /\ rows' = [rows EXCEPT ![j.key] = @ \cup {r}] /\ j.key \in Kinds
             /\ r \in rows[j.key] \/ ~DuplicateKey(j.key, j.user)
    <3>1. r.user = j.user
      OBVIOUS
    <3> HIDE DEF r
    <3>2. \A k \in Kinds : rows'[k] = IF k = j.key THEN rows[k] \cup {r} ELSE rows[k]
      BY <2>1, <2>3 DEF TypeOK
    <3> SUFFICES ASSUME NEW k \in {"likes", "views"}, NEW s \in rows'[k], NEW t \in rows'[k],
                        s.user = t.user
                 PROVE  s = t
      BY DEF OneRowPerUser
    <3>3. k \in Kinds /\ k # "comments"
      BY DEF Kinds
    <3>4. CASE s \in rows[k] /\ t \in rows[k]
      BY <3>4 DEF OneRowPerUser
    <3>5. CASE k = j.key /\ r \notin rows[k]
      <4>1. \A x \in rows[k] : x.user # r.user
        BY <2>3, <3>1, <3>3, <3>5 DEF DuplicateKey
      <4>2. rows'[k] = rows[k] \cup {r}
        BY <3>2, <3>3, <3>5
      <4>3. (s \in rows[k] \/ s = r) /\ (t \in rows[k] \/ t = r)
        BY <4>2
      <4> QED BY <3>4, <4>1, <4>3
    <3>6. CASE k # j.key \/ r \in rows[k]
      <4>1. rows'[k] = rows[k]
        BY <3>2, <3>3, <3>6
      <4> QED BY <3>4, <4>1
    <3> QED BY <3>5, <3>6
  <2> QED BY <1>1, <2>2, <2>3
<1>3. ASSUME NEW p \in Workers, Remove(p)
      PROVE  OneRowPerUser'
  <2>1. TypeOK /\ rows' = [rows EXCEPT ![job[p].key] = {r \in @ : r.id # job[p].id}]
    BY <1>3 DEF SafeInv, Remove
  <2>2. \A k \in {"likes", "views"} : rows'[k] \subseteq rows[k]
    BY <2>1 DEF TypeOK, Kinds
  <2> QED BY <2>2 DEF OneRowPerUser
<1>4. ASSUME NEW p \in Workers, Changes(p) PROVE OneRowPerUser'
  BY <1>1, <1>2, <1>3, <1>4 DEF Changes
<1> QED BY <1>1, <1>4, Steps DEF vars, Expires, Arrives, data, table

\* However many requests look for a user's like or view and then make one, and whatever is
\* saved again after a deletion, the indexes of the table leave one row per user.
THEOREM OneLikeAndView == Spec => []OneRowPerUser
<1>1. Init => OneRowPerUser
  BY DEF Init, OneRowPerUser, Kinds
<1> QED BY <1>1, OneRowStep, Safety, PTL DEF Spec

----------------------------------------------------------------------------
(* One notification of the likes of a user.                                *)

\* A notification that is marked stays the same otherwise.
LEMMA MarkKeeps ==
  ASSUME TypeOK, NEW p \in Workers, MarkNotices(p) \/ DeleteNotice(p)
  PROVE  /\ \A n \in notices' : \E m \in notices :
              m.id = n.id /\ m.kind = n.kind /\ m.sender = n.sender
         /\ \A u : AlreadySent(u)' => AlreadySent(u)
         /\ (\A m, n \in notices :
               m.kind = "liked" /\ n.kind = "liked" /\ m.sender = n.sender => m = n) =>
             (\A m, n \in notices' :
               m.kind = "liked" /\ n.kind = "liked" /\ m.sender = n.sender => m = n)
<1>1. notices \subseteq Notice
  BY DEF TypeOK, NoticesOK
<1>2. CASE DeleteNotice(p)
  <2>1. notices' \subseteq notices
    BY <1>2 DEF DeleteNotice, Dismiss
  <2> QED BY <2>1 DEF AlreadySent
<1>3. CASE MarkNotices(p)
  <2> DEFINE ids == IF job[p].op = "readall" THEN {n.id : n \in notices} ELSE {job[p].id}
             Marked(n) == [n EXCEPT !.read = n.read \/ n.id \in ids]
  <2>1. notices' = {Marked(n) : n \in notices}
    BY <1>3 DEF MarkNotices, MarkRead
  <2>2. \A n \in notices : /\ Marked(n).id = n.id /\ Marked(n).kind = n.kind
                           /\ Marked(n).sender = n.sender
    BY <1>1 DEF Notice
  <2> HIDE DEF Marked
  <2> QED BY <2>1, <2>2 DEF AlreadySent
<1> QED BY <1>2, <1>3

LEMMA LikesNotifiedStep ==
  SafeInv /\ LikesNotifiedOnce /\ [Next]_vars => LikesNotifiedOnce'
<1> SUFFICES ASSUME SafeInv, LikesNotifiedOnce, [Next]_vars, ~doubled'
             PROVE  LikesNotifiedOnce'
  BY DEF LikesNotifiedOnce
<1>1. TypeOK /\ \A p \in Workers : WorkerOK(p)
  BY DEF SafeInv
<1>2. CASE UNCHANGED vars \/ Expires
  <2>1. UNCHANGED <<notices, pc, job, doubled>>
    BY <1>2 DEF vars, Expires
  <2> QED BY <2>1 DEF LikesNotifiedOnce, NotifiesLike, AlreadySent
<1>3. ASSUME NEW p \in Workers, Arrives(p) PROVE LikesNotifiedOnce'
  <2>1. notices' = notices /\ doubled' = doubled /\ pc'[p] # "notify"
    BY <1>3 DEF Arrives, data, store, history
  <2>2. \A q \in Workers : NotifiesLike(q)' => /\ NotifiesLike(q)
                                              /\ job'[q] = job[q]
    BY <1>1, <1>3, <2>1, OthersWait DEF NotifiesLike
  <2> QED BY <2>1, <2>2 DEF LikesNotifiedOnce, AlreadySent
<1>4. ASSUME NEW p \in Workers, Serve(p) \/ Abort(p), Continues(p), Changes(p), pc[p] # "idle"
      PROVE  LikesNotifiedOnce'
  <2>1. ~doubled
    BY <1>4 DEF Changes, FindNotice
  <2>2. \A q \in Workers : q # p => pc'[q] = pc[q] /\ job'[q] = job[q]
    BY <1>1, <1>4, OthersWait
  <2>3. CASE FindNotice(p)
    <3>1. notices' = notices
      BY <2>3 DEF FindNotice, data, store
    <3>2. PICK sent \in {AlreadySent(job[p].user)} \cup (IF Faults THEN {FALSE} ELSE {}) :
            /\ GoTo(p, job[p], IF sent THEN "idle" ELSE "notify")
            /\ doubled' = \/ doubled
                          \/ sent # AlreadySent(job[p].user)
                          \/ \E q \in Workers : /\ pc[q] = "notify"
                                                /\ job[q].key # "comments"
                                                /\ job[q].user = job[p].user
      BY <2>3 DEF FindNotice
    <3>3. /\ sent = AlreadySent(job[p].user)
          /\ \A q \in Workers : NotifiesLike(q) => job[q].user # job[p].user
      BY <3>2 DEF NotifiesLike
    <3>4. NotifiesLike(p)' => ~AlreadySent(job[p].user) /\ job'[p] = job[p]
      BY <1>1, <3>2, <3>3 DEF GoTo, TypeOK, NotifiesLike
    <3>5. \A q \in Workers : q # p /\ NotifiesLike(q)' => NotifiesLike(q) /\ job'[q] = job[q]
      BY <2>2 DEF NotifiesLike
    <3> QED BY <2>1, <3>1, <3>3, <3>4, <3>5 DEF LikesNotifiedOnce, AlreadySent
  <2>4. CASE ~FindNotice(p)
    <3>1. ~NotifiesLike(p)'
      <4>1. SUFFICES ASSUME pc'[p] = "notify", job'[p].key # "comments" PROVE FALSE
        BY DEF NotifiesLike
      <4>2. pc[p] = "sent" /\ ~Abort(p)
        BY <1>1, <1>4, <4>1, AbortContinues DEF Continues, Fits
      <4> QED BY <1>4, <2>4, <4>2, ServedAt
    <3>2. \A q \in Workers : NotifiesLike(q)' => q # p /\ NotifiesLike(q) /\ job'[q] = job[q]
      BY <2>2, <3>1 DEF NotifiesLike
    <3>3. CASE notices' = notices
      BY <2>1, <3>2, <3>3 DEF LikesNotifiedOnce, AlreadySent
    <3>4. CASE MarkNotices(p) \/ DeleteNotice(p)
      BY <1>1, <2>1, <3>2, <3>4, MarkKeeps DEF LikesNotifiedOnce
    <3>5. CASE CreateNotice(p)
      <4> DEFINE n == [id |-> job[p].id,
                       kind |-> IF job[p].key = "comments" THEN "commented" ELSE "liked",
                       sender |-> job[p].user, read |-> FALSE]
      <4>1. notices' = notices \cup {n} /\ pc[p] = "notify"
        BY <3>5 DEF CreateNotice, Create
      <4>2. n.sender = job[p].user /\ (n.kind = "liked" => NotifiesLike(p))
        BY <4>1 DEF NotifiesLike
      <4> HIDE DEF n
      <4>3. \A m \in notices' : m \in notices \/ m = n
        BY <4>1
      <4>4. \A m \in notices : m.kind = "liked" /\ n.kind = "liked" => m.sender # n.sender
        BY <2>1, <4>2 DEF LikesNotifiedOnce, AlreadySent
      <4>5. \A q \in Workers : NotifiesLike(q)' =>
              \A m \in notices' : ~(m.kind = "liked" /\ m.sender = job'[q].user)
        <5> SUFFICES ASSUME NEW q \in Workers, NotifiesLike(q)', NEW m \in notices',
                            m.kind = "liked", m.sender = job'[q].user
                     PROVE  FALSE
          OBVIOUS
        <5>1. q # p /\ NotifiesLike(q) /\ job'[q] = job[q]
          BY <3>2
        <5>2. CASE m \in notices
          BY <2>1, <5>1, <5>2 DEF LikesNotifiedOnce, AlreadySent
        <5>3. CASE m = n
          BY <2>1, <4>2, <5>1, <5>3 DEF LikesNotifiedOnce
        <5> QED BY <4>3, <5>2, <5>3
      <4>6. \A m, o \in notices' :
              m.kind = "liked" /\ o.kind = "liked" /\ m.sender = o.sender => m = o
        BY <2>1, <4>3, <4>4 DEF LikesNotifiedOnce
      <4>7. \A q, o \in Workers :
              NotifiesLike(q)' /\ NotifiesLike(o)' /\ job'[q].user = job'[o].user => q = o
        BY <2>1, <3>2 DEF LikesNotifiedOnce
      <4> QED BY <4>5, <4>6, <4>7 DEF LikesNotifiedOnce, AlreadySent
    <3> QED BY <1>4, <3>3, <3>4, <3>5 DEF Changes
  <2> QED BY <2>3, <2>4
<1> QED BY <1>2, <1>3, <1>4, Steps

\* Whoever likes, takes the like back and likes again is notified of once, unless a second
\* like was looked for while the first was about to be notified of.
THEOREM OneNoticePerLiker == Spec => []LikedOnce
<1>1. Init => LikesNotifiedOnce
  BY DEF Init, NoticesInit, LikesNotifiedOnce, NotifiesLike
<1>2. LikesNotifiedOnce => LikedOnce
  BY DEF LikesNotifiedOnce, LikedOnce
<1> QED BY <1>1, <1>2, LikesNotifiedStep, Safety, PTL DEF Spec

----------------------------------------------------------------------------
(* Cached numbers.                                                         *)

\* Key k, once stale, is so until it is deleted, filled or expires.
LEMMA StaysLate ==
  ASSUME SafeInv, NEW p \in Workers, Serve(p) \/ Abort(p), Changes(p), NEW k \in Keys,
         k \in late, k \notin late'
  PROVE  \/ (Clear(p) \/ Fill(p)) /\ job[p].key = k
         \/ ClearUnread(p) /\ k = "unread"
<1>1. k # "rank"
  BY DEF Keys, Kinds
<1>2. ~Save(p) /\ ~RemovePost(p) /\ ~Unrank(p) /\ ~Abort(p)
  BY DEF Save, RemovePost, Unrank, Abort
<1>3. ~StoreScore(p)
  BY <1>1 DEF StoreScore
<1> QED BY <1>2, <1>3 DEF Changes, Clear, Fill, ClearUnread, Stale

\* A worker that has still to delete a key keeps it pending when another one moves.
LEMMA PendingStays ==
  ASSUME TypeOK, NEW p \in Workers, Continues(p) \/ Arrives(p), NEW c, NEW K,
         pc[p] # c \/ job[p].key \notin K, Pending({c}, K)
  PROVE  Pending({c}, K)'
<1>1. PICK q \in Workers : pc[q] \in {c} /\ job[q].key \in K
  BY DEF Pending
<1>2. q # p
  BY <1>1
<1>3. pc'[q] = pc[q] /\ job'[q] = job[q]
  BY <1>2, OthersWait
<1> QED BY <1>1, <1>3 DEF Pending

\* A cached number of rows is right, stale, or about to be deleted.
KindFollows(k) ==
  cached[k] # Absent /\ k \notin late => cached[k] = Number(k) \/ Pending({"clear"}, {k})

LEMMA KindStep ==
  ASSUME SafeInv, NEW k \in Kinds, KindFollows(k), NEW p \in Workers, Serve(p) \/ Abort(p),
         Continues(p), Changes(p), cached'[k] # Absent, k \notin late'
  PROVE  cached'[k] = Number(k)' \/ Pending({"clear"}, {k})'
<1>1. TypeOK /\ WorkerOK(p) /\ k \in Keys /\ k # "unread"
  BY DEF SafeInv, Keys, Kinds
<1> DEFINE j == job[p]
<1>2. rows'[k] = rows[k] => Number(k)' = Number(k)
  BY <1>1 DEF Number
<1>3. CASE Clear(p) /\ j.key = k
  <2>1. PICK done \in BOOLEAN :
          /\ cached' = IF done /\ Cleared(j) THEN [cached EXCEPT ![k] = Absent] ELSE cached
          /\ Stale(k, ~done /\ cached[k] # Absent)
    BY <1>3 DEF Clear
  <2>2. cached' = cached /\ ~done
    BY <1>1, <2>1 DEF TypeOK, Cleared
  <2>3. k \in late'
    BY <2>1, <2>2 DEF Stale
  <2> QED BY <2>3
<1>4. CASE Fill(p) /\ j.key = k
  <2>1. cached' = [cached EXCEPT ![k] = j.sum] /\ Stale(k, j.sum # Number(k)) /\ rows' = rows
    BY <1>1, <1>4 DEF Fill, table
  <2>2. j.sum = Number(k)
    BY <2>1 DEF Stale
  <2> QED BY <1>1, <1>2, <2>1, <2>2 DEF TypeOK
<1>5. CASE (Insert(p) \/ Save(p) \/ Remove(p)) /\ j.key = k /\ pc'[p] = "clear"
  <2>1. job'[p] = j
    BY <1>1, <1>5, InsertContinues, SaveContinues, RemoveContinues
  <2> QED BY <1>5, <2>1 DEF Pending
<1>6. CASE /\ ~((Clear(p) \/ Fill(p)) /\ j.key = k)
           /\ ~((Insert(p) \/ Save(p) \/ Remove(p)) /\ j.key = k /\ pc'[p] = "clear")
  <2>1. cached'[k] = cached[k]
    <3>1. CASE Clear(p)
      BY <1>1, <1>6, <3>1 DEF Clear, TypeOK
    <3>2. CASE Fill(p)
      BY <1>1, <1>6, <3>2 DEF Fill, TypeOK
    <3> QED BY <3>1, <3>2 DEF Changes
  <2>2. rows'[k] = rows[k]
    <3>1. CASE Insert(p) \/ Save(p)
      <4> DEFINE r == [user |-> j.user, id |-> j.id]
      <4>1. rows' = rows \/ (pc'[p] = "clear" /\ rows' = [rows EXCEPT ![j.key] = @ \cup {r}])
        BY <1>1, <3>1, InsertContinues, SaveContinues
      <4> HIDE DEF r
      <4> QED BY <1>1, <1>6, <3>1, <4>1 DEF TypeOK
    <3>2. CASE Remove(p)
      <4>1. j.key # k
        BY <1>1, <1>6, <3>2, RemoveContinues
      <4> QED BY <1>1, <3>2, <4>1 DEF Remove, TypeOK
    <3> QED BY <3>1, <3>2 DEF Changes
  <2>3. k \notin late
    BY <1>1, <1>6, StaysLate
  <2>4. pc[p] # "clear" \/ j.key \notin {k}
    <3>1. SUFFICES ASSUME pc[p] = "clear", j.key = k PROVE FALSE
      OBVIOUS
    <3>2. Clear(p) \/ Abort(p)
      BY <3>1, ServedAt
    <3>3. Abort(p)
      BY <1>6, <3>1, <3>2
    <3>4. k \in Owed(p) /\ Holds(k)
      BY <1>1, <2>1, <3>1 DEF Owed, Holds, InCache, Kinds
    <3> QED BY <3>3, <3>4 DEF Abort
  <2> QED BY <1>1, <1>2, <2>1, <2>2, <2>3, <2>4, PendingStays DEF KindFollows
<1> QED BY <1>3, <1>4, <1>5, <1>6

\* So is the cached number of unread notifications.
UnreadFollows ==
  unread # Absent /\ "unread" \notin late => unread = Unread \/ Pending({"clearunread"}, Keys)

LEMMA UnreadStep ==
  ASSUME SafeInv, UnreadFollows, NEW p \in Workers, Serve(p) \/ Abort(p),
         Continues(p), Changes(p), unread' # Absent, "unread" \notin late'
  PROVE  unread' = Unread' \/ Pending({"clearunread"}, Keys)'
<1>1. TypeOK /\ WorkerOK(p) /\ "unread" \in Keys /\ "unread" \notin Kinds
  BY DEF SafeInv, Keys, Kinds
<1> DEFINE j == job[p]
<1>2. notices' = notices => Unread' = Unread
  BY DEF Unread
<1>3. CASE ClearUnread(p)
  <2>1. PICK done \in BOOLEAN : /\ unread' = IF done THEN Absent ELSE unread
                                /\ Stale("unread", ~done /\ unread # Absent)
    BY <1>3 DEF ClearUnread
  <2> QED BY <2>1 DEF Stale
<1>4. CASE Fill(p) /\ j.key = "unread"
  <2>1. unread' = j.sum /\ Stale("unread", j.sum # Number("unread")) /\ notices' = notices
    BY <1>4 DEF Fill
  <2>2. j.sum = Unread
    BY <2>1 DEF Stale, Number
  <2> QED BY <1>2, <2>1, <2>2
<1>5. CASE pc'[p] = "clearunread"
  <2>1. job'[p].key \in Keys
    BY <1>5 DEF Continues, Job
  <2> QED BY <1>5, <2>1 DEF Pending
<1>6. CASE /\ ~ClearUnread(p)
           /\ ~(Fill(p) /\ j.key = "unread")
           /\ pc'[p] # "clearunread"
  <2>1. unread' = unread
    BY <1>6 DEF Changes, Fill
  <2>2. notices' = notices
    BY <1>1, <1>6, NoticeContinues DEF Changes
  <2>3. "unread" \notin late
    <3>1. Clear(p) => j.key # "unread"
      BY <1>1, ClearContinues
    <3> QED BY <1>1, <1>6, <3>1, StaysLate
  <2>4. pc[p] # "clearunread"
    <3>1. SUFFICES ASSUME pc[p] = "clearunread" PROVE FALSE
      OBVIOUS
    <3>2. ClearUnread(p) \/ Abort(p)
      BY <3>1, ServedAt
    <3>3. "unread" \in Owed(p) /\ Holds("unread")
      BY <2>1, <3>1 DEF Owed, Holds, InCache, Kinds
    <3> QED BY <1>6, <3>2, <3>3 DEF Abort
  <2> QED BY <1>1, <1>2, <2>1, <2>2, <2>3, <2>4, PendingStays DEF UnreadFollows
<1> QED BY <1>3, <1>4, <1>5, <1>6

LEMMA NumbersStep ==
  SafeInv /\ NumbersFollowRows /\ [Next]_vars => NumbersFollowRows'
<1> SUFFICES ASSUME SafeInv, NumbersFollowRows, [Next]_vars PROVE NumbersFollowRows'
  OBVIOUS
<1>1. TypeOK /\ UnreadFollows /\ \A k \in Kinds : KindFollows(k)
  BY DEF SafeInv, NumbersFollowRows, UnreadFollows, KindFollows
<1> SUFFICES UnreadFollows' /\ \A k \in Kinds : KindFollows(k)'
  BY DEF NumbersFollowRows, UnreadFollows, KindFollows
<1>2. CASE UNCHANGED vars
  BY <1>1, <1>2 DEF vars, UnreadFollows, KindFollows, Number, Unread, Pending
<1>3. CASE Expires
  <2>1. UNCHANGED <<rows, notices, pc, job>>
    BY <1>3 DEF Expires
  <2>2. ASSUME NEW k \in Keys, Expire(k) PROVE UnreadFollows' /\ \A l \in Kinds : KindFollows(l)'
    <3>1. late' = late \ {k}
      BY <2>2 DEF Expire
    <3>2. CASE k = "unread"
      <4>1. unread' = Absent /\ cached' = cached
        BY <2>2, <3>2 DEF Expire
      <4>2. "unread" \notin Kinds
        BY DEF Kinds
      <4> QED BY <1>1, <2>1, <3>1, <3>2, <4>1, <4>2 DEF UnreadFollows, KindFollows, Number, Unread, Pending
    <3>3. CASE k # "unread"
      <4>1. unread' = unread /\ cached' = [cached EXCEPT ![k] = Absent] /\ k \in Kinds
        BY <2>2, <3>3 DEF Expire, Keys
      <4>2. cached'[k] = Absent /\ \A l \in Kinds : l # k => cached'[l] = cached[l]
        BY <1>1, <4>1 DEF TypeOK
      <4> QED BY <1>1, <2>1, <3>1, <3>3, <4>1, <4>2 DEF UnreadFollows, KindFollows, Number, Unread, Pending
    <3> QED BY <3>2, <3>3
  <2>3. CASE ExpireScore \/ ExpireRank
    <3>1. UNCHANGED <<unread, cached, late>>
      BY <2>3 DEF ExpireScore, ExpireRank, store, history
    <3> QED BY <1>1, <2>1, <3>1 DEF UnreadFollows, KindFollows, Number, Unread, Pending
  <2> QED BY <1>3, <2>2, <2>3 DEF Expires
<1>4. ASSUME NEW p \in Workers, Arrives(p)
      PROVE  UnreadFollows' /\ \A k \in Kinds : KindFollows(k)'
  <2>1. UNCHANGED <<rows, notices, unread, cached, late>> /\ pc[p] = "idle"
    BY <1>4 DEF Arrives, data, table, store, history
  <2>2. Pending({"clearunread"}, Keys) => Pending({"clearunread"}, Keys)'
    BY <1>1, <1>4, <2>1, PendingStays
  <2>3. \A k \in Kinds : Pending({"clear"}, {k}) => Pending({"clear"}, {k})'
    BY <1>1, <1>4, <2>1, PendingStays
  <2> QED BY <1>1, <2>1, <2>2, <2>3 DEF UnreadFollows, KindFollows, Number, Unread
<1>5. ASSUME NEW p \in Workers, Serve(p) \/ Abort(p), Continues(p), Changes(p)
      PROVE  UnreadFollows' /\ \A k \in Kinds : KindFollows(k)'
  <2>1. UnreadFollows'
    BY <1>1, <1>5, UnreadStep DEF UnreadFollows
  <2>2. ASSUME NEW k \in Kinds PROVE KindFollows(k)'
    BY <1>1, <1>5, KindStep DEF KindFollows
  <2> QED BY <2>1, <2>2
<1> QED BY <1>2, <1>3, <1>4, <1>5, Steps

\* Whoever writes between the statements of whom, a cached number of likes, comments, views
\* or unread notifications is that of the rows, is about to be deleted, was counted
\* before a write it was stored after, or outlived a lost command.
THEOREM NumbersAreTrue == Spec => []NumbersFollowRows
<1>1. Init => NumbersFollowRows
  BY DEF Init, NoticesInit, NumbersFollowRows
<1> QED BY <1>1, NumbersStep, Safety, PTL DEF Spec

----------------------------------------------------------------------------
(* Deleted rows.                                                           *)

\* The numbers in the tables after a step were there before or are that of the request.
LEMMA NumbersStay ==
  ASSUME SafeInv, NEW p \in Workers, Serve(p) \/ Abort(p), Changes(p)
  PROVE  /\ \A k \in Kinds : \A r \in Seen(k)' :
              (\E s \in Seen(k) : s.id = r.id) \/ (job[p].key = k /\ r.id = job[p].id)
         /\ \A n \in notices' : (\E m \in notices : m.id = n.id) \/ n.id = job[p].id
         /\ \A i \in gone' : i \in gone \/ i = job[p].id
<1>1. TypeOK /\ WorkerOK(p)
  BY DEF SafeInv
<1> DEFINE j == job[p]
           r0 == [user |-> j.user, id |-> j.id]
<1>2. ASSUME NEW k \in Kinds, NEW r \in rows'[k]
      PROVE  r \in rows[k] \/ (j.key = k /\ r.id = j.id)
  <2>1. CASE Insert(p) \/ Save(p)
    <3>1. rows' = rows \/ rows' = [rows EXCEPT ![j.key] = @ \cup {r0}]
      BY <1>1, <2>1, InsertContinues, SaveContinues
    <3>2. r0.id = j.id
      OBVIOUS
    <3> HIDE DEF r0
    <3> QED BY <1>1, <1>2, <3>1, <3>2 DEF TypeOK
  <2>2. CASE Remove(p)
    <3>1. rows' = [rows EXCEPT ![j.key] = {s \in @ : s.id # j.id}]
      BY <2>2 DEF Remove
    <3> QED BY <1>1, <1>2, <3>1 DEF TypeOK
  <2> QED BY <1>2, <2>1, <2>2 DEF Changes
<1>3. ASSUME NEW r \in shown'
      PROVE  r \in shown \/ (j.key = "comments" /\ r.id = j.id)
  <2>1. CASE ShowComment(p)
    <3>1. shown' = shown \cup {r0}
      BY <2>1 DEF ShowComment
    <3>2. j.key = "comments"
      BY <1>1, <2>1, WorkerFacts DEF ShowComment, Reaches, HasKey
    <3> QED BY <1>3, <3>1, <3>2
  <2>2. CASE Clear(p)
    BY <1>3, <2>2 DEF Clear
  <2> QED BY <1>3, <2>1, <2>2 DEF Changes
<1>4. ASSUME NEW n \in notices' PROVE (\E m \in notices : m.id = n.id) \/ n.id = j.id
  <2>1. CASE MarkNotices(p) \/ DeleteNotice(p)
    BY <1>1, <1>4, <2>1, MarkKeeps
  <2>2. CASE CreateNotice(p)
    BY <1>4, <2>2 DEF CreateNotice, Create
  <2> QED BY <1>4, <2>1, <2>2 DEF Changes
<1>5. \A i \in gone' : i \in gone \/ i = j.id
  BY DEF Changes, Remove
<1>6. ASSUME NEW k \in Kinds, NEW r \in Seen(k)'
      PROVE  (\E s \in Seen(k) : s.id = r.id) \/ (j.key = k /\ r.id = j.id)
  <2>1. r \in rows'[k] \/ (k = "comments" /\ r \in shown')
    BY <1>6 DEF Seen
  <2> QED BY <1>2, <1>3, <2>1 DEF Seen
<1> QED BY <1>4, <1>5, <1>6

\* A request that has still to make its row leaves the tables alone.
LEMMA MakersOnlyRead ==
  ASSUME SafeInv, NEW p \in Workers, Serve(p) \/ Abort(p), Continues(p), Changes(p), Makes(p)'
  PROVE  /\ Makes(p) /\ job'[p].id = job[p].id
         /\ UNCHANGED <<rows, shown, notices, gone>>
<1>1. TypeOK /\ WorkerOK(p) /\ pc[p] # "idle"
  BY ServeContinues DEF SafeInv
<1>2. Makes(p) /\ job'[p].id = job[p].id /\ pc'[p] \notin {"idle", "clear"}
  BY <1>1 DEF Continues, Makes, Fits, MakesAt
<1>3. pc[p] \in {"check", "find", "again", "insert"}
  BY <1>2 DEF Makes, MakesAt
<1>4. Insert(p) => rows' = rows
  BY <1>1, <1>2, InsertContinues
<1> QED BY <1>2, <1>3, <1>4
        DEF Changes, Save, Remove, ShowComment, Clear, CreateNotice, MarkNotices, DeleteNotice

\* What a request that goes on is about was known before.
LEMMA UsedStays ==
  ASSUME SafeInv, NEW p \in Workers, Serve(p) \/ Abort(p), Continues(p), Changes(p),
         NEW k \in Kinds, NEW i, UsedFor(k, i)'
  PROVE  UsedFor(k, i)
<1>1. TypeOK /\ pc[p] # "idle"
  BY ServeContinues DEF SafeInv
<1>2. CASE \E r \in Seen(k)' : r.id = i
  BY <1>1, <1>2, NumbersStay DEF UsedFor
<1>3. ASSUME NEW q \in Workers, pc'[q] # "idle", job'[q].key = k, job'[q].id = i
      PROVE  UsedFor(k, i)
  <2>1. CASE q # p
    BY <1>1, <1>3, <2>1, OthersWait DEF UsedFor
  <2>2. CASE q = p
    BY <1>1, <1>3, <2>2 DEF Continues, Fits, UsedFor
  <2> QED BY <2>1, <2>2
<1> QED BY <1>2, <1>3 DEF UsedFor

LEMMA NewNumbersStep ==
  SafeInv /\ NumbersAreNew /\ [Next]_vars => NumbersAreNew'
<1> SUFFICES ASSUME SafeInv, NumbersAreNew, [Next]_vars PROVE NumbersAreNew'
  OBVIOUS
<1>1. /\ TypeOK /\ \A p \in Workers : WorkerOK(p)
      /\ left \in Nat /\ \A p \in Workers : pc[p] # "idle" => job[p].id \in Nat
  BY EngagementAssumption, WorkerFacts DEF SafeInv, TypeOK
<1>2. CASE UNCHANGED vars \/ Expires
  <2>1. UNCHANGED <<rows, shown, notices, pc, job, left, gone>>
    BY <1>2 DEF vars, Expires
  <2> QED BY <2>1 DEF NumbersAreNew, Seen, UsedFor, KnownBeside, Makes
<1>3. ASSUME NEW p \in Workers, Arrives(p) PROVE NumbersAreNew'
  <2>1. /\ UNCHANGED <<rows, shown, notices, gone>> /\ left' = left - 1 /\ pc[p] = "idle"
        /\ \A k \in Kinds : Seen(k)' = Seen(k)
    BY <1>3 DEF Arrives, data, table, store, history, Seen
  <2>2. \A q \in Workers : q # p => pc'[q] = pc[q] /\ job'[q] = job[q]
    BY <1>1, <1>3, OthersWait
  <2>3. /\ job'[p].id \in Nat /\ pc'[p] # "idle"
        /\ job'[p].id = left \/ (job'[p].key = "unread" /\ \E n \in notices : n.id = job'[p].id)
    BY <1>3 DEF Arrives, Job
  <2>4. \A k \in {"likes", "comments"} : ~UsedFor(k, left)
    BY <1>1 DEF NumbersAreNew, UsedFor, Kinds
  <2>5. ASSUME NEW i PROVE ~(UsedFor("likes", i)' /\ UsedFor("comments", i)')
    <3>1. ASSUME NEW k \in {"likes", "comments"}, UsedFor(k, i)'
          PROVE  UsedFor(k, i) \/ (i = left /\ job'[p].key = k)
      <4>1. CASE \E r \in Seen(k)' : r.id = i
        BY <2>1, <4>1 DEF UsedFor, Kinds
      <4>2. ASSUME NEW q \in Workers, pc'[q] # "idle", job'[q].key = k, job'[q].id = i
            PROVE  UsedFor(k, i) \/ (i = left /\ job'[p].key = k)
        BY <2>2, <2>3, <4>2 DEF UsedFor
      <4> QED BY <3>1, <4>1, <4>2 DEF UsedFor
    <3> QED BY <2>4, <3>1 DEF NumbersAreNew
  <2>6. ASSUME NEW m \in Workers, Makes(m)', KnownBeside(m, job[m].id)' PROVE FALSE
    <3>1. CASE m = p
      <4>1. job'[p].id = left
        BY <1>3, <2>3, <2>6, <3>1 DEF Arrives, Makes, MakesAt, HasKey
      <4>2. /\ \A n \in notices : n.id # left
            /\ \A k \in Kinds : \A r \in Seen(k) : r.id # left
            /\ left \notin gone
            /\ \A q \in Workers : pc[q] # "idle" => job[q].id # left
        BY <1>1 DEF NumbersAreNew
      <4> QED BY <2>1, <2>2, <2>6, <3>1, <4>1, <4>2 DEF KnownBeside
    <3>2. CASE m # p
      <4>1. Makes(m) /\ job'[m] = job[m] /\ job[m].id > left
        BY <2>2, <2>6, <3>2 DEF Makes, NumbersAreNew
      <4>2. KnownBeside(m, job[m].id)
        <5>1. CASE \E q \in Workers : q # m /\ pc'[q] # "idle" /\ job'[q].id = job[m].id
          <6>1. PICK q \in Workers : q # m /\ pc'[q] # "idle" /\ job'[q].id = job[m].id
            BY <5>1
          <6> QED BY <1>1, <2>2, <2>3, <4>1, <6>1 DEF KnownBeside
        <5> QED BY <2>1, <2>6, <4>1, <5>1 DEF KnownBeside
      <4> QED BY <4>1, <4>2 DEF NumbersAreNew
    <3> QED BY <3>1, <3>2
  <2>7. \A q \in Workers : pc'[q] # "idle" => job'[q].id > left'
    <3>1. \A n \in notices : n.id \in Nat
      BY <1>1 DEF TypeOK, NoticesOK, Notice
    <3> QED BY <1>1, <2>1, <2>2, <2>3, <3>1 DEF NumbersAreNew
  <2>8. /\ \A i \in gone' : i > left'
        /\ \A n \in notices' : n.id > left'
        /\ \A k \in Kinds : \A r \in Seen(k)' : r.id > left'
    <3>1. /\ \A i \in gone : i \in Nat
          /\ \A n \in notices : n.id \in Nat
          /\ \A k \in Kinds : \A r \in Seen(k) : r.id \in Nat
      BY <1>1, SeenRows DEF TypeOK, NoticesOK, Notice
    <3> QED BY <1>1, <2>1, <3>1 DEF NumbersAreNew
  <2> QED BY <2>5, <2>6, <2>7, <2>8 DEF NumbersAreNew
<1>4. ASSUME NEW p \in Workers, Serve(p) \/ Abort(p), Continues(p), Changes(p), pc[p] # "idle"
      PROVE  NumbersAreNew'
  <2>1. \A q \in Workers : q # p => pc'[q] = pc[q] /\ job'[q] = job[q]
    BY <1>1, <1>4, OthersWait
  <2>2. job[p].id > left /\ left' = left
    BY <1>4 DEF NumbersAreNew, Continues
  <2>3. pc'[p] # "idle" =>
          job'[p].id = job[p].id \/ \E k \in Kinds : \E r \in Seen(k) : r.id = job'[p].id
    BY <1>4 DEF Continues, Fits
  <2>4. /\ \A i \in gone' : i > left'
        /\ \A n \in notices' : n.id > left'
        /\ \A k \in Kinds : \A r \in Seen(k)' : r.id > left'
    BY <1>4, <2>2, NumbersStay DEF NumbersAreNew
  <2>5. \A q \in Workers : pc'[q] # "idle" => job'[q].id > left'
    BY <2>1, <2>2, <2>3 DEF NumbersAreNew
  <2>6. \A i : ~(UsedFor("likes", i)' /\ UsedFor("comments", i)')
    BY <1>4, UsedStays DEF NumbersAreNew, Kinds
  <2>7. ASSUME NEW m \in Workers, Makes(m)', KnownBeside(m, job[m].id)' PROVE FALSE
    <3>1. Makes(m) /\ job'[m].id = job[m].id
      BY <1>4, <2>1, <2>7, MakersOnlyRead DEF Makes
    <3>2. CASE m = p
      <4>1. UNCHANGED <<rows, shown, notices, gone>>
        BY <1>4, <2>7, <3>2, MakersOnlyRead
      <4>2. KnownBeside(p, job[p].id)
        BY <2>1, <2>7, <3>1, <3>2, <4>1 DEF KnownBeside, Seen
      <4> QED BY <3>1, <3>2, <4>2 DEF NumbersAreNew
    <3>3. CASE m # p
      <4> DEFINE i == job[m].id
      <4>1. i # job[p].id
        BY <1>4, <3>1, <3>3 DEF NumbersAreNew, KnownBeside
      <4>2. /\ i \in gone' => i \in gone
            /\ (\E n \in notices' : n.id = i) => \E n \in notices : n.id = i
            /\ \A k \in Kinds : (\E r \in Seen(k)' : r.id = i) => \E r \in Seen(k) : r.id = i
        BY <1>4, <4>1, NumbersStay
      <4>3. \A q \in Workers : q # m /\ pc'[q] # "idle" /\ job'[q].id = i => KnownBeside(m, i)
        BY <2>1, <2>3, <4>1 DEF KnownBeside
      <4>4. KnownBeside(m, i)
        <5>1. /\ \/ i \in gone'
                 \/ \E n \in notices' : n.id = i
                 \/ \E k \in Kinds : \E r \in Seen(k)' : r.id = i
                 \/ \E q \in Workers : q # m /\ pc'[q] # "idle" /\ job'[q].id = i
          BY <2>7, <3>1 DEF KnownBeside
        <5> QED BY <4>2, <4>3, <5>1 DEF KnownBeside
      <4> QED BY <3>1, <4>4 DEF NumbersAreNew
    <3> QED BY <3>2, <3>3
  <2> QED BY <2>4, <2>5, <2>6, <2>7 DEF NumbersAreNew
<1> QED BY <1>2, <1>3, <1>4, Steps

\* Only a command or a deletion in the wrong place races, and that is not forgotten.
LEMMA RacedStays ==
  ASSUME NEW p \in Workers, Changes(p), ~raced'
  PROVE  ~raced
BY DEF Changes, FindComment, Remove, Clear, Abort

\* What is about to be saved or cached was not deleted.
LEMMA SavedNotDeleted ==
  ASSUME SafeInv, DeletionsHold, NEW p \in Workers, Serve(p) \/ Abort(p), Continues(p),
         Changes(p), ~raced', NEW q \in Workers, pc'[q] \in {"save", "show"}
  PROVE  job'[q].id \notin gone'
<1>1. TypeOK /\ WorkerOK(p) /\ ~raced
  BY RacedStays DEF SafeInv
<1>2. CASE q # p
  <2>1. pc'[q] = pc[q] /\ job'[q] = job[q] /\ job[q].id \notin gone
    BY <1>1, <1>2, OthersWait DEF DeletionsHold
  <2>2. Remove(p) => job[q].id # job[p].id /\ gone' = gone \cup {job[p].id}
    BY <2>1 DEF Remove
  <2> QED BY <2>1, <2>2 DEF Changes
<1>3. CASE q = p
  <2>1. pc[p] \in {"find", "show"} /\ ~Abort(p)
    BY <1>1, <1>3, AbortContinues DEF Continues, Fits
  <2>2. Find(p) \/ FindComment(p) \/ ShowComment(p)
    BY <2>1, ServedAt
  <2>3. gone' = gone
    BY <2>1 DEF Changes, Remove
  <2>4. CASE Find(p)
    BY <1>1, <1>3, <2>3, <2>4, FindContinues DEF DeletionsHold
  <2>5. CASE FindComment(p)
    <3>1. CASE pc'[p] = "show"
      BY <1>1, <1>3, <2>3, <2>5, <3>1, FindCommentContinues DEF DeletionsHold
    <3>2. CASE pc'[p] = "save"
      <4>1. PICK r \in shown : /\ job'[p].id = r.id
                               /\ ~\E o \in Workers : pc[o] = "clear" /\ job[o].id = r.id
        BY <1>1, <2>5, <3>2, FindCommentContinues
      <4>2. r.id \notin gone
        BY <1>1, <4>1 DEF DeletionsHold
      <4> QED BY <1>3, <2>3, <4>1, <4>2
    <3> QED BY <1>3, <3>1, <3>2
  <2>6. CASE ShowComment(p)
    <3>1. job'[p].id = job[p].id /\ pc[p] = "show"
      BY <1>1, <1>3, <2>6, ShowCommentContinues DEF ShowComment
    <3> QED BY <1>1, <1>3, <2>3, <3>1 DEF DeletionsHold
  <2> QED BY <2>2, <2>4, <2>5, <2>6
<1> QED BY <1>2, <1>3

\* What is in the table was not deleted.
LEMMA RowsNotDeleted ==
  ASSUME SafeInv, NumbersAreNew, DeletionsHold, NEW p \in Workers, Serve(p) \/ Abort(p),
         Continues(p), Changes(p), ~raced', NEW k \in {"likes", "comments"}, NEW r \in rows'[k]
  PROVE  r.id \notin gone'
<1>1. TypeOK /\ WorkerOK(p) /\ ~raced /\ k \in Kinds
  BY RacedStays DEF SafeInv, Kinds
<1> DEFINE j == job[p]
           r0 == [user |-> j.user, id |-> j.id]
<1>2. CASE Insert(p) \/ Save(p)
  <2>1. gone' = gone
    BY <1>2 DEF Insert, Save, history
  <2>2. j.id \notin gone
    <3>1. CASE Insert(p)
      <4>1. Makes(p)
        BY <1>1, <3>1, WorkerFacts DEF Insert, Makes, MakesAt, Reaches
      <4> QED BY <4>1 DEF NumbersAreNew, KnownBeside
    <3>2. CASE Save(p)
      BY <1>1, <3>2 DEF Save, DeletionsHold
    <3> QED BY <1>2, <3>1, <3>2
  <2>3. rows' = rows \/ rows' = [rows EXCEPT ![j.key] = @ \cup {r0}]
    BY <1>1, <1>2, InsertContinues, SaveContinues
  <2>4. r0.id = j.id
    OBVIOUS
  <2> HIDE DEF r0
  <2>5. r \in rows[k] \/ r = r0
    BY <1>1, <2>3 DEF TypeOK
  <2> QED BY <1>1, <2>1, <2>2, <2>4, <2>5 DEF DeletionsHold
<1>3. CASE Remove(p)
  <2>1. /\ rows' = [rows EXCEPT ![j.key] = {s \in @ : s.id # j.id}]
        /\ gone' = gone \cup {j.id} /\ pc[p] # "idle"
    BY <1>3 DEF Remove
  <2>2. j.key \in {"likes", "comments"}
    BY <1>1, <1>3, RemoveContinues
  <2>3. r \in rows[k] /\ r.id \notin gone
    BY <1>1, <2>1 DEF TypeOK, DeletionsHold
  <2>4. CASE k = j.key
    BY <1>1, <2>1, <2>3, <2>4 DEF TypeOK
  <2>5. CASE k # j.key
    <3>1. UsedFor(k, r.id) /\ UsedFor(j.key, j.id)
      BY <2>1, <2>3 DEF UsedFor, Seen
    <3>2. r.id # j.id
      BY <2>2, <2>5, <3>1 DEF NumbersAreNew
    <3> QED BY <2>1, <2>3, <3>2
  <2> QED BY <2>4, <2>5
<1>4. CASE rows' = rows /\ gone' = gone
  BY <1>1, <1>4 DEF DeletionsHold
<1> QED BY <1>2, <1>3, <1>4 DEF Changes

\* A deleted comment is only cached while its deletion is under way.
LEMMA ShownNotDeleted ==
  ASSUME SafeInv, NumbersAreNew, DeletionsHold, NEW p \in Workers, Serve(p) \/ Abort(p),
         Continues(p), Changes(p), ~raced', NEW r \in shown', r.id \in gone'
  PROVE  \E q \in Workers : pc'[q] = "clear" /\ job'[q].op = "uncomment" /\ job'[q].id = r.id
<1>1. TypeOK /\ WorkerOK(p) /\ ~raced
  BY RacedStays DEF SafeInv
<1> DEFINE j == job[p]
<1>2. CASE ShowComment(p)
  <2>1. gone' = gone /\ shown' = shown \cup {[user |-> j.user, id |-> j.id]} /\ pc[p] = "show"
    BY <1>2 DEF ShowComment, history
  <2>2. j.id \notin gone
    BY <1>1, <2>1 DEF DeletionsHold
  <2>3. r \in shown
    BY <2>1, <2>2
  <2>4. PICK q \in Workers : pc[q] = "clear" /\ job[q].op = "uncomment" /\ job[q].id = r.id
    BY <1>1, <2>1, <2>3 DEF DeletionsHold
  <2>5. pc'[q] = pc[q] /\ job'[q] = job[q]
    BY <1>1, <2>1, <2>4, OthersWait
  <2> QED BY <2>4, <2>5
<1>3. CASE ~ShowComment(p)
  <2>1. r \in shown
    BY <1>3 DEF Changes, Clear
  <2>2. CASE r.id \in gone
    <3>1. PICK q \in Workers : pc[q] = "clear" /\ job[q].op = "uncomment" /\ job[q].id = r.id
      BY <1>1, <2>1, <2>2 DEF DeletionsHold
    <3>2. CASE q # p
      BY <1>1, <3>1, <3>2, OthersWait
    <3>3. CASE q = p
      <4>1. ~Abort(p)
        BY <3>1, <3>3 DEF Abort
      <4>2. Clear(p)
        BY <3>1, <3>3, <4>1, ServedAt
      <4>3. shown' = {s \in shown : s.id # j.id}
        BY <3>1, <3>3, <4>2 DEF Clear, Forgotten
      <4> QED BY <3>1, <3>3, <4>3
    <3> QED BY <3>2, <3>3
  <2>3. CASE r.id \notin gone
    <3>1. Remove(p) /\ r.id = j.id
      BY <2>3 DEF Changes, Remove
    <3>2. pc'[p] = "clear" /\ job'[p] = j /\ j.key \in {"likes", "comments"} /\ pc[p] = "remove"
      BY <1>1, <3>1, RemoveContinues DEF Remove
    <3>3. UsedFor("comments", r.id) /\ UsedFor(j.key, r.id)
      BY <2>1, <3>1, <3>2 DEF UsedFor, Seen
    <3>4. j.key = "comments"
      BY <3>2, <3>3 DEF NumbersAreNew
    <3>5. j.op = "uncomment"
      BY <1>1, <3>2, <3>4, WorkerFacts DEF Reaches, HasKey
    <3> QED BY <3>1, <3>2, <3>5
  <2> QED BY <2>2, <2>3
<1> QED BY <1>2, <1>3

LEMMA DeletionsStep ==
  SafeInv /\ NumbersAreNew /\ DeletionsHold /\ [Next]_vars => DeletionsHold'
<1> SUFFICES ASSUME SafeInv, NumbersAreNew, DeletionsHold, [Next]_vars, ~raced'
             PROVE  DeletionsHold'
  BY DEF DeletionsHold
<1>1. TypeOK
  BY DEF SafeInv
<1>2. CASE UNCHANGED vars \/ Expires
  <2>1. UNCHANGED <<rows, shown, pc, job, gone, raced>>
    BY <1>2 DEF vars, Expires
  <2> QED BY <2>1 DEF DeletionsHold
<1>3. ASSUME NEW p \in Workers, Arrives(p) PROVE DeletionsHold'
  <2>1. /\ UNCHANGED <<rows, shown, gone, raced>> /\ pc[p] = "idle"
        /\ pc'[p] \notin {"save", "show"}
    BY <1>3 DEF Arrives, data, table, history
  <2>2. \A q \in Workers : q # p => pc'[q] = pc[q] /\ job'[q] = job[q]
    BY <1>1, <1>3, OthersWait
  <2> QED BY <2>1, <2>2 DEF DeletionsHold
<1>4. ASSUME NEW p \in Workers, Serve(p) \/ Abort(p), Continues(p), Changes(p)
      PROVE  DeletionsHold'
  BY <1>4, SavedNotDeleted, RowsNotDeleted, ShownNotDeleted DEF DeletionsHold
<1> QED BY <1>2, <1>3, <1>4, Steps

\* A like taken back and a deleted comment are not brought back by a save of the row as it
\* was found or cached, unless the save and the deletion overlapped or the cache could not
\* be told of the deletion.
THEOREM DeletionsLast == Spec => []DeletedRowsStayDeleted
<1>1. Init => NumbersAreNew /\ DeletionsHold
  BY DEF Init, NoticesInit, NumbersAreNew, DeletionsHold, Makes, UsedFor, Seen, Kinds
<1>2. DeletionsHold => DeletedRowsStayDeleted
  BY DEF DeletionsHold, DeletedRowsStayDeleted
<1> QED BY <1>1, <1>2, NewNumbersStep, DeletionsStep, Safety, PTL DEF Spec

----------------------------------------------------------------------------
(* The rank of the post.                                                   *)

\* A worker under way to a score that is not torn holds the sum of the rows.
CountsOK(p) ==
  p \notin torn =>
    /\ pc[p] = "comments" => job[p].sum = 2 * Cardinality(rows["likes"])
    /\ pc[p] = "views" => job[p].sum = 2 * Cardinality(rows["likes"])
                                        + 3 * Cardinality(rows["comments"])
    /\ pc[p] \in {"post", "rank"} => job[p].sum = Score

CountsKept == \A p \in Workers : CountsOK(p)

\* A change of the rows tears the sums under way, and nothing mends them.
LEMMA OthersTorn ==
  ASSUME SafeInv, NEW p \in Workers, Serve(p) \/ Abort(p), Changes(p)
  PROVE  /\ torn \subseteq torn' \cup {p}
         /\ rows' = rows \/ Counting \subseteq torn'
<1>1. torn \subseteq torn' \cup {p}
  BY DEF Changes, Insert, Save, Remove, CountLikes, CountComments, CountViews, CountRows,
         FindPost, StoreScore, FindFeed, Abort
<1>2. Insert(p) => rows' = rows \/ Counting \subseteq torn'
  BY DEF Insert
<1>3. Save(p) => rows' = rows \/ Counting \subseteq torn'
  <2> SUFFICES ASSUME Save(p), rows' # rows PROVE Counting \subseteq torn'
    OBVIOUS
  <2> DEFINE r == [user |-> job[p].user, id |-> job[p].id]
  <2>1. /\ rows' = [rows EXCEPT ![job[p].key] = @ \cup {r}]
        /\ r \in rows[job[p].key] \/ torn' = torn \cup Counting
    BY DEF Save
  <2> HIDE DEF r
  <2>2. r \in rows[job[p].key] => rows' = rows
    BY <2>1 DEF SafeInv, TypeOK
  <2> QED BY <2>1, <2>2
<1>4. Remove(p) => Counting \subseteq torn'
  BY DEF Remove
<1> QED BY <1>1, <1>2, <1>3, <1>4 DEF Changes

\* A count that did not fail.
LEMMA CountAdds ==
  ASSUME TypeOK, NEW p \in Workers, pc[p] # "idle", job[p] \in Job,
         NEW k \in Kinds, NEW s \in Nat, NEW c \in Control \ {"idle"},
         CountRows(p, k, s, c), p \notin torn'
  PROVE  /\ p \notin torn /\ pc'[p] = c
         /\ job'[p].sum = s + Weight[k] * Cardinality(rows[k])
<1> DEFINE m == Cardinality(rows[k])
<1>1. PICK n \in {m, 0} :
        /\ GoTo(p, [job[p] EXCEPT !.sum = s + Weight[k] * n], c)
        /\ torn' = IF n = m THEN torn ELSE torn \cup {p}
  BY DEF CountRows
<1>2. n = m /\ p \notin torn
  BY <1>1
<1> HIDE DEF m
<1> DEFINE v == s + Weight[k] * m
<1>3. GoTo(p, [job[p] EXCEPT !.sum = v], c)
  BY <1>1, <1>2
<1> HIDE DEF v
<1>4. pc'[p] = c /\ job'[p] = [job[p] EXCEPT !.sum = v]
  BY <1>3 DEF GoTo, TypeOK
<1>5. job'[p].sum = v
  BY <1>4 DEF Job
<1> QED BY <1>2, <1>4, <1>5 DEF v, m

\* What a worker has counted so far, or took from the cache, is right or torn.
LEMMA CountRight ==
  ASSUME SafeInv, ScoreKept, NEW p \in Workers, CountsOK(p), Serve(p) \/ Abort(p),
         Continues(p), Changes(p)
  PROVE  CountsOK(p)'
<1> SUFFICES ASSUME pc'[p] \in {"comments", "views", "post", "rank"}, p \notin torn' PROVE CountsOK(p)'
  BY DEF CountsOK
<1>1. TypeOK /\ Countable /\ WorkerOK(p)
  BY DEF SafeInv
<1>2. \/ CountLikes(p) \/ CountComments(p) \/ CountViews(p) \/ FindPost(p) \/ FindFeed(p)
      \/ StoreScore(p)
  <2>1. pc'[p] # "idle" /\ ~Abort(p)
    BY <1>1, AbortContinues
  <2>2. pc[p] \in {"likes", "comments", "views", "post", "rank", "feed"}
    BY <2>1 DEF Continues, Fits
  <2> QED BY <2>1, <2>2, ServedAt DEF Kinds
<1>3. rows' = rows /\ Score' = Score
  <2>1. rows' = rows
    BY <1>2 DEF CountLikes, CountComments, CountViews, CountRows, FindPost, FindFeed, StoreScore,
                data, table
  <2> QED BY <2>1 DEF Score
<1>4. pc[p] # "idle" /\ job[p] \in Job /\ job[p].sum \in Nat
  <2>1. pc[p] # "idle"
    BY ServeContinues
  <2> QED BY <1>1, <2>1, WorkerFacts
<1>5. /\ {"comments", "views", "post", "rank"} \subseteq Control \ {"idle"}
      /\ {"likes", "comments", "views"} \subseteq Kinds
      /\ Weight["likes"] = 2 /\ Weight["comments"] = 3 /\ Weight["views"] = 1
  BY DEF Control, Kinds, Weight
<1>6. CASE CountLikes(p)
  <2>1. /\ p \notin torn /\ pc'[p] = "comments"
        /\ job'[p].sum = 0 + Weight["likes"] * Cardinality(rows["likes"])
    BY <1>1, <1>4, <1>5, <1>6, CountAdds DEF CountLikes
  <2>2. Cardinality(rows["likes"]) \in Nat
    BY <1>1, <1>5, FS_CardinalityType DEF Countable
  <2> QED BY <1>3, <1>5, <2>1, <2>2 DEF CountsOK
<1>7. CASE CountComments(p)
  <2>1. /\ p \notin torn /\ pc'[p] = "views"
        /\ job'[p].sum = job[p].sum + Weight["comments"] * Cardinality(rows["comments"])
    BY <1>1, <1>4, <1>5, <1>7, CountAdds DEF CountComments
  <2>2. job[p].sum = 2 * Cardinality(rows["likes"])
    BY <1>7, <2>1 DEF CountsOK, CountComments, CountRows
  <2> QED BY <1>3, <1>5, <2>1, <2>2 DEF CountsOK
<1>8. CASE CountViews(p)
  <2> DEFINE c == IF job[p].op = "feed" THEN "rank" ELSE "post"
  <2>1. c \in Control \ {"idle"} /\ c \in {"post", "rank"}
    BY <1>5
  <2>2. CountRows(p, "views", job[p].sum, c)
    BY <1>8 DEF CountViews
  <2> HIDE DEF c
  <2>3. /\ p \notin torn /\ pc'[p] = c
        /\ job'[p].sum = job[p].sum + Weight["views"] * Cardinality(rows["views"])
    BY <1>1, <1>4, <1>5, <2>1, <2>2, CountAdds
  <2>4. job[p].sum = 2 * Cardinality(rows["likes"]) + 3 * Cardinality(rows["comments"])
    BY <2>2, <2>3 DEF CountsOK, CountRows
  <2>5. Cardinality(rows["views"]) \in Nat
    BY <1>1, <1>5, FS_CardinalityType DEF Countable
  <2>6. job'[p].sum = Score
    BY <1>5, <2>3, <2>4, <2>5 DEF Score
  <2> QED BY <1>3, <2>1, <2>3, <2>6 DEF CountsOK
<1>9. CASE FindPost(p)
  <2>1. GoTo(p, job[p], "rank") /\ torn' = torn /\ pc[p] = "post"
    BY <1>1, <1>9, FindPostContinues DEF FindPost
  <2>2. pc'[p] = "rank" /\ job'[p] = job[p]
    BY <1>1, <2>1 DEF GoTo, TypeOK
  <2>3. job[p].sum = Score
    BY <2>1 DEF CountsOK
  <2> QED BY <1>3, <2>2, <2>3 DEF CountsOK
<1>10. CASE FindFeed(p)
  <2>1. /\ GoTo(p, [job[p] EXCEPT !.sum = score], "rank")
        /\ score # Absent /\ alive /\ "rank" \notin late /\ \A q \in Workers : ~Rescores(q)
    <3>1. ~GoTo(p, job[p], "idle") /\ ~GoTo(p, job[p], "likes")
      BY <1>1 DEF GoTo, TypeOK
    <3> QED BY <1>10, <3>1 DEF FindFeed
  <2>2. score = Score
    BY <2>1 DEF ScoreKept
  <2>3. pc'[p] = "rank" /\ job'[p] = [job[p] EXCEPT !.sum = score]
    BY <1>1, <2>1 DEF GoTo, TypeOK
  <2>4. job'[p].sum = score
    BY <1>4, <2>3 DEF Job
  <2> QED BY <1>3, <2>2, <2>3, <2>4 DEF CountsOK
<1>11. CASE StoreScore(p)
  <2>1. pc'[p] \in {"idle", "sent", "notify", "find"}
    BY <1>1, <1>11, StoreScoreContinues
  <2> QED BY <2>1
<1> QED BY <1>2, <1>6, <1>7, <1>8, <1>9, <1>10, <1>11

LEMMA CountsStep == SafeInv /\ ScoreKept /\ CountsKept /\ [Next]_vars => CountsKept'
<1> SUFFICES ASSUME SafeInv, ScoreKept, CountsKept, [Next]_vars, NEW q \in Workers
             PROVE  CountsOK(q)'
  BY DEF CountsKept
<1>1. TypeOK /\ CountsOK(q)
  BY DEF SafeInv, CountsKept
<1>2. CASE UNCHANGED vars \/ Expires
  <2>1. UNCHANGED <<rows, pc, job, torn>>
    BY <1>2 DEF vars, Expires
  <2> QED BY <1>1, <2>1 DEF CountsOK, Score
<1>3. ASSUME NEW p \in Workers, Arrives(p) PROVE CountsOK(q)'
  <2>1. /\ UNCHANGED <<rows, torn>>
        /\ pc'[p] \in {"check", "find", "insert", "get", "feed", "likes", "delete", "mark",
                        "dismiss"}
    BY <1>3 DEF Arrives, data, table, history
  <2>2. q # p => pc'[q] = pc[q] /\ job'[q] = job[q]
    BY <1>1, <1>3, OthersWait
  <2> QED BY <1>1, <2>1, <2>2 DEF CountsOK, Score
<1>4. ASSUME NEW p \in Workers, Serve(p) \/ Abort(p), Continues(p), Changes(p)
      PROVE  CountsOK(q)'
  <2>1. CASE q = p
    BY <1>1, <1>4, <2>1, CountRight
  <2>2. CASE q # p
    <3>1. pc'[q] = pc[q] /\ job'[q] = job[q]
      BY <1>1, <1>4, <2>2, OthersWait
    <3>2. CASE q \in torn' \/ q \notin Counting
      BY <3>1, <3>2 DEF CountsOK, Counting
    <3>3. CASE q \notin torn' /\ q \in Counting
      <4>1. rows' = rows /\ q \notin torn
        BY <1>4, <2>2, <3>3, OthersTorn
      <4> QED BY <1>1, <3>1, <4>1 DEF CountsOK, Score
    <3> QED BY <3>2, <3>3
  <2> QED BY <2>1, <2>2
<1> QED BY <1>2, <1>3, <1>4, Steps

\* A worker that will compute the score goes on until it has, or gives up and says so.
LEMMA RescoresUntilStored ==
  ASSUME SafeInv, NEW p \in Workers, Serve(p) \/ Abort(p), Continues(p), Changes(p), Rescores(p),
         alive', "rank" \notin late', ~StoreScore(p), Holds("rank")
  PROVE  Rescores(p)'
<1>1. TypeOK /\ Countable /\ WorkerOK(p)
  BY DEF SafeInv
<1>2. ~Abort(p)
  BY DEF Abort, Owed, Rescores, Kinds
<1>3. alive
  BY DEF Changes, RemovePost
<1>4. Clear(p) \/ CountLikes(p) \/ CountComments(p) \/ CountViews(p) \/ FindPost(p)
  BY <1>2, ServedAt DEF Rescores, Kinds
<1>5. CASE Clear(p)
  BY <1>1, <1>5, ClearContinues DEF Clear, Rescores
<1>6. CASE CountLikes(p) \/ CountComments(p) \/ CountViews(p)
  BY <1>1, <1>6, CountContinues DEF CountLikes, CountComments, CountViews, CountRows, Rescores
<1>7. CASE FindPost(p)
  BY <1>1, <1>3, <1>7, FindPostContinues DEF Rescores
<1> QED BY <1>4, <1>5, <1>6, <1>7

\* The score stays that of the rows while the post is there, or will be computed.
LEMMA LiveScoreStep ==
  ASSUME SafeInv, ScoreKept, CountsKept, NEW p \in Workers, Serve(p) \/ Abort(p),
         Continues(p), Changes(p), alive', "rank" \notin late'
  PROVE  \/ rank' \in {Score', Absent} /\ score' \in {Score', Absent}
         \/ \E q \in Workers : Rescores(q)'
<1>1. TypeOK /\ WorkerOK(p)
  BY DEF SafeInv
<1>2. alive
  BY DEF Changes, RemovePost
<1>3. rows' = rows => Score' = Score
  BY DEF Score
<1>4. CASE StoreScore(p)
  <2>1. rank' = job[p].sum /\ score' = job[p].sum /\ rows' = rows /\ p \notin torn
    BY <1>2, <1>4 DEF StoreScore, table
  <2>2. job[p].sum = Score
    BY <1>4, <2>1 DEF StoreScore, CountsKept, CountsOK
  <2> QED BY <1>3, <2>1, <2>2
<1>5. CASE ~StoreScore(p)
  <2>1. "rank" \notin late
    <3>1. CASE Clear(p) \/ Fill(p)
      <4>1. job[p].key # "rank"
        BY <1>1, <3>1, WorkerFacts DEF Clear, Fill, Keys, Kinds
      <4> QED BY <3>1, <4>1 DEF Clear, Fill, Stale
    <3> QED BY <1>5, <3>1 DEF Changes, Save, RemovePost, Unrank, ClearUnread, Abort, Stale
  <2>2. CASE Holds("rank") /\ \E q \in Workers : Rescores(q)
    <3>1. PICK q \in Workers : Rescores(q)
      BY <2>2
    <3>2. CASE q = p
      <4>1. Rescores(p)'
        BY <1>5, <2>2, <3>1, <3>2, RescoresUntilStored
      <4> QED BY <4>1
    <3>3. CASE q # p
      <4>1. pc'[q] = pc[q] /\ job'[q] = job[q]
        BY <1>1, <3>3, OthersWait
      <4>2. Rescores(q)'
        BY <3>1, <4>1 DEF Rescores
      <4> QED BY <4>2
    <3> QED BY <3>2, <3>3
  <2>3. CASE rank \in {Score, Absent} /\ score \in {Score, Absent}
    <3>1. rank' \in {rank, Absent} /\ score' \in {score, Absent}
      BY <1>5 DEF Changes, Unrank
    <3>2. CASE rows' = rows
      BY <1>3, <2>3, <3>1, <3>2
    <3>3. CASE Insert(p) /\ rows' # rows
      <4>1. pc'[p] = "clear" /\ job'[p] = job[p] /\ pc[p] = "insert"
        BY <1>1, <3>3, InsertContinues DEF Insert
      <4>2. Scored(job[p].op)
        BY <1>1, <4>1, WorkerFacts DEF Reaches, Scored
      <4> QED BY <4>1, <4>2 DEF Rescores, Scored
    <3>4. CASE Save(p) /\ rows' # rows
      <4> DEFINE r == [user |-> job[p].user, id |-> job[p].id]
      <4>1. r \in rows[job[p].key] /\ rows' = [rows EXCEPT ![job[p].key] = @ \cup {r}]
        BY <1>1, <3>4, SaveContinues
      <4> HIDE DEF r
      <4>2. rows' = rows
        BY <1>1, <4>1 DEF TypeOK
      <4> QED BY <3>4, <4>2
    <3>5. CASE Remove(p)
      <4>1. pc'[p] = "clear" /\ job'[p] = job[p] /\ pc[p] = "remove"
        BY <1>1, <3>5, RemoveContinues DEF Remove
      <4>2. Scored(job[p].op)
        BY <1>1, <4>1, WorkerFacts DEF Reaches, Scored
      <4> QED BY <4>1, <4>2 DEF Rescores, Scored
    <3> QED BY <3>2, <3>3, <3>4, <3>5 DEF Changes
  <2>4. CASE ~Holds("rank")
    <3>1. rank' = Absent /\ score' = Absent
      BY <1>5, <2>4 DEF Changes, Unrank, Holds
    <3> QED BY <3>1
  <2> QED BY <1>2, <2>1, <2>2, <2>3, <2>4 DEF ScoreKept
<1> QED BY <1>4, <1>5

\* Once the post is deleted, no score is on its way to it.
NoScore ==
  /\ \/ rank = Absent /\ score = Absent
     \/ \E p \in Workers : pc[p] = "unrank"
  /\ \A p \in Workers : pc[p] # "rank" /\ (pc[p] \in Kinds => job[p].op # "feed")

LEMMA DeletedScoreStep ==
  ASSUME SafeInv, ScoreKept, NEW p \in Workers, Serve(p) \/ Abort(p), Continues(p), Changes(p),
         ~alive', "rank" \notin late'
  PROVE  NoScore'
<1>1. TypeOK /\ Countable /\ WorkerOK(p) /\ pc[p] # "idle"
  BY ServeContinues DEF SafeInv
<1>2. \A q \in Workers : q # p => pc'[q] = pc[q] /\ job'[q] = job[q]
  BY <1>1, OthersWait
<1>3. CASE RemovePost(p)
  <2>1. pc'[p] = "unrank" /\ pc[p] = "delete"
    BY <1>1, <1>3, DeletionContinues DEF RemovePost
  <2>2. \A q \in Workers : pc[q] # "rank" /\ (pc[q] \in Kinds => job[q].op # "feed")
    BY <1>3 DEF RemovePost
  <2>3. "unrank" \notin Kinds
    BY DEF Kinds
  <2> QED BY <1>2, <2>1, <2>2, <2>3 DEF NoScore
<1>4. CASE ~RemovePost(p)
  <2>1. ~alive
    BY <1>4 DEF Changes
  <2>2. "rank" \notin late
    <3>1. CASE Clear(p) \/ Fill(p)
      <4>1. job[p].key # "rank"
        BY <1>1, <3>1, WorkerFacts DEF Clear, Fill, Keys, Kinds
      <4> QED BY <3>1, <4>1 DEF Clear, Fill, Stale
    <3>2. StoreScore(p) => "rank" \notin late
      BY <2>1 DEF StoreScore
    <3> QED BY <1>4, <3>1, <3>2 DEF Changes, Save, Unrank, ClearUnread, Abort, Stale
  <2>3. NoScore
    BY <2>1, <2>2 DEF ScoreKept, NoScore
  <2>4. ~StoreScore(p)
    BY <2>3 DEF StoreScore, NoScore
  <2>5. pc'[p] # "rank" /\ (pc'[p] \in Kinds => job'[p].op # "feed")
    <3>1. CASE CountLikes(p) \/ CountComments(p) \/ CountViews(p)
      BY <1>1, <2>3, <3>1, CountContinues
         DEF NoScore, CountLikes, CountComments, CountViews, CountRows, Kinds
    <3>2. CASE FindPost(p)
      BY <1>1, <2>1, <3>2, FindPostContinues DEF Kinds
    <3>3. CASE FindFeed(p)
      BY <1>1, <2>1, <3>3, FindFeedContinues DEF Kinds
    <3>4. CASE /\ pc'[p] = "rank" \/ (pc'[p] \in Kinds /\ job'[p].op = "feed")
               /\ pc[p] \notin Kinds
      <4>1. ~Abort(p) /\ pc[p] \in {"post", "feed"}
        <5>1. pc'[p] # "idle"
          BY <3>4 DEF Kinds
        <5>2. pc'[p] = "rank" => pc[p] \in {"post", "feed"}
          BY <1>1, <2>3, <3>4, <5>1 DEF Continues, Fits, Kinds, NoScore
        <5>3. pc'[p] # "rank" => job[p].op = "feed"
          BY <3>4, <5>1 DEF Continues, Fits
        <5>4. job[p].op = "feed" => pc[p] \in {"feed", "post"}
          <6>1. pc[p] \in Control
            BY <1>1 DEF TypeOK
          <6> QED BY <1>1, <2>3, <3>4, <6>1, WorkerFacts DEF Reaches, Control, NoScore, Kinds
        <5> QED BY <1>1, <5>1, <5>2, <5>3, <5>4, AbortContinues
      <4>2. FindPost(p) \/ FindFeed(p)
        BY <4>1, ServedAt
      <4> QED BY <3>2, <3>3, <4>2
    <3>5. CASE pc[p] \in Kinds /\ ~(CountLikes(p) \/ CountComments(p) \/ CountViews(p))
      <4>1. Abort(p)
        BY <3>5, ServedAt
      <4> QED BY <1>1, <4>1, AbortContinues DEF Kinds
    <3> QED BY <3>1, <3>2, <3>3, <3>4, <3>5
  <2>6. CASE \E q \in Workers : pc[q] = "unrank" /\ q # p
    BY <1>2, <2>3, <2>5, <2>6 DEF NoScore
  <2>7. CASE pc[p] = "unrank" /\ Holds("rank")
    <3>1. Unrank(p)
      <4>1. ~Abort(p)
        BY <2>7 DEF Abort, Owed, Kinds
      <4> QED BY <2>7, <4>1, ServedAt
    <3>2. rank' = Absent /\ score' = Absent
      BY <3>1 DEF Unrank
    <3> QED BY <1>2, <2>3, <2>5, <3>2 DEF NoScore
  <2>8. CASE rank = Absent /\ score = Absent
    <3>1. rank' = Absent /\ score' = Absent
      BY <2>4, <2>8 DEF Changes, Unrank
    <3> QED BY <1>2, <2>3, <2>5, <3>1 DEF NoScore
  <2> QED BY <2>3, <2>6, <2>7, <2>8 DEF NoScore, Holds
<1> QED BY <1>3, <1>4

LEMMA ScoreStep ==
  SafeInv /\ ScoreKept /\ CountsKept /\ [Next]_vars => ScoreKept'
<1> SUFFICES ASSUME SafeInv, ScoreKept, CountsKept, [Next]_vars, "rank" \notin late'
             PROVE  ScoreKept'
  BY DEF ScoreKept
<1>1. TypeOK
  BY DEF SafeInv
<1>2. CASE UNCHANGED vars
  BY <1>2 DEF vars, ScoreKept, Score, Rescores
<1>3. CASE Expires
  <2>1. /\ UNCHANGED <<rows, alive, pc, job>>
        /\ rank' \in {rank, Absent} /\ score' \in {score, Absent}
        /\ "rank" \notin late
    <3>1. ASSUME NEW k \in Keys, Expire(k)
          PROVE  rank' = rank /\ score' = score /\ "rank" \notin late
      <4>1. k # "rank"
        BY DEF Keys, Kinds
      <4> QED BY <3>1, <4>1 DEF Expire, post
    <3>2. ASSUME ExpireScore \/ ExpireRank
          PROVE  rank' \in {rank, Absent} /\ score' \in {score, Absent} /\ "rank" \notin late
      BY <3>2 DEF ExpireScore, ExpireRank, history
    <3>3. rank' \in {rank, Absent} /\ score' \in {score, Absent} /\ "rank" \notin late
      BY <1>3, <3>1, <3>2 DEF Expires
    <3>4. UNCHANGED <<rows, alive, pc, job>>
      BY <1>3 DEF Expires
    <3> QED BY <3>3, <3>4
  <2>2. Score' = Score
    BY <2>1 DEF Score
  <2>3. \A p \in Workers : Rescores(p) => Rescores(p)'
    BY <2>1 DEF Rescores
  <2> QED BY <2>1, <2>2, <2>3 DEF ScoreKept
<1>4. ASSUME NEW p \in Workers, Arrives(p) PROVE ScoreKept'
  <2>1. /\ UNCHANGED <<rows, alive, rank, score, late>> /\ pc[p] = "idle"
        /\ pc'[p] \in {"check", "find", "insert", "get", "feed", "likes", "delete", "mark", "dismiss"}
        /\ pc'[p] = "likes" => alive
    BY <1>4 DEF Arrives, data, post, table, history
  <2>2. \A q \in Workers : q # p => pc'[q] = pc[q] /\ job'[q] = job[q]
    BY <1>1, <1>4, OthersWait
  <2>3. Score' = Score
    BY <2>1 DEF Score
  <2>4. \A q \in Workers : Rescores(q) => Rescores(q)'
    BY <2>1, <2>2 DEF Rescores
  <2>5. CASE alive
    BY <2>1, <2>3, <2>4, <2>5 DEF ScoreKept
  <2>6. CASE ~alive
    <3>1. \A q \in Workers : pc[q] = "unrank" => pc'[q] = "unrank"
      BY <2>1, <2>2
    <3>2. \A q \in Workers : pc'[q] # "rank" /\ (pc'[q] \in Kinds => job'[q].op # "feed")
      BY <2>1, <2>2, <2>6 DEF ScoreKept, Kinds
    <3> QED BY <2>1, <2>6, <3>1, <3>2 DEF ScoreKept
  <2> QED BY <2>5, <2>6
<1>5. ASSUME NEW p \in Workers, Serve(p) \/ Abort(p), Continues(p), Changes(p) PROVE ScoreKept'
  <2>1. CASE alive'
    BY <1>5, <2>1, LiveScoreStep DEF ScoreKept
  <2>2. CASE ~alive'
    BY <1>5, <2>2, DeletedScoreStep DEF ScoreKept, NoScore
  <2> QED BY <2>1, <2>2
<1> QED BY <1>2, <1>3, <1>4, <1>5, Steps

\* Whichever request counts and whichever stores its score last, an idle server ranks a
\* post by its rows and a deleted one not at all.  Excepted are a score of which a count
\* failed or was overtaken by a change, and a command that was lost.
THEOREM RankIsTrue == Spec => []RankFollowsRows
<1>1. Init => ScoreKept /\ CountsKept
  BY DEF Init, ScoreKept, CountsKept, CountsOK
<1>2. SafeInv /\ ScoreKept => RankFollowsRows
  <2> SUFFICES ASSUME SafeInv, ScoreKept, "rank" \notin late, ~Pending(Control \ {"idle"}, Keys)
               PROVE  IF alive THEN rank \in {Score, Absent} /\ score \in {Score, Absent}
                               ELSE rank = Absent /\ score = Absent
    BY DEF RankFollowsRows
  <2>1. \A p \in Workers : pc[p] = "idle"
    BY WorkerFacts DEF SafeInv, TypeOK, Pending
  <2> QED BY <2>1 DEF ScoreKept, Rescores
<1> QED BY <1>1, <1>2, ScoreStep, CountsStep, Safety, PTL DEF Spec
=============================================================================
