---------------------------- MODULE PostsProofs ----------------------------
(***************************************************************************)
(* Proofs about Posts, for any workers, any number of requests, and with   *)
(* or without failures.                                                    *)
(*                                                                         *)
(* The argument is about copies: every row a worker or the cache holds is  *)
(* one that the table once had, and its version says whether the table     *)
(* still has it.                                                           *)
(***************************************************************************)
EXTENDS Posts, TLAPS

Writes == {"attach", "edit", "strip"}
Finds  == Writes \cup {"create", "delete", "announce", "read", "reload"}

\* The control points a worker reaches only once there is a row.
Knows == {"get", "query", "fill", "upload", "save", "set", "clear", "uncount", "select",
          "remove", "forget", "notify"}

\* r was read from the table: it was not deleted then, and it is what the table has
\* if the table still has that version.
Copy(r) ==
  /\ row # NoRow
  /\ r \in Row
  /\ ~r.deleted
  /\ r.ver <= row.ver
  /\ r.ver = row.ver => r = row

\* What a worker at control point c may hold.
Fits(j, c) ==
  /\ j \in Job
  /\ j.row # NoRow => Copy(j.row)
  /\ c = "insert" => j.op = "create" /\ row = NoRow
  /\ c \in {"get", "query", "fill"} => j.op \in Finds
  /\ c \in {"upload", "uncount"} => j.op = "create"
  /\ c \in {"save", "set"} => j.op \in Writes
  /\ c = "clear" => j.op \in Writes \cup {"create"}
  /\ c \in {"fill", "save", "set"} => j.row # NoRow
  /\ c \in Knows => row # NoRow
  /\ c = "fillcount" => j.edit \in {0, 1}

WorkersFit == \A p \in Workers : pc[p] # "idle" => Fits(job[p], pc[p])

Creates(p) == pc[p] # "idle" /\ job[p].op = "create"
OneCreator == \A p, q \in Workers : Creates(p) /\ Creates(q) => p = q

\* Before the row is there, nothing is known of it.
NothingBefore ==
  row = NoRow =>
    /\ list \in {NoRow, Absent}
    /\ wanted = [content |-> 0, media |-> FALSE, deleted |-> FALSE]

CacheFits == cache # Absent => Copy(cache)

SafeInv == TypeOK /\ WorkersFit /\ OneCreator /\ NothingBefore /\ CacheFits

PostFollows ==
  cache # Absent /\ "post" \notin late => cache = row \/ Pending({"set", "forget"})

ListFollows ==
  list # Absent /\ "list" \notin late =>
    \/ list = Visible
    \/ Pending({"set", "clear"})
    \/ row.deleted /\ list = [row EXCEPT !.deleted = FALSE, !.ver = @ - 1]

\* Only the worker that creates the post still has the count to delete.
CountFollows ==
  count # Absent /\ "count" \notin late =>
    \/ count = Number
    \/ Uncounted
    \/ row.deleted
----------------------------------------------------------------------------
(* Copies and workers, through a step.                                     *)

\* The row changes by a new version only, and does not go away.
Grows == row # NoRow => row' \in Row /\ (row' = row \/ row'.ver = row.ver + 1)

\* What a step does to the workers and what they hold.
WorkersKept ==
  /\ pc' \in [Workers -> Control]
  /\ job' \in [Workers -> Job \cup {NoRow}]
  /\ WorkersFit'
  /\ OneCreator'

LEMMA CopyStays ==
  ASSUME TypeOK, Grows, NEW r, Copy(r)
  PROVE  Copy(r)'
<1>1. row \in Row /\ row # NoRow /\ r \in Row /\ r.ver \in Nat /\ row.ver \in Nat
  BY DEF TypeOK, Copy, Row
<1>2. row' # NoRow
  BY <1>1, PostsAssumption DEF Grows
<1>3. CASE row' = row
  BY <1>3 DEF Copy
<1>4. CASE row'.ver = row.ver + 1
  BY <1>1, <1>2, <1>4 DEF Copy
<1> QED BY <1>1, <1>3, <1>4 DEF Grows

\* A worker's situation outlives what the others do to the row, unless it is about to
\* insert the row that has come.
LEMMA FitsStays ==
  ASSUME TypeOK, Grows, NEW j, NEW c, Fits(j, c),
         c = "insert" => row' = row
  PROVE  Fits(j, c)'
<1>1. j.row # NoRow => Copy(j.row)'
  BY CopyStays DEF Fits
<1>2. row # NoRow => row' # NoRow
  BY PostsAssumption DEF Grows
<1> QED BY <1>1, <1>2 DEF Fits

LEMMA Kept ==
  ASSUME SafeInv, Grows, NEW p \in Workers, pc[p] # "idle",
         NEW j, NEW c \in Control, GoTo(p, j, c),
         c # "idle" => Fits(j, c)',
         j.op = "create" => job[p].op = "create",
         row = NoRow /\ row' # NoRow => Creates(p)
  PROVE  WorkersKept
<1>1. /\ pc \in [Workers -> Control] /\ job \in [Workers -> Job \cup {NoRow}]
      /\ pc' = [pc EXCEPT ![p] = c]
      /\ job' = [job EXCEPT ![p] = IF c = "idle" THEN NoRow ELSE j]
  BY DEF SafeInv, TypeOK, GoTo
<1>2. pc'[p] = c /\ (c # "idle" => job'[p] = j)
  BY <1>1
<1>3. \A q \in Workers \ {p} : pc'[q] = pc[q] /\ job'[q] = job[q]
  BY <1>1
<1>4. pc' \in [Workers -> Control] /\ job' \in [Workers -> Job \cup {NoRow}]
  BY <1>1 DEF Fits
<1>5. ASSUME NEW q \in Workers, pc'[q] # "idle"
      PROVE  Fits(job[q], pc[q])'
  <2>1. CASE q = p
    BY <1>2, <1>5, <2>1 DEF Fits, Copy
  <2>2. CASE q # p
    <3>1. Fits(job[q], pc[q]) /\ pc[q] # "idle"
      BY <1>3, <1>5, <2>2 DEF SafeInv, WorkersFit
    <3>2. pc[q] = "insert" => row' = row
      <4>1. pc[q] = "insert" => Creates(q) /\ row = NoRow
        BY <3>1 DEF Fits, Creates
      <4>2. Creates(p) /\ Creates(q) => p = q
        BY DEF SafeInv, OneCreator
      <4> QED BY <2>2, <4>1, <4>2
    <3>3. PICK k : k = job[q]
      OBVIOUS
    <3>4. PICK b : b = pc[q]
      OBVIOUS
    <3>5. Fits(k, b) /\ (b = "insert" => row' = row) /\ TypeOK
      BY <3>1, <3>2, <3>3, <3>4 DEF SafeInv
    <3>6. Fits(k, b)'
      BY <3>5, FitsStays
    <3>7. job'[q] = k /\ pc'[q] = b
      BY <1>3, <2>2, <3>3, <3>4
    <3> QED BY ONLY <3>6, <3>7 DEF Fits
  <2> QED BY <2>1, <2>2
<1>6. \A q \in Workers : Creates(q)' => Creates(q)
  BY <1>2, <1>3 DEF Creates
<1> QED BY <1>4, <1>5, <1>6 DEF WorkersKept, WorkersFit, SafeInv, OneCreator

\* The same for a step that leaves the row alone.
LEMMA KeptQuiet ==
  ASSUME SafeInv, row' = row, NEW p \in Workers, pc[p] # "idle",
         NEW j, NEW c \in Control, GoTo(p, j, c),
         c # "idle" => Fits(j, c),
         j.op = "create" => job[p].op = "create"
  PROVE  WorkersKept
<1>1. Grows
  BY DEF Grows, SafeInv, TypeOK
<1>2. c # "idle" => Fits(j, c)'
  BY DEF Fits, Copy
<1> QED BY <1>1, <1>2, Kept

\* What FindByID returned is a copy; the handler goes on with it.
LEMMA AfterFindFits ==
  ASSUME NEW j \in Job, Copy(j.row), j.op \in Finds
  PROVE  /\ AfterFind(j) \in Control
         /\ AfterFind(j) # "idle" => Fits(j, AfterFind(j))
<1> USE PostsAssumption DEF Control, Finds, Writes, Knows
<1>1. row # NoRow /\ j.row # NoRow
  BY DEF Copy
<1>2. CASE j.op = "create"
  BY <1>1, <1>2 DEF AfterFind, Fits
<1>3. CASE j.op \in {"attach", "edit", "strip"}
  BY <1>1, <1>3 DEF AfterFind, Fits
<1>4. CASE j.op = "delete"
  BY <1>1, <1>4 DEF AfterFind, Fits
<1>5. CASE j.op = "announce"
  BY <1>1, <1>5 DEF AfterFind, Fits
<1>6. CASE j.op \in {"read", "reload"}
  BY <1>1, <1>6 DEF AfterFind, Fits
<1> QED BY <1>2, <1>3, <1>4, <1>5, <1>6

\* What a SELECT finds is a copy of the row.
LEMMA VisibleCopy ==
  ASSUME TypeOK, Visible # NoRow
  PROVE  Copy(Visible) /\ Visible = row
BY DEF TypeOK, Visible, Copy, Row

LEMMA VisibleType == TypeOK => Visible \in Row \cup {NoRow} /\ Number \in {0, 1}
BY DEF TypeOK, Visible, Number

\* The worker that acts: what it holds fits.
LEMMA Acting ==
  ASSUME SafeInv, NEW p \in Workers, pc[p] # "idle"
  PROVE  /\ Fits(job[p], pc[p])
         /\ job[p] \in Job
         /\ job[p].op \in Op /\ job[p].edit \in Nat /\ job[p].row \in Row \cup {NoRow}
BY DEF SafeInv, WorkersFit, Fits, Job
----------------------------------------------------------------------------
(* SafeInv, one lemma per action.                                          *)

LEMMA Assemble ==
  ASSUME SafeInv, WorkersKept,
         row' \in Row \cup {NoRow}, cache' \in Row \cup {Absent},
         list' \in Row \cup {NoRow, Absent}, count' \in {0, 1, Absent},
         left' \in 0..Budget, uploaded' \in BOOLEAN,
         wanted' \in [content : Nat, media : BOOLEAN, deleted : BOOLEAN],
         raced' \in BOOLEAN, late' \subseteq Keys, NothingBefore', CacheFits'
  PROVE  SafeInv'
<1>1. \A p \in Workers : pc'[p] # "idle" => Fits(job[p], pc[p])'
  BY DEF WorkersKept, WorkersFit
<1>2. /\ \A p \in Workers : pc'[p] # "idle" => job'[p] \in Job
      /\ \A p \in Workers : pc'[p] \in {"save", "set", "remove", "forget"} => row' # NoRow
  BY <1>1 DEF Fits, Knows
<1>3. TypeOK'
  BY <1>2 DEF TypeOK, WorkersKept
<1> QED BY <1>3 DEF SafeInv, WorkersKept

\* A step of a worker that touches neither the row nor a key.
LEMMA QuietSafe ==
  ASSUME SafeInv, WorkersKept, UNCHANGED <<row, keys, left, wanted, raced>>,
         uploaded' \in BOOLEAN, late' \subseteq Keys
  PROVE  SafeInv'
<1>1. NothingBefore' /\ CacheFits'
  BY DEF SafeInv, NothingBefore, CacheFits, Copy, keys
<1> QED BY <1>1, Assemble DEF SafeInv, TypeOK, keys

LEMMA GetCachedSafe ==
  ASSUME SafeInv, NEW p \in Workers, GetCached(p)
  PROVE  SafeInv'
<1> DEFINE j == job[p]
<1>1. /\ pc[p] = "get" /\ Fits(j, "get") /\ j \in Job
      /\ UNCHANGED <<row, keys, left, uploaded, wanted, raced, late>>
  BY Acting DEF GetCached, GoTo, history
<1>2. PICK c \in Seen(Decoded(cache)) :
        IF c = Absent THEN GoTo(p, j, "query")
                      ELSE GoTo(p, [j EXCEPT !.row = c], AfterFind(j))
  BY DEF GetCached
<1>3. CASE c = Absent
  <2>1. GoTo(p, j, "query") /\ Fits(j, "query") /\ "query" \in Control
    BY <1>1, <1>2, <1>3 DEF Fits, Knows, Control
  <2>2. WorkersKept
    BY <1>1, <2>1, KeptQuiet
  <2> QED BY <1>1, <2>2, QuietSafe DEF SafeInv, TypeOK
<1>4. CASE c # Absent
  <2> DEFINE k == [j EXCEPT !.row = c]
  <2>1. c = cache /\ cache # Absent
    BY <1>2, <1>4 DEF Seen, Decoded
  <2>2. Copy(c) /\ c \in Row
    BY <2>1 DEF SafeInv, CacheFits, Copy
  <2>3. k \in Job /\ k.row = c /\ k.op = j.op
    BY <1>1, <2>2 DEF Job
  <2>4. AfterFind(k) = AfterFind(j)
    <3>1. k.op = j.op /\ k.media = j.media
      BY <1>1 DEF Job
    <3> QED BY <3>1 DEF AfterFind
  <2>5. k.op \in Finds
    BY <1>1, <2>3 DEF Fits
  <2>6. GoTo(p, k, AfterFind(k))
    BY <1>2, <1>4, <2>4
  <2> HIDE DEF k
  <2>7. AfterFind(k) \in Control /\ (AfterFind(k) # "idle" => Fits(k, AfterFind(k)))
    BY <2>2, <2>3, <2>5, AfterFindFits
  <2>8. WorkersKept
    BY <1>1, <2>3, <2>6, <2>7, KeptQuiet
  <2> QED BY <1>1, <2>8, QuietSafe DEF SafeInv, TypeOK
<1> QED BY <1>3, <1>4

LEMMA QuerySafe ==
  ASSUME SafeInv, NEW p \in Workers, Query(p)
  PROVE  SafeInv'
<1> DEFINE j == job[p]
           k == [j EXCEPT !.row = Visible]
           c == IF Visible = NoRow THEN "idle" ELSE "fill"
<1>1. /\ pc[p] = "query" /\ Fits(j, "query") /\ j \in Job /\ GoTo(p, k, c)
      /\ UNCHANGED <<row, keys, left, uploaded, wanted, raced, late>>
  BY Acting DEF Query, GoTo, history
<1>2. k.row = Visible /\ k.op = j.op /\ k \in Job
  <2>1. Visible \in Row \cup {NoRow}
    BY VisibleType DEF SafeInv
  <2> QED BY <1>1, <2>1 DEF Job
<1>3. c \in Control /\ (c # "idle" => Fits(k, c))
  <2>1. Visible # NoRow => Copy(Visible)
    BY VisibleCopy DEF SafeInv
  <2> QED BY <1>1, <1>2, <2>1 DEF Fits, Knows, Control
<1> HIDE DEF k, c
<1>4. WorkersKept
  BY <1>1, <1>2, <1>3, KeptQuiet
<1> QED BY <1>1, <1>4, QuietSafe DEF SafeInv, TypeOK

LEMMA FillSafe ==
  ASSUME SafeInv, NEW p \in Workers, Fill(p)
  PROVE  SafeInv'
<1> DEFINE j == job[p]
<1>1. /\ pc[p] = "fill" /\ Fits(j, "fill") /\ j \in Job /\ GoTo(p, j, AfterFind(j))
      /\ UNCHANGED <<row, list, count, left, uploaded, wanted, raced>>
  BY Acting DEF Fill, GoTo
<1>2. Copy(j.row) /\ j.row \in Row /\ j.op \in Finds
  BY <1>1 DEF Fits, Copy
<1>3. cache' \in {cache, j.row} /\ late' \in SUBSET Keys
  BY DEF Fill, Stale, SafeInv, TypeOK, Keys
<1> HIDE DEF j
<1>4. AfterFind(j) \in Control /\ (AfterFind(j) # "idle" => Fits(j, AfterFind(j)))
  BY <1>1, <1>2, AfterFindFits
<1>5. WorkersKept
  BY <1>1, <1>4, KeptQuiet DEF j
<1>6. CacheFits'
  BY <1>1, <1>2, <1>3 DEF SafeInv, CacheFits, Copy
<1>7. NothingBefore'
  BY <1>1 DEF SafeInv, NothingBefore
<1>8. cache' \in Row \cup {Absent}
  BY <1>2, <1>3 DEF SafeInv, TypeOK
<1> QED BY <1>1, <1>3, <1>5, <1>6, <1>7, <1>8, Assemble DEF SafeInv, TypeOK

\* The lists.
LEMMA GetListSafe ==
  ASSUME SafeInv, NEW p \in Workers, GetList(p)
  PROVE  SafeInv'
<1>1. PICK c \in {"querylist", "idle"} : GoTo(p, job[p], c)
  BY DEF GetList
<1>2. /\ pc[p] = "getlist" /\ Fits(job[p], "getlist")
      /\ UNCHANGED <<row, keys, left, uploaded, wanted, raced, late>>
  BY Acting DEF GetList, GoTo, history
<1>3. c \in Control /\ (c # "idle" => Fits(job[p], c))
  BY <1>1, <1>2 DEF Fits, Knows, Control
<1>4. WorkersKept
  BY <1>1, <1>2, <1>3, KeptQuiet
<1> QED BY <1>2, <1>4, QuietSafe DEF SafeInv, TypeOK

LEMMA QueryListSafe ==
  ASSUME SafeInv, NEW p \in Workers, QueryList(p)
  PROVE  SafeInv'
<1> DEFINE j == job[p]
           k == [j EXCEPT !.row = Visible]
<1>1. /\ pc[p] = "querylist" /\ Fits(j, "querylist") /\ j \in Job /\ GoTo(p, k, "filllist")
      /\ UNCHANGED <<row, keys, left, uploaded, wanted, raced, late>>
  BY Acting DEF QueryList, GoTo, history
<1>2. k.row = Visible /\ k.op = j.op /\ k \in Job
  <2>1. Visible \in Row \cup {NoRow}
    BY VisibleType DEF SafeInv
  <2> QED BY <1>1, <2>1 DEF Job
<1>3. "filllist" \in Control /\ Fits(k, "filllist")
  <2>1. Visible # NoRow => Copy(Visible)
    BY VisibleCopy DEF SafeInv
  <2> QED BY <1>1, <1>2, <2>1 DEF Fits, Knows, Control
<1> HIDE DEF k
<1>4. WorkersKept
  BY <1>1, <1>2, <1>3, KeptQuiet
<1> QED BY <1>1, <1>4, QuietSafe DEF SafeInv, TypeOK

LEMMA FillListSafe ==
  ASSUME SafeInv, NEW p \in Workers, FillList(p)
  PROVE  SafeInv'
<1>1. /\ pc[p] = "filllist" /\ Fits(job[p], "filllist") /\ GoTo(p, job[p], "idle")
      /\ list' = job[p].row
      /\ UNCHANGED <<row, cache, count, left, uploaded, wanted, raced>>
  BY Acting DEF FillList, GoTo
<1>2. late' \in SUBSET Keys
  BY DEF FillList, Stale, SafeInv, TypeOK, Keys
<1>3. WorkersKept
  BY <1>1, KeptQuiet DEF Control
<1>4. CacheFits'
  BY <1>1 DEF SafeInv, CacheFits, Copy
<1>5. job[p].row \in Row \cup {NoRow} /\ (row = NoRow => job[p].row = NoRow)
  BY <1>1, Acting DEF Fits, Copy
<1>6. NothingBefore'
  BY <1>1, <1>5 DEF SafeInv, NothingBefore
<1> QED BY <1>1, <1>2, <1>3, <1>4, <1>5, <1>6, Assemble DEF SafeInv, TypeOK

\* The count.
LEMMA GetCountSafe ==
  ASSUME SafeInv, NEW p \in Workers, GetCount(p)
  PROVE  SafeInv'
<1>1. PICK c \in {"querycount", "idle"} : GoTo(p, job[p], c)
  BY DEF GetCount
<1>2. /\ pc[p] = "getcount" /\ Fits(job[p], "getcount")
      /\ UNCHANGED <<row, keys, left, uploaded, wanted, raced, late>>
  BY Acting DEF GetCount, GoTo, history
<1>3. c \in Control /\ (c # "idle" => Fits(job[p], c))
  BY <1>1, <1>2 DEF Fits, Knows, Control
<1>4. WorkersKept
  BY <1>1, <1>2, <1>3, KeptQuiet
<1> QED BY <1>2, <1>4, QuietSafe DEF SafeInv, TypeOK

LEMMA QueryCountSafe ==
  ASSUME SafeInv, NEW p \in Workers, QueryCount(p)
  PROVE  SafeInv'
<1> DEFINE j == job[p]
           k == [j EXCEPT !.edit = Number]
<1>1. /\ pc[p] = "querycount" /\ Fits(j, "querycount") /\ j \in Job
      /\ GoTo(p, k, "fillcount")
      /\ UNCHANGED <<row, keys, left, uploaded, wanted, raced, late>>
  BY Acting DEF QueryCount, GoTo, history
<1>2. k.row = j.row /\ k.op = j.op /\ k \in Job /\ k.edit \in {0, 1}
  <2>1. Number \in {0, 1}
    BY VisibleType DEF SafeInv
  <2> QED BY <1>1, <2>1 DEF Job
<1>3. "fillcount" \in Control /\ Fits(k, "fillcount")
  BY <1>1, <1>2 DEF Fits, Knows, Control
<1> HIDE DEF k
<1>4. WorkersKept
  BY <1>1, <1>2, <1>3, KeptQuiet
<1> QED BY <1>1, <1>4, QuietSafe DEF SafeInv, TypeOK

LEMMA FillCountSafe ==
  ASSUME SafeInv, NEW p \in Workers, FillCount(p)
  PROVE  SafeInv'
<1>1. /\ pc[p] = "fillcount" /\ Fits(job[p], "fillcount") /\ GoTo(p, job[p], "idle")
      /\ count' = job[p].edit
      /\ UNCHANGED <<row, cache, list, left, uploaded, wanted, raced>>
  BY Acting DEF FillCount, GoTo
<1>2. late' \in SUBSET Keys
  BY DEF FillCount, Stale, SafeInv, TypeOK, Keys
<1>3. WorkersKept
  BY <1>1, KeptQuiet DEF Control
<1>4. CacheFits' /\ NothingBefore'
  BY <1>1 DEF SafeInv, CacheFits, NothingBefore, Copy
<1>5. count' \in {0, 1, Absent}
  BY <1>1 DEF Fits
<1> QED BY <1>1, <1>2, <1>3, <1>4, <1>5, Assemble DEF SafeInv, TypeOK
\* The row comes: nobody knew of it, and nobody else is about to insert one.
LEMMA InsertSafe ==
  ASSUME SafeInv, NEW p \in Workers, Insert(p)
  PROVE  SafeInv'
<1> DEFINE m == (job[p].media = "urls")
           r == [content |-> 0, media |-> m, deleted |-> FALSE, ver |-> 1]
<1>1. /\ pc[p] = "insert" /\ Fits(job[p], "insert") /\ job[p] \in Job
      /\ GoTo(p, job[p], "clear") /\ row' = r /\ wanted' = [wanted EXCEPT !.media = m]
      /\ UNCHANGED <<keys, left, uploaded, raced, late>>
  BY Acting DEF Insert, GoTo
<1>0. m \in BOOLEAN
  OBVIOUS
<1> HIDE DEF m
<1>2. row = NoRow /\ job[p].op = "create" /\ job[p].row = NoRow
  BY <1>1 DEF Fits, Copy
<1>3. r \in Row /\ row' \in Row /\ row' # NoRow
  <2>1. r \in Row
    BY <1>0 DEF Row
  <2> HIDE DEF r
  <2> QED BY <1>1, <2>1, PostsAssumption
<1>4. PICK j \in Job : j = job[p]
  BY <1>1
<1>5. Fits(j, "clear")'
  BY <1>2, <1>3, <1>4 DEF Fits, Knows, Writes
<1>6. Grows /\ Creates(p) /\ "clear" \in Control
  BY <1>1, <1>2 DEF Grows, Creates, Control
<1>7. WorkersKept
  BY <1>1, <1>4, <1>5, <1>6, Kept
<1>8. cache = Absent
  BY <1>2 DEF SafeInv, CacheFits, Copy
<1>9. CacheFits' /\ NothingBefore'
  BY <1>1, <1>3, <1>8 DEF CacheFits, NothingBefore, keys
<1>10. wanted' \in [content : Nat, media : BOOLEAN, deleted : BOOLEAN]
  BY <1>0, <1>1 DEF SafeInv, TypeOK
<1> QED BY <1>1, <1>3, <1>7, <1>9, <1>10, Assemble DEF SafeInv, TypeOK, keys

LEMMA UploadSafe ==
  ASSUME SafeInv, NEW p \in Workers, Upload(p)
  PROVE  SafeInv'
<1> DEFINE j == job[p]
           k == [j EXCEPT !.op = "attach", !.row = NoRow]
<1>1. /\ pc[p] = "upload" /\ Fits(j, "upload") /\ j \in Job
      /\ GoTo(p, k, "get") \/ GoTo(p, j, "idle")
      /\ UNCHANGED <<row, keys, left, uploaded, wanted, raced, late>>
  BY Acting DEF Upload, GoTo, history
<1>2. k \in Job /\ k.op = "attach" /\ k.row = NoRow
  BY <1>1 DEF Job, Op
<1>3. Fits(k, "get")
  BY <1>1, <1>2 DEF Fits, Knows, Finds, Writes
<1>4. {"get", "idle"} \subseteq Control
  BY DEF Control
<1> HIDE DEF k
<1>5. WorkersKept
  BY <1>1, <1>2, <1>3, <1>4, KeptQuiet
<1> QED BY <1>1, <1>5, QuietSafe DEF SafeInv, TypeOK

\* What an update makes of its copy.
LEMMA ChangedRow ==
  ASSUME TypeOK, NEW j \in Job, Copy(j.row), j.op \in Writes
  PROVE  /\ Changed(j) \in Row
         /\ Changed(j).ver = row.ver + 1
         /\ ~Changed(j).deleted
         /\ Changed(j).content = IF j.op = "edit" THEN j.edit ELSE j.row.content
         /\ Changed(j).media = CASE j.op = "attach" -> TRUE
                                 [] j.op = "edit"   -> j.row.media
                                 [] j.op = "strip"  -> FALSE
<1> DEFINE r == [j.row EXCEPT !.ver = row.ver + 1]
<1>1. row \in Row /\ j.row \in Row /\ ~j.row.deleted /\ j.edit \in Nat
  BY DEF TypeOK, Copy, Job
<1>2. /\ r \in Row /\ r.ver = row.ver + 1 /\ ~r.deleted
      /\ r.content = j.row.content /\ r.media = j.row.media
  BY <1>1 DEF Row
<1>3. Changed(j) = CASE j.op = "attach" -> [r EXCEPT !.media = TRUE]
                     [] j.op = "edit"   -> [r EXCEPT !.content = j.edit]
                     [] j.op = "strip"  -> [r EXCEPT !.media = FALSE]
  BY DEF Changed
<1> HIDE DEF r
<1>4. CASE j.op = "attach"
  BY <1>2, <1>3, <1>4 DEF Row
<1>5. CASE j.op = "edit"
  BY <1>1, <1>2, <1>3, <1>5 DEF Row
<1>6. CASE j.op = "strip"
  BY <1>2, <1>3, <1>6 DEF Row
<1> QED BY <1>4, <1>5, <1>6 DEF Writes

\* The update that writes: its copy, and the new version it makes of it.
LEMMA Saving ==
  ASSUME SafeInv, NEW p \in Workers, Save(p)
  PROVE  /\ pc[p] = "save" /\ job[p] \in Job /\ job[p].op \in Writes
         /\ Copy(job[p].row) /\ row \in Row
         /\ row' = Changed(job[p]) /\ Changed(job[p]) \in Row
         /\ Changed(job[p]).ver = row.ver + 1 /\ ~Changed(job[p]).deleted
         /\ GoTo(p, [job[p] EXCEPT !.row = Changed(job[p])], "set")
<1>1. pc[p] = "save" /\ Fits(job[p], "save") /\ job[p] \in Job
  BY Acting DEF Save
<1>2. Copy(job[p].row) /\ job[p].op \in Writes /\ row \in Row
  BY <1>1 DEF Fits, Copy, SafeInv, TypeOK
<1> QED BY <1>1, <1>2, ChangedRow DEF Save, SafeInv

LEMMA SaveSafe ==
  ASSUME SafeInv, NEW p \in Workers, Save(p)
  PROVE  SafeInv'
<1>1. /\ pc[p] = "save" /\ job[p] \in Job /\ job[p].op \in Writes /\ row \in Row
      /\ row' = Changed(job[p]) /\ Changed(job[p]) \in Row
      /\ Changed(job[p]).ver = row.ver + 1 /\ ~Changed(job[p]).deleted
      /\ GoTo(p, [job[p] EXCEPT !.row = Changed(job[p])], "set")
  BY Saving
<1>2. PICK j \in Job, n \in Row : j = job[p] /\ n = Changed(job[p])
  BY <1>1
<1>3. PICK k : k = [j EXCEPT !.row = n]
  OBVIOUS
<1>4. k \in Job /\ k.row = n /\ k.op = j.op /\ k.op \in Writes
  BY <1>1, <1>2, <1>3 DEF Job
<1>5. /\ row' = n /\ n.ver = row.ver + 1 /\ ~n.deleted /\ n.ver \in Nat
      /\ GoTo(p, k, "set")
  BY <1>1, <1>2, <1>3 DEF Row
<1>6. row # NoRow /\ row' # NoRow /\ Grows
  BY <1>1, <1>2, <1>5, PostsAssumption DEF Grows
<1>7. Fits(k, "set")'
  <2>1. Copy(n)'
    BY <1>5, <1>6 DEF Copy
  <2>2. n # NoRow
    BY PostsAssumption
  <2> QED BY <1>4, <1>6, <2>1, <2>2 DEF Fits, Writes, Knows
<1>8. WorkersKept
  <2>1. k.op = "create" => job[p].op = "create"
    BY <1>2, <1>4
  <2>2. "set" \in Control /\ pc[p] # "idle"
    BY <1>1 DEF Control
  <2> QED BY <1>5, <1>6, <1>7, <2>1, <2>2, Kept
<1>9. UNCHANGED <<cache, list, count, uploaded, left>>
  BY DEF Save, GoTo, keys
<1>10. wanted' \in [content : Nat, media : BOOLEAN, deleted : BOOLEAN]
  <2>1. wanted \in [content : Nat, media : BOOLEAN, deleted : BOOLEAN] /\ j.edit \in Nat
    BY DEF SafeInv, TypeOK, Job
  <2>2. wanted' = CASE j.op = "attach" -> [wanted EXCEPT !.media = TRUE]
                    [] j.op = "edit"   -> [wanted EXCEPT !.content = j.edit]
                    [] j.op = "strip"  -> [wanted EXCEPT !.media = FALSE]
    BY <1>2 DEF Save
  <2> QED BY <1>4, <2>1, <2>2 DEF Writes
<1>11. raced' \in BOOLEAN /\ late' \in SUBSET Keys
  BY DEF Save, SafeInv, TypeOK, Keys
<1>12. CacheFits'
  <2>1. PICK c : c = cache
    OBVIOUS
  <2>2. c # Absent => Copy(c)'
    BY <1>6, <2>1, CopyStays DEF SafeInv, CacheFits
  <2> QED BY <1>9, <2>1, <2>2 DEF CacheFits, Copy
<1>13. NothingBefore'
  BY <1>6 DEF NothingBefore
<1> QED BY <1>5, <1>8, <1>9, <1>10, <1>11, <1>12, <1>13, Assemble DEF SafeInv, TypeOK
LEMMA SetCachedSafe ==
  ASSUME SafeInv, NEW p \in Workers, SetCached(p)
  PROVE  SafeInv'
<1> DEFINE j == job[p]
<1>1. /\ pc[p] = "set" /\ Fits(j, "set") /\ j \in Job /\ GoTo(p, j, "clear")
      /\ UNCHANGED <<row, list, count, left, uploaded, wanted, raced>>
  BY Acting DEF SetCached, GoTo
<1>2. Copy(j.row) /\ j.row \in Row
  BY <1>1 DEF Fits, Copy
<1>3. cache' \in {cache, j.row} /\ late' \in SUBSET Keys
  BY DEF SetCached, Stale, SafeInv, TypeOK, Keys
<1>4. "clear" \in Control /\ Fits(j, "clear")
  BY <1>1 DEF Control, Fits, Knows
<1> HIDE DEF j
<1>5. WorkersKept
  BY <1>1, <1>4, KeptQuiet DEF j
<1>6. CacheFits'
  BY <1>1, <1>2, <1>3 DEF SafeInv, CacheFits, Copy
<1>7. NothingBefore'
  BY <1>1 DEF SafeInv, NothingBefore
<1>8. cache' \in Row \cup {Absent}
  BY <1>2, <1>3 DEF SafeInv, TypeOK
<1> QED BY <1>1, <1>3, <1>5, <1>6, <1>7, <1>8, Assemble DEF SafeInv, TypeOK

LEMMA ClearListSafe ==
  ASSUME SafeInv, NEW p \in Workers, ClearList(p)
  PROVE  SafeInv'
<1> DEFINE j == job[p]
           k == [j EXCEPT !.op = IF @ = "attach" THEN "announce" ELSE "reload", !.row = NoRow]
<1>1. /\ pc[p] = "clear" /\ Fits(j, "clear") /\ j \in Job
      /\ IF j.op = "create" THEN GoTo(p, j, "uncount") ELSE GoTo(p, k, "get")
      /\ UNCHANGED <<row, cache, count, left, uploaded, wanted, raced>>
  BY Acting DEF ClearList, GoTo
<1>2. list' \in {list, Absent} /\ late' \in SUBSET Keys
  BY DEF ClearList, Stale, SafeInv, TypeOK, Keys
<1>3. {"uncount", "get"} \subseteq Control
  BY DEF Control
<1>4. WorkersKept
  <2>1. CASE j.op = "create"
    <3>1. Fits(j, "uncount")
      BY <1>1, <2>1 DEF Fits, Knows
    <3> QED BY <1>1, <1>3, <2>1, <3>1, KeptQuiet
  <2>2. CASE j.op # "create"
    <3>1. k.op = IF j.op = "attach" THEN "announce" ELSE "reload"
      BY <1>1 DEF Job
    <3>2. k.row = NoRow
      BY <1>1 DEF Job
    <3>3. k \in Job
      BY <1>1 DEF Job, Op
    <3>4. Fits(k, "get") /\ k.op # "create"
      BY <1>1, <3>1, <3>2, <3>3 DEF Fits, Knows, Finds
    <3>5. GoTo(p, k, "get")
      BY <1>1, <2>2
    <3> HIDE DEF k
    <3> QED BY <1>1, <1>3, <3>4, <3>5, KeptQuiet
  <2> QED BY <2>1, <2>2
<1>5. CacheFits' /\ NothingBefore'
  BY <1>1, <1>2 DEF SafeInv, CacheFits, NothingBefore, Copy
<1>6. list' \in Row \cup {NoRow, Absent}
  BY <1>2 DEF SafeInv, TypeOK
<1> QED BY <1>1, <1>2, <1>4, <1>5, <1>6, Assemble DEF SafeInv, TypeOK

LEMMA ClearCountSafe ==
  ASSUME SafeInv, NEW p \in Workers, ClearCount(p)
  PROVE  SafeInv'
<1>1. /\ pc[p] = "uncount" /\ Fits(job[p], "uncount") /\ GoTo(p, job[p], "get")
      /\ UNCHANGED <<row, cache, list, left, uploaded, wanted, raced>>
  BY Acting DEF ClearCount, GoTo
<1>2. count' \in {count, Absent} /\ late' \in SUBSET Keys
  BY DEF ClearCount, Stale, SafeInv, TypeOK, Keys
<1>3. "get" \in Control /\ Fits(job[p], "get")
  BY <1>1 DEF Control, Fits, Knows, Finds
<1>4. WorkersKept
  BY <1>1, <1>3, KeptQuiet
<1>5. CacheFits' /\ NothingBefore'
  BY <1>1 DEF SafeInv, CacheFits, NothingBefore, Copy
<1>6. count' \in {0, 1, Absent}
  BY <1>2 DEF SafeInv, TypeOK
<1> QED BY <1>1, <1>2, <1>4, <1>5, <1>6, Assemble DEF SafeInv, TypeOK

LEMMA SelectForDeleteSafe ==
  ASSUME SafeInv, NEW p \in Workers, SelectForDelete(p)
  PROVE  SafeInv'
<1>1. PICK c \in {"idle", "remove"} : GoTo(p, job[p], c)
  BY DEF SelectForDelete
<1>2. /\ pc[p] = "select" /\ Fits(job[p], "select")
      /\ UNCHANGED <<row, keys, left, uploaded, wanted, raced, late>>
  BY Acting DEF SelectForDelete, GoTo, history
<1>3. c \in Control /\ (c # "idle" => Fits(job[p], c))
  BY <1>1, <1>2 DEF Fits, Knows, Control
<1>4. WorkersKept
  BY <1>1, <1>2, <1>3, KeptQuiet
<1> QED BY <1>2, <1>4, QuietSafe DEF SafeInv, TypeOK

\* The deletion: a new version, or nothing if the row is deleted already.
LEMMA Removing ==
  ASSUME SafeInv, NEW p \in Workers, Remove(p)
  PROVE  /\ pc[p] = "remove" /\ Fits(job[p], "remove") /\ job[p] \in Job
         /\ row \in Row /\ row' \in Row
         /\ row'.deleted /\ row'.content = row.content /\ row'.media = row.media
         /\ row' = row \/ (~row.deleted /\ row'.ver = row.ver + 1
                             /\ row = [row' EXCEPT !.deleted = FALSE, !.ver = @ - 1])
<1>1. pc[p] = "remove" /\ Fits(job[p], "remove") /\ job[p] \in Job
  BY Acting DEF Remove
<1>2. row \in Row
  BY <1>1 DEF Fits, Knows, SafeInv, TypeOK
<1>3. row' = IF row.deleted THEN row ELSE [row EXCEPT !.deleted = TRUE, !.ver = @ + 1]
  BY DEF Remove
<1>4. CASE row.deleted
  BY <1>1, <1>2, <1>3, <1>4
<1>5. CASE ~row.deleted
  <2>1. /\ row' \in Row /\ row'.deleted = TRUE /\ row'.content = row.content
        /\ row'.media = row.media /\ row'.ver = row.ver + 1
    <3>1. row' = [row EXCEPT !.deleted = TRUE, !.ver = @ + 1]
      BY <1>3, <1>5
    <3>2. row.ver \in Nat /\ row = [content |-> row.content, media |-> row.media,
                                   deleted |-> row.deleted, ver |-> row.ver]
      BY <1>2 DEF Row
    <3>3. row' = [content |-> row.content, media |-> row.media,
                  deleted |-> TRUE, ver |-> row.ver + 1]
      BY <3>1, <3>2
    <3> QED BY <1>2, <3>2, <3>3 DEF Row
  <2>2. row'.ver - 1 = row.ver /\ row.deleted = FALSE
    BY <1>2, <1>5, <2>1 DEF Row
  <2>3. row = [row' EXCEPT !.deleted = FALSE, !.ver = @ - 1]
    BY <1>2, <2>1, <2>2 DEF Row
  <2> QED BY <1>1, <1>2, <1>5, <2>1, <2>3
<1> QED BY <1>4, <1>5

LEMMA RemoveSafe ==
  ASSUME SafeInv, NEW p \in Workers, Remove(p)
  PROVE  SafeInv'
<1>1. /\ pc[p] = "remove" /\ Fits(job[p], "remove") /\ job[p] \in Job
      /\ row \in Row /\ row' \in Row
      /\ row' = row \/ row'.ver = row.ver + 1
  BY Removing
<1>2. /\ GoTo(p, job[p], "forget") /\ wanted' = [wanted EXCEPT !.deleted = TRUE]
      /\ UNCHANGED <<cache, list, count, left, uploaded, raced, late>>
  BY DEF Remove, GoTo, keys
<1>3. row # NoRow /\ row' # NoRow /\ Grows
  BY <1>1, PostsAssumption DEF Grows
<1>4. PICK j \in Job : j = job[p]
  BY <1>1
<1>5. Fits(j, "forget")
  BY <1>1, <1>3, <1>4 DEF Fits, Knows
<1>6. Fits(j, "forget")'
  BY <1>3, <1>5, FitsStays DEF SafeInv
<1>7. WorkersKept
  <2>1. "forget" \in Control /\ pc[p] # "idle"
    BY <1>1 DEF Control
  <2> QED BY <1>2, <1>3, <1>4, <1>6, <2>1, Kept
<1>8. CacheFits'
  <2>1. PICK c : c = cache
    OBVIOUS
  <2>2. c # Absent => Copy(c)'
    BY <1>3, <2>1, CopyStays DEF SafeInv, CacheFits
  <2> QED BY <1>2, <2>1, <2>2 DEF CacheFits, Copy
<1>9. NothingBefore'
  BY <1>3 DEF NothingBefore
<1>10. wanted' \in [content : Nat, media : BOOLEAN, deleted : BOOLEAN]
  BY <1>2 DEF SafeInv, TypeOK
<1> QED BY <1>1, <1>2, <1>7, <1>8, <1>9, <1>10, Assemble DEF SafeInv, TypeOK

LEMMA ForgetSafe ==
  ASSUME SafeInv, NEW p \in Workers, Forget(p)
  PROVE  SafeInv'
<1>1. /\ pc[p] = "forget" /\ GoTo(p, job[p], "idle") /\ "idle" \in Control
      /\ UNCHANGED <<row, list, count, left, uploaded, wanted, raced>>
  BY DEF Forget, GoTo, Control
<1>2. cache' \in {cache, Absent} /\ late' \in SUBSET Keys
  BY DEF Forget, Stale, SafeInv, TypeOK, Keys
<1>3. WorkersKept
  BY <1>1, KeptQuiet
<1>4. CacheFits' /\ NothingBefore' /\ cache' \in Row \cup {Absent}
  BY <1>1, <1>2 DEF SafeInv, TypeOK, CacheFits, NothingBefore, Copy
<1> QED BY <1>1, <1>2, <1>3, <1>4, Assemble DEF SafeInv, TypeOK

\* A worker that notifies its user, and one that fails.
LEMMA EndSafe ==
  ASSUME SafeInv, NEW p \in Workers, Notify(p) \/ Abort(p)
  PROVE  SafeInv'
<1>1. /\ pc[p] # "idle" /\ GoTo(p, job[p], "idle") /\ "idle" \in Control
      /\ UNCHANGED <<row, keys, left, wanted, raced>>
  BY DEF Notify, Abort, GoTo, Control
<1>2. uploaded' \in BOOLEAN
  BY DEF Notify, Abort, SafeInv, TypeOK
<1>3. late' \in SUBSET Keys
  <2>1. CASE Notify(p)
    BY <2>1 DEF Notify, SafeInv, TypeOK
  <2>2. CASE Abort(p)
    <3> DEFINE lost == CASE pc[p] = "set"     -> {"post", "list"}
                         [] pc[p] = "clear"   -> {"list", "count"}
                         [] pc[p] = "uncount" -> {"count"}
                         [] pc[p] = "forget"  -> {"post"}
                         [] OTHER             -> {}
    <3>1. late' = late \cup lost
      BY <2>2 DEF Abort
    <3>2. lost \in SUBSET Keys
      BY DEF Keys
    <3> HIDE DEF lost
    <3> QED BY <3>1, <3>2 DEF SafeInv, TypeOK
  <2> QED BY <2>1, <2>2
<1>4. WorkersKept
  BY <1>1, KeptQuiet
<1> QED BY <1>1, <1>2, <1>3, <1>4, QuietSafe

LEMMA ExpireSafe ==
  ASSUME SafeInv, NEW k \in Keys, Expire(k)
  PROVE  SafeInv'
<1>1. /\ UNCHANGED <<row, pc, job, left, uploaded, wanted, raced>>
      /\ late' = late \ {k}
  BY DEF Expire
<1>2. /\ cache' \in {cache, Absent} /\ list' \in {list, Absent} /\ count' \in {count, Absent}
  BY DEF Expire, Keys
<1>3. WorkersKept
  BY <1>1 DEF WorkersKept, SafeInv, TypeOK, WorkersFit, OneCreator, Creates, Fits, Copy
<1>4. CacheFits' /\ NothingBefore'
  BY <1>1, <1>2 DEF SafeInv, CacheFits, NothingBefore, Copy
<1> QED BY <1>1, <1>2, <1>3, <1>4, Assemble DEF SafeInv, TypeOK

\* A request arrives; the one that creates the post is alone with that.
LEMMA TakeSafe ==
  ASSUME SafeInv, NEW p \in Workers, NEW op \in Op, NEW edit \in Nat,
         NEW media \in Media, NEW c \in Control \ {"idle"}, Take(p, op, edit, media, c),
         Fits(Request(op, edit, media), c),
         op = "create" => \A q \in Workers : ~Creates(q)
  PROVE  SafeInv'
<1>1. PICK r : r = Request(op, edit, media)
  OBVIOUS
<1>2. /\ pc[p] = "idle" /\ pc' = [pc EXCEPT ![p] = c] /\ job' = [job EXCEPT ![p] = r]
      /\ UNCHANGED <<row, keys, uploaded, wanted, raced, late>>
      /\ left > 0 /\ left' = left - 1
  BY <1>1 DEF Take, history
<1>3. r \in Job /\ r.op = op
  BY <1>1, PostsAssumption DEF Request, Job, Media
<1>4. pc \in [Workers -> Control] /\ job \in [Workers -> Job \cup {NoRow}]
  BY DEF SafeInv, TypeOK
<1>5. /\ pc' \in [Workers -> Control] /\ job' \in [Workers -> Job \cup {NoRow}]
      /\ pc'[p] = c /\ job'[p] = r
      /\ \A q \in Workers \ {p} : pc'[q] = pc[q] /\ job'[q] = job[q]
  BY <1>2, <1>3, <1>4
<1>6. WorkersFit'
  <2>1. ASSUME NEW q \in Workers, pc'[q] # "idle"
        PROVE  Fits(job[q], pc[q])'
    <3>1. CASE q = p
      BY <1>1, <1>2, <1>5, <3>1 DEF Fits, Copy
    <3>2. CASE q # p
      BY <1>2, <1>5, <2>1, <3>2 DEF SafeInv, WorkersFit, Fits, Copy
    <3> QED BY <3>1, <3>2
  <2> QED BY <2>1 DEF WorkersFit
<1>7. OneCreator'
  <2>1. \A q \in Workers \ {p} : Creates(q)' <=> Creates(q)
    BY <1>5 DEF Creates
  <2>2. Creates(p)' => \A q \in Workers : ~Creates(q)
    BY <1>3, <1>5 DEF Creates
  <2> QED BY <2>1, <2>2 DEF SafeInv, OneCreator
<1>8. WorkersKept
  BY <1>5, <1>6, <1>7 DEF WorkersKept
<1>9. left' \in 0..Budget
  BY <1>2, PostsAssumption DEF SafeInv, TypeOK
<1>10. NothingBefore' /\ CacheFits'
  BY <1>2 DEF SafeInv, NothingBefore, CacheFits, Copy, keys
<1> QED BY <1>2, <1>8, <1>9, <1>10, Assemble DEF SafeInv, TypeOK, keys
LEMMA BeginSafe ==
  ASSUME SafeInv, NEW p \in Workers, Begin(p)
  PROVE  SafeInv'
<1> USE DEF Op, Control
<1>1. ASSUME NEW op \in Op \ {"create"}, NEW edit \in Nat, NEW c \in Control \ {"idle"},
             Take(p, op, edit, "none", c), c \in Knows => row # NoRow,
             c \in {"get", "getlist", "getcount"}, c = "get" => op \in Finds
      PROVE  SafeInv'
  <2>1. Fits(Request(op, edit, "none"), c)
    BY <1>1, PostsAssumption DEF Fits, Request, Job, Media
  <2>2. "none" \in Media
    BY DEF Media
  <2> QED BY <1>1, <2>1, <2>2, TakeSafe
<1>2. CASE CreatePost(p)
  <2>1. PICK media \in Media : Take(p, "create", 0, media, "insert")
    BY <1>2 DEF CreatePost
  <2>2. row = NoRow /\ \A q \in Workers : ~Creates(q)
    BY <1>2 DEF CreatePost, Creates
  <2>3. Fits(Request("create", 0, media), "insert")
    BY <2>2, PostsAssumption DEF Fits, Request, Job, Media, Knows
  <2> QED BY <2>1, <2>2, <2>3, TakeSafe
<1>3. CASE UpdatePost(p)
  <2>1. PICK op \in {"edit", "strip"} : row # NoRow /\ Take(p, op, left, "none", "get")
    BY <1>3 DEF UpdatePost
  <2>2. left \in Nat
    BY PostsAssumption DEF SafeInv, TypeOK
  <2>3. op \in Op \ {"create"} /\ op \in Finds
    BY DEF Finds, Writes
  <2> QED BY <1>1, <2>1, <2>2, <2>3
<1>4. CASE DeletePost(p)
  BY <1>1, <1>4 DEF DeletePost, Ask, Finds
<1>5. CASE GetPostByID(p)
  BY <1>1, <1>5 DEF GetPostByID, Ask, Finds
<1>6. CASE GetFeed(p)
  BY <1>1, <1>6 DEF GetFeed, Ask, Knows
<1>7. CASE CountPostsByUserID(p)
  BY <1>1, <1>7 DEF CountPostsByUserID, Ask, Knows
<1> QED BY <1>2, <1>3, <1>4, <1>5, <1>6, <1>7 DEF Begin

LEMMA ServeSafe ==
  ASSUME SafeInv, NEW p \in Workers, Serve(p)
  PROVE  SafeInv'
BY GetCachedSafe, QuerySafe, FillSafe, GetListSafe, QueryListSafe, FillListSafe,
   GetCountSafe, QueryCountSafe, FillCountSafe, InsertSafe, UploadSafe, SaveSafe,
   SetCachedSafe, ClearListSafe, ClearCountSafe, SelectForDeleteSafe, RemoveSafe,
   ForgetSafe, EndSafe
DEF Serve

LEMMA SafeInvInit == Init => SafeInv
<1> SUFFICES ASSUME Init PROVE SafeInv
  OBVIOUS
<1>1. TypeOK
  <2>1. pc \in [Workers -> Control] /\ \A p \in Workers : pc[p] = "idle"
    BY DEF Init, Control
  <2>2. job \in [Workers -> Job \cup {NoRow}]
    BY DEF Init
  <2>3. left \in 0..Budget
    BY PostsAssumption DEF Init
  <2>4. wanted \in [content : Nat, media : BOOLEAN, deleted : BOOLEAN]
    BY DEF Init
  <2> QED BY <2>1, <2>2, <2>3, <2>4 DEF Init, TypeOK, Keys
<1>2. WorkersFit /\ OneCreator
  BY DEF Init, WorkersFit, OneCreator, Creates
<1>3. NothingBefore /\ CacheFits
  BY DEF Init, NothingBefore, CacheFits
<1> QED BY <1>1, <1>2, <1>3 DEF SafeInv

LEMMA SafeInvNext == SafeInv /\ [Next]_vars => SafeInv'
<1> SUFFICES ASSUME SafeInv, [Next]_vars
             PROVE  SafeInv'
  OBVIOUS
<1>1. CASE UNCHANGED vars
  BY <1>1 DEF vars, SafeInv, TypeOK, WorkersFit, Fits, Copy, OneCreator, Creates,
              NothingBefore, CacheFits
<1>2. CASE Next
  BY <1>2, BeginSafe, ServeSafe, EndSafe, ExpireSafe DEF Next
<1> QED BY <1>1, <1>2

LEMMA Safety == Spec => []SafeInv
BY SafeInvInit, SafeInvNext, PTL DEF Spec

\* Every state is well typed; in particular a worker that is about to write, cache or
\* delete the post works on a row that exists.
THEOREM TypeCorrect == Spec => []TypeOK
BY Safety, PTL DEF SafeInv

----------------------------------------------------------------------------
(* No change that was acknowledged is lost.                                *)

\* All steps but three leave the row and its history alone.
LEMMA RowRests ==
  ASSUME [Next]_vars
  PROVE  \/ UNCHANGED <<row, wanted, raced>>
         \/ \E p \in Workers : Insert(p) \/ Save(p) \/ Remove(p)
<1>1. CASE UNCHANGED vars
  BY <1>1 DEF vars
<1>2. ASSUME NEW p \in Workers, Begin(p) PROVE UNCHANGED <<row, wanted, raced>>
  BY <1>2 DEF Begin, CreatePost, UpdatePost, DeletePost, GetPostByID, GetFeed,
              CountPostsByUserID, Ask, Take, history
<1>3. ASSUME NEW p \in Workers, Serve(p), ~(Insert(p) \/ Save(p) \/ Remove(p))
      PROVE  UNCHANGED <<row, wanted, raced>>
  BY <1>3 DEF Serve, GetCached, Query, Fill, GetList, QueryList, FillList, GetCount,
              QueryCount, FillCount, Upload, SetCached, ClearList, ClearCount,
              SelectForDelete, Forget, Notify, history
<1>4. ASSUME NEW p \in Workers, Abort(p) PROVE UNCHANGED <<row, wanted, raced>>
  BY <1>4 DEF Abort
<1>5. ASSUME NEW k \in Keys, Expire(k) PROVE UNCHANGED <<row, wanted, raced>>
  BY <1>5 DEF Expire
<1> QED BY <1>1, <1>2, <1>3, <1>4, <1>5 DEF Next

LEMMA SurviveStep ==
  SafeInv /\ AcknowledgedChangesSurvive /\ [Next]_vars => AcknowledgedChangesSurvive'
<1> SUFFICES ASSUME SafeInv, AcknowledgedChangesSurvive, [Next]_vars
             PROVE  AcknowledgedChangesSurvive'
  OBVIOUS
<1>1. CASE UNCHANGED <<row, wanted, raced>>
  BY <1>1 DEF AcknowledgedChangesSurvive
<1>2. ASSUME NEW p \in Workers, Insert(p) PROVE AcknowledgedChangesSurvive'
  <2>1. row = NoRow
    BY <1>2, Acting DEF Insert, Fits
  <2>2. /\ wanted = [content |-> 0, media |-> FALSE, deleted |-> FALSE]
        /\ wanted' = [wanted EXCEPT !.media = job[p].media = "urls"]
    BY <1>2, <2>1 DEF SafeInv, NothingBefore, Insert
  <2>3. row' = [content |-> 0, media |-> job[p].media = "urls", deleted |-> FALSE, ver |-> 1]
    BY <1>2 DEF Insert
  <2> QED BY <2>2, <2>3 DEF AcknowledgedChangesSurvive
<1>3. ASSUME NEW p \in Workers, Save(p), ~raced' PROVE AcknowledgedChangesSurvive'
  <2> DEFINE j == job[p]
  <2>1. /\ j \in Job /\ j.op \in Writes /\ Copy(j.row) /\ row' = Changed(j)
    BY <1>3, Saving
  <2>2. ~raced /\ j.row.ver = row.ver
    BY <1>3 DEF Save
  <2>3. j.row = row /\ row # NoRow /\ ~row.deleted
    BY <2>1, <2>2 DEF Copy
  <2>4. row.content = wanted.content /\ row.media = wanted.media
          /\ row.deleted = wanted.deleted
    BY <2>2, <2>3 DEF AcknowledgedChangesSurvive
  <2>5. /\ ~row'.deleted /\ row' \in Row
        /\ row'.content = IF j.op = "edit" THEN j.edit ELSE row.content
        /\ row'.media = CASE j.op = "attach" -> TRUE
                          [] j.op = "edit"   -> row.media
                          [] j.op = "strip"  -> FALSE
    BY <2>1, <2>3, ChangedRow DEF SafeInv
  <2>6. wanted' = CASE j.op = "attach" -> [wanted EXCEPT !.media = TRUE]
                    [] j.op = "edit"   -> [wanted EXCEPT !.content = j.edit]
                    [] j.op = "strip"  -> [wanted EXCEPT !.media = FALSE]
    BY <1>3 DEF Save
  <2>7. wanted \in [content : Nat, media : BOOLEAN, deleted : BOOLEAN]
    BY DEF SafeInv, TypeOK
  <2> HIDE DEF j
  <2>8. CASE j.op = "attach"
    <3>1. wanted' = [wanted EXCEPT !.media = TRUE]
      BY <2>6, <2>8
    <3>2. wanted'.media = TRUE /\ wanted'.content = wanted.content
            /\ wanted'.deleted = wanted.deleted
      BY <2>7, <3>1
    <3>3. row'.media = TRUE /\ row'.content = row.content
      BY <2>5, <2>8
    <3>4. row'.deleted = row.deleted
      BY <2>3, <2>5, <2>4, <2>7 DEF Row
    <3> QED BY <2>4, <3>2, <3>3, <3>4 DEF AcknowledgedChangesSurvive
  <2>9. CASE j.op = "edit"
    <3>1. wanted' = [wanted EXCEPT !.content = j.edit]
      BY <2>6, <2>9
    <3>2. wanted'.media = wanted.media /\ wanted'.content = j.edit
            /\ wanted'.deleted = wanted.deleted
      BY <2>7, <3>1
    <3>3. row'.media = row.media /\ row'.content = j.edit
      BY <2>5, <2>9
    <3>4. row'.deleted = row.deleted
      BY <2>3, <2>5, <2>4, <2>7 DEF Row
    <3> QED BY <2>4, <3>2, <3>3, <3>4 DEF AcknowledgedChangesSurvive
  <2>10. CASE j.op = "strip"
    <3>1. wanted' = [wanted EXCEPT !.media = FALSE]
      BY <2>6, <2>10
    <3>2. wanted'.media = FALSE /\ wanted'.content = wanted.content
            /\ wanted'.deleted = wanted.deleted
      BY <2>7, <3>1
    <3>3. row'.media = FALSE /\ row'.content = row.content
      BY <2>5, <2>10
    <3>4. row'.deleted = row.deleted
      BY <2>3, <2>5, <2>4, <2>7 DEF Row
    <3> QED BY <2>4, <3>2, <3>3, <3>4 DEF AcknowledgedChangesSurvive
  <2> QED BY <2>1, <2>8, <2>9, <2>10 DEF Writes
<1>4. ASSUME NEW p \in Workers, Remove(p) PROVE AcknowledgedChangesSurvive'
  <2>1. /\ row'.deleted /\ row'.content = row.content /\ row'.media = row.media
        /\ row \in Row /\ row' \in Row
    BY <1>4, Removing
  <2>2. wanted' = [wanted EXCEPT !.deleted = TRUE] /\ raced' = raced
    BY <1>4 DEF Remove
  <2>3. wanted'.deleted = TRUE /\ wanted'.content = wanted.content
          /\ wanted'.media = wanted.media
    BY <2>2 DEF SafeInv, TypeOK
  <2>4. row'.deleted = TRUE /\ row # NoRow
    BY <2>1, PostsAssumption DEF Row
  <2> QED BY <2>1, <2>2, <2>3, <2>4 DEF AcknowledgedChangesSurvive
<1>5. CASE raced'
  BY <1>5 DEF AcknowledgedChangesSurvive
<1> QED BY <1>1, <1>2, <1>3, <1>4, <1>5, RowRests

\* Unless a row is written back that had changed since it was read, every edit, upload
\* and deletion is in the row until another is meant to change it: neither the cache
\* nor the detour through it loses or revives anything.
THEOREM ChangesSurvive == Spec => []AcknowledgedChangesSurvive
<1>1. Init => AcknowledgedChangesSurvive
  BY DEF Init, AcknowledgedChangesSurvive
<1> QED BY <1>1, SurviveStep, Safety, PTL DEF Spec
----------------------------------------------------------------------------
(* The cache follows what is written.                                      *)

\* A worker's step leaves the others where they are.
LEMMA OthersWait ==
  ASSUME SafeInv, NEW p \in Workers, Begin(p) \/ Serve(p) \/ Abort(p)
  PROVE  \A q \in Workers \ {p} : pc'[q] = pc[q] /\ job'[q] = job[q]
<1>1. pc \in [Workers -> Control] /\ job \in [Workers -> Job \cup {NoRow}]
  BY DEF SafeInv, TypeOK
<1>2. \A j, c : GoTo(p, j, c) =>
        \A q \in Workers \ {p} : pc'[q] = pc[q] /\ job'[q] = job[q]
  BY <1>1 DEF GoTo
<1>3. \A op, edit, media, c : Take(p, op, edit, media, c) =>
        \A q \in Workers \ {p} : pc'[q] = pc[q] /\ job'[q] = job[q]
  BY <1>1 DEF Take
<1>4. CASE Begin(p)
  BY <1>3, <1>4 DEF Begin, CreatePost, UpdatePost, DeletePost, GetPostByID, GetFeed,
                    CountPostsByUserID, Ask
<1>5. CASE Serve(p) \/ Abort(p)
  <2>1. \E j, c : GoTo(p, j, c)
    BY <1>5 DEF Serve, GetCached, Query, Fill, GetList, QueryList, FillList, GetCount,
                QueryCount, FillCount, Insert, Upload, Save, SetCached, ClearList,
                ClearCount, SelectForDelete, Remove, Forget, Notify, Abort
  <2> QED BY <1>2, <2>1
<1> QED BY <1>4, <1>5

\* Where a worker goes.
LEMMA Arrives ==
  ASSUME SafeInv, NEW p \in Workers, NEW j, NEW c, GoTo(p, j, c)
  PROVE  pc'[p] = c /\ (c # "idle" => job'[p] = j)
BY DEF SafeInv, TypeOK, GoTo

\* Work that is under way elsewhere stays so.
LEMMA StillPending ==
  ASSUME SafeInv, NEW p \in Workers, Begin(p) \/ Serve(p) \/ Abort(p),
         NEW points, Pending(points), pc[p] \notin points \/ pc'[p] \in points
  PROVE  Pending(points)'
BY OthersWait DEF Pending

\* The post under its id.

LEMMA PostQuiet ==
  ASSUME SafeInv, PostFollows, NEW p \in Workers, Begin(p) \/ Serve(p) \/ Abort(p),
         row' = row, cache' = cache, "post" \in late => "post" \in late',
         pc[p] \notin {"set", "forget"}
  PROVE  PostFollows'
BY StillPending DEF PostFollows

LEMMA PostRests ==
  ASSUME SafeInv, NEW p \in Workers, Begin(p) \/ Serve(p),
         ~(Insert(p) \/ Save(p) \/ Remove(p) \/ Fill(p) \/ SetCached(p) \/ Forget(p))
  PROVE  /\ row' = row /\ cache' = cache
         /\ "post" \in late => "post" \in late'
         /\ pc[p] \notin {"set", "forget"}
<1>1. CASE Begin(p)
  BY <1>1 DEF Begin, CreatePost, UpdatePost, DeletePost, GetPostByID, GetFeed,
              CountPostsByUserID, Ask, Take, history, keys
<1>2. CASE GetCached(p) \/ Query(p) \/ GetList(p) \/ QueryList(p) \/ GetCount(p)
             \/ QueryCount(p) \/ Upload(p) \/ SelectForDelete(p) \/ Notify(p)
  BY <1>2 DEF GetCached, Query, GetList, QueryList, GetCount, QueryCount, Upload,
              SelectForDelete, Notify, history, keys
<1>3. CASE FillList(p) \/ FillCount(p) \/ ClearList(p) \/ ClearCount(p)
  BY <1>3 DEF FillList, FillCount, ClearList, ClearCount, Stale
<1> QED BY <1>1, <1>2, <1>3 DEF Serve

LEMMA PostStep ==
  ASSUME SafeInv, PostFollows, [Next]_vars
  PROVE  PostFollows'
<1>1. CASE UNCHANGED vars
  BY <1>1 DEF vars, PostFollows, Pending
<1>2. ASSUME NEW p \in Workers, Insert(p) PROVE PostFollows'
  <2>1. row = NoRow /\ cache' = cache
    BY <1>2, Acting DEF Insert, Fits, keys
  <2>2. cache = Absent
    BY <2>1 DEF SafeInv, CacheFits, Copy
  <2> QED BY <2>1, <2>2 DEF PostFollows
<1>3. ASSUME NEW p \in Workers, Save(p) \/ Remove(p) PROVE PostFollows'
  <2>1. pc'[p] \in {"set", "forget"}
    BY <1>3, Arrives DEF Save, Remove
  <2> QED BY <2>1 DEF PostFollows, Pending
<1>4. ASSUME NEW p \in Workers, Fill(p) PROVE PostFollows'
  <2>1. pc[p] = "fill" /\ job[p].row # NoRow /\ row' = row
    BY <1>4, Acting DEF Fill, Fits
  <2>2. PICK done \in BOOLEAN :
          IF done THEN cache' = job[p].row /\ Stale("post", job[p].row # Visible)
                  ELSE UNCHANGED <<cache, late>>
    BY <1>4 DEF Fill
  <2>3. CASE done
    <3>1. cache' = job[p].row /\ Stale("post", job[p].row # Visible)
      BY <2>2, <2>3
    <3>2. "post" \notin late' => cache' = Visible
      BY <3>1 DEF Stale
    <3>3. cache' = Visible => cache' = row'
      BY <2>1, <3>1, VisibleCopy DEF SafeInv
    <3> QED BY <3>2, <3>3 DEF PostFollows
  <2>4. CASE ~done
    <3>1. cache' = cache /\ late' = late
      BY <2>2, <2>4
    <3> QED BY <1>4, <2>1, <3>1, PostQuiet DEF Serve
  <2> QED BY <2>3, <2>4
<1>5. ASSUME NEW p \in Workers, SetCached(p) PROVE PostFollows'
  <2>1. /\ Stale("post", cache' # Absent /\ cache' # Visible) /\ row' = row
        /\ cache' \in {cache, job[p].row} /\ job[p].row # NoRow
    BY <1>5, Acting DEF SetCached, Fits
  <2>2. "post" \notin late' => cache' = Absent \/ cache' = Visible
    BY <2>1 DEF Stale
  <2>3. cache' # NoRow
    BY <2>1, PostsAssumption DEF SafeInv, TypeOK
  <2>4. cache' = Visible => cache' = row'
    BY <2>1, <2>3, VisibleCopy DEF SafeInv
  <2> QED BY <2>2, <2>4 DEF PostFollows
<1>6. ASSUME NEW p \in Workers, Forget(p) PROVE PostFollows'
  <2>1. PICK done \in BOOLEAN :
          /\ cache' = IF done THEN Absent ELSE cache
          /\ Stale("post", ~done /\ cache # Absent)
    BY <1>6 DEF Forget
  <2>2. cache' = Absent \/ "post" \in late'
    BY <2>1 DEF Stale
  <2> QED BY <2>2 DEF PostFollows
<1>7. ASSUME NEW p \in Workers, Abort(p) PROVE PostFollows'
  <2>1. row' = row /\ cache' = cache /\ late \subseteq late'
    BY <1>7 DEF Abort, keys
  <2>2. CASE pc[p] \in {"set", "forget"}
    <3>1. "post" \in late'
      BY <1>7, <2>2 DEF Abort
    <3> QED BY <3>1 DEF PostFollows
  <2>3. CASE pc[p] \notin {"set", "forget"}
    BY <1>7, <2>1, <2>3, PostQuiet
  <2> QED BY <2>2, <2>3
<1>8. ASSUME NEW p \in Workers, Begin(p) \/ Serve(p),
             ~(Insert(p) \/ Save(p) \/ Remove(p) \/ Fill(p) \/ SetCached(p) \/ Forget(p))
      PROVE  PostFollows'
  BY <1>8, PostRests, PostQuiet
<1>9. ASSUME NEW k \in Keys, Expire(k) PROVE PostFollows'
  <2>1. row' = row /\ pc' = pc /\ late' = late \ {k}
    BY <1>9 DEF Expire
  <2>2. cache' = Absent \/ (cache' = cache /\ k # "post")
    BY <1>9 DEF Expire, Keys
  <2>3. Pending({"set", "forget"})' = Pending({"set", "forget"})
    BY <2>1 DEF Pending
  <2> QED BY <2>1, <2>2, <2>3 DEF PostFollows
<1> QED BY <1>1, <1>2, <1>3, <1>4, <1>5, <1>6, <1>7, <1>8, <1>9 DEF Next

\* The lists.

LEMMA ListQuiet ==
  ASSUME SafeInv, ListFollows, NEW p \in Workers, Begin(p) \/ Serve(p) \/ Abort(p),
         row' = row, list' = list, "list" \in late => "list" \in late',
         pc[p] \notin {"set", "clear"} \/ pc'[p] \in {"set", "clear"}
  PROVE  ListFollows'
<1>1. Visible' = Visible
  BY DEF Visible
<1> QED BY <1>1, StillPending DEF ListFollows

LEMMA ListRests ==
  ASSUME SafeInv, NEW p \in Workers, Begin(p) \/ Serve(p),
         ~(Insert(p) \/ Save(p) \/ Remove(p) \/ FillList(p) \/ ClearList(p))
  PROVE  /\ row' = row /\ list' = list
         /\ "list" \in late => "list" \in late'
         /\ pc[p] \notin {"set", "clear"} \/ pc'[p] \in {"set", "clear"}
<1>1. CASE Begin(p)
  BY <1>1 DEF Begin, CreatePost, UpdatePost, DeletePost, GetPostByID, GetFeed,
              CountPostsByUserID, Ask, Take, history, keys
<1>2. CASE GetCached(p) \/ Query(p) \/ GetList(p) \/ QueryList(p) \/ GetCount(p)
             \/ QueryCount(p) \/ Upload(p) \/ SelectForDelete(p) \/ Notify(p)
  BY <1>2 DEF GetCached, Query, GetList, QueryList, GetCount, QueryCount, Upload,
              SelectForDelete, Notify, history, keys
<1>3. CASE FillCount(p) \/ Fill(p) \/ ClearCount(p) \/ Forget(p)
  BY <1>3 DEF FillCount, Fill, ClearCount, Forget, Stale
<1>4. CASE SetCached(p)
  <2>1. pc'[p] = "clear"
    BY <1>4, Arrives DEF SetCached
  <2> QED BY <1>4, <2>1 DEF SetCached, Stale
<1> QED BY <1>1, <1>2, <1>3, <1>4 DEF Serve

LEMMA ListStep ==
  ASSUME SafeInv, ListFollows, [Next]_vars
  PROVE  ListFollows'
<1>1. CASE UNCHANGED vars
  BY <1>1 DEF vars, ListFollows, Pending, Visible
<1>2. ASSUME NEW p \in Workers, Insert(p) \/ Save(p) PROVE ListFollows'
  <2>1. pc'[p] \in {"set", "clear"}
    BY <1>2, Arrives DEF Insert, Save
  <2> QED BY <2>1 DEF ListFollows, Pending
<1>3. ASSUME NEW p \in Workers, Remove(p) PROVE ListFollows'
  <2>1. /\ pc[p] = "remove" /\ row \in Row /\ row' \in Row /\ row'.deleted
        /\ row' = row \/ (~row.deleted /\ row'.ver = row.ver + 1
                            /\ row = [row' EXCEPT !.deleted = FALSE, !.ver = @ - 1])
    BY <1>3, Removing
  <2>2. list' = list /\ late' = late
    BY <1>3 DEF Remove, keys
  <2>3. CASE row' = row
    BY <1>3, <2>1, <2>2, <2>3, ListQuiet DEF Serve
  <2>4. CASE ~row.deleted /\ row = [row' EXCEPT !.deleted = FALSE, !.ver = @ - 1]
    <3>1. Visible = row
      BY <2>4 DEF Visible
    <3>2. Pending({"set", "clear"}) => Pending({"set", "clear"})'
      BY <1>3, <2>1, StillPending DEF Serve
    <3> QED BY <2>1, <2>2, <2>4, <3>1, <3>2 DEF ListFollows
  <2> QED BY <2>1, <2>3, <2>4
<1>4. ASSUME NEW p \in Workers, FillList(p) PROVE ListFollows'
  <2>1. list' = job[p].row /\ Stale("list", job[p].row # Visible) /\ row' = row
    BY <1>4 DEF FillList
  <2>2. "list" \in late' \/ list' = Visible
    BY <2>1 DEF Stale
  <2>3. Visible' = Visible
    BY <2>1 DEF Visible
  <2> QED BY <2>2, <2>3 DEF ListFollows
<1>5. ASSUME NEW p \in Workers, ClearList(p) PROVE ListFollows'
  <2>1. PICK done \in BOOLEAN :
          /\ list' = IF done THEN Absent ELSE list
          /\ Stale("list", ~done /\ list # Absent)
    BY <1>5 DEF ClearList, Cleared
  <2>2. list' = Absent \/ "list" \in late'
    BY <2>1 DEF Stale
  <2> QED BY <2>2 DEF ListFollows
<1>6. ASSUME NEW p \in Workers, Abort(p) PROVE ListFollows'
  <2>1. row' = row /\ list' = list /\ late \subseteq late'
    BY <1>6 DEF Abort, keys
  <2>2. CASE pc[p] \in {"set", "clear"}
    <3>1. "list" \in late'
      BY <1>6, <2>2 DEF Abort
    <3> QED BY <3>1 DEF ListFollows
  <2>3. CASE pc[p] \notin {"set", "clear"}
    BY <1>6, <2>1, <2>3, ListQuiet
  <2> QED BY <2>2, <2>3
<1>7. ASSUME NEW p \in Workers, Begin(p) \/ Serve(p),
             ~(Insert(p) \/ Save(p) \/ Remove(p) \/ FillList(p) \/ ClearList(p))
      PROVE  ListFollows'
  BY <1>7, ListRests, ListQuiet
<1>8. ASSUME NEW k \in Keys, Expire(k) PROVE ListFollows'
  <2>1. row' = row /\ pc' = pc /\ late' = late \ {k}
    BY <1>8 DEF Expire
  <2>2. list' = Absent \/ (list' = list /\ k # "list")
    BY <1>8 DEF Expire, Keys
  <2>3. Pending({"set", "clear"})' = Pending({"set", "clear"})
    BY <2>1 DEF Pending
  <2>4. Visible' = Visible
    BY <2>1 DEF Visible
  <2> QED BY <2>1, <2>2, <2>3, <2>4 DEF ListFollows
<1> QED BY <1>1, <1>2, <1>3, <1>4, <1>5, <1>6, <1>7, <1>8 DEF Next
\* The count.

LEMMA CountQuiet ==
  ASSUME SafeInv, CountFollows, NEW p \in Workers, Begin(p) \/ Serve(p) \/ Abort(p),
         row' = row, count' = count, "count" \in late => "count" \in late',
         pc[p] \notin {"clear", "uncount"} \/ job[p].op # "create"
           \/ (pc'[p] \in {"clear", "uncount"} /\ job'[p].op = "create")
  PROVE  CountFollows'
<1>1. Number' = Number
  BY DEF Number, Visible
<1>2. Uncounted => Uncounted'
  BY OthersWait DEF Uncounted
<1> QED BY <1>1, <1>2 DEF CountFollows, Uncounted

LEMMA CountRests ==
  ASSUME SafeInv, NEW p \in Workers, Begin(p) \/ Serve(p),
         ~(Insert(p) \/ Save(p) \/ Remove(p) \/ FillCount(p) \/ ClearCount(p))
  PROVE  /\ row' = row /\ count' = count
         /\ "count" \in late => "count" \in late'
         /\ \/ pc[p] \notin {"clear", "uncount"}
            \/ job[p].op # "create"
            \/ pc'[p] \in {"clear", "uncount"} /\ job'[p].op = "create"
<1>1. CASE Begin(p)
  BY <1>1 DEF Begin, CreatePost, UpdatePost, DeletePost, GetPostByID, GetFeed,
              CountPostsByUserID, Ask, Take, history, keys
<1>2. CASE GetCached(p) \/ Query(p) \/ GetList(p) \/ QueryList(p) \/ GetCount(p)
             \/ QueryCount(p) \/ Upload(p) \/ SelectForDelete(p) \/ Notify(p)
  BY <1>2 DEF GetCached, Query, GetList, QueryList, GetCount, QueryCount, Upload,
              SelectForDelete, Notify, history, keys
<1>3. CASE FillList(p) \/ Fill(p) \/ SetCached(p) \/ Forget(p)
  BY <1>3 DEF FillList, Fill, SetCached, Forget, Stale
<1>4. CASE ClearList(p)
  <2>1. row' = row /\ count' = count /\ ("count" \in late => "count" \in late')
    BY <1>4 DEF ClearList, Stale
  <2>2. CASE job[p].op = "create"
    <3>1. GoTo(p, job[p], "uncount")
      BY <1>4, <2>2 DEF ClearList
    <3>2. pc'[p] = "uncount" /\ job'[p] = job[p]
      BY <3>1, Arrives
    <3> QED BY <2>1, <2>2, <3>2
  <2>3. CASE job[p].op # "create"
    BY <2>1, <2>3
  <2> QED BY <2>2, <2>3
<1> QED BY <1>1, <1>2, <1>3, <1>4 DEF Serve

LEMMA CountStep ==
  ASSUME SafeInv, CountFollows, [Next]_vars
  PROVE  CountFollows'
<1>1. CASE UNCHANGED vars
  BY <1>1 DEF vars, CountFollows, Uncounted, Number, Visible
<1>2. ASSUME NEW p \in Workers, Insert(p) PROVE CountFollows'
  <2>1. pc'[p] = "clear" /\ job'[p] = job[p] /\ job[p].op = "create"
    BY <1>2, Arrives, Acting DEF Insert, Fits
  <2> QED BY <2>1 DEF CountFollows, Uncounted
<1>3. ASSUME NEW p \in Workers, Save(p) PROVE CountFollows'
  <2>1. /\ pc[p] = "save" /\ row' = Changed(job[p]) /\ ~row'.deleted
        /\ row' \in Row /\ row \in Row
    BY <1>3, Saving
  <2>2. /\ count' = count
        /\ late' = IF row.deleted THEN late \cup {"count"} ELSE late
    BY <1>3 DEF Save, keys
  <2>3. CASE row.deleted
    BY <2>2, <2>3 DEF CountFollows
  <2>4. CASE ~row.deleted
    <3>1. Number = 1 /\ Number' = 1
      BY <2>1, <2>4, PostsAssumption DEF Number, Visible
    <3>2. Uncounted => Uncounted'
      BY <1>3, <2>1, OthersWait DEF Uncounted, Serve
    <3> QED BY <2>2, <2>4, <3>1, <3>2 DEF CountFollows, Uncounted
  <2> QED BY <2>3, <2>4
<1>4. ASSUME NEW p \in Workers, Remove(p) PROVE CountFollows'
  <2>1. row'.deleted
    BY <1>4, Removing
  <2> QED BY <2>1 DEF CountFollows
<1>5. ASSUME NEW p \in Workers, FillCount(p) PROVE CountFollows'
  <2>1. count' = job[p].edit /\ Stale("count", job[p].edit # Number) /\ row' = row
    BY <1>5 DEF FillCount
  <2>2. "count" \in late' \/ count' = Number
    BY <2>1 DEF Stale
  <2>3. Number' = Number
    BY <2>1 DEF Number, Visible
  <2> QED BY <2>2, <2>3 DEF CountFollows
<1>6. ASSUME NEW p \in Workers, ClearCount(p) PROVE CountFollows'
  <2>1. PICK done \in BOOLEAN :
          /\ count' = IF done THEN Absent ELSE count
          /\ Stale("count", ~done /\ count # Absent)
    BY <1>6 DEF ClearCount
  <2>2. count' = Absent \/ "count" \in late'
    BY <2>1 DEF Stale
  <2> QED BY <2>2 DEF CountFollows
<1>7. ASSUME NEW p \in Workers, Abort(p) PROVE CountFollows'
  <2>1. row' = row /\ count' = count /\ late \subseteq late'
    BY <1>7 DEF Abort, keys
  <2>2. CASE pc[p] \in {"clear", "uncount"} /\ job[p].op = "create"
    <3>1. "count" \in late'
      BY <1>7, <2>2 DEF Abort
    <3> QED BY <3>1 DEF CountFollows
  <2>3. CASE pc[p] \notin {"clear", "uncount"} \/ job[p].op # "create"
    BY <1>7, <2>1, <2>3, CountQuiet
  <2> QED BY <2>2, <2>3
<1>8. ASSUME NEW p \in Workers, Begin(p) \/ Serve(p),
             ~(Insert(p) \/ Save(p) \/ Remove(p) \/ FillCount(p) \/ ClearCount(p))
      PROVE  CountFollows'
  BY <1>8, CountRests, CountQuiet
<1>9. ASSUME NEW k \in Keys, Expire(k) PROVE CountFollows'
  <2>1. row' = row /\ pc' = pc /\ job' = job /\ late' = late \ {k}
    BY <1>9 DEF Expire
  <2>2. count' = Absent \/ (count' = count /\ k # "count")
    BY <1>9 DEF Expire, Keys
  <2>3. Uncounted' = Uncounted /\ Number' = Number
    BY <2>1 DEF Uncounted, Number, Visible
  <2> QED BY <2>1, <2>2, <2>3 DEF CountFollows, Uncounted
<1> QED BY <1>1, <1>2, <1>3, <1>4, <1>5, <1>6, <1>7, <1>8, <1>9 DEF Next

\* A key that disagrees with the row is about to be written or deleted, or was filled
\* too late, or a command to Redis was lost; after a deletion the list shows the post
\* as it was last, and nothing older.
THEOREM CachesFollow == Spec => []CachesFollowWrites
<1>1. Init => PostFollows /\ ListFollows /\ CountFollows
  BY DEF Init, PostFollows, ListFollows, CountFollows
<1>2. PostFollows /\ ListFollows /\ CountFollows => CachesFollowWrites
  BY DEF PostFollows, ListFollows, CountFollows, Uncounted, CachesFollowWrites, Pending
<1>3. SafeInv /\ (PostFollows /\ ListFollows /\ CountFollows) /\ [Next]_vars
        => (PostFollows /\ ListFollows /\ CountFollows)'
  BY PostStep, ListStep, CountStep
<1> QED BY <1>1, <1>2, <1>3, Safety, PTL DEF Spec
=============================================================================
