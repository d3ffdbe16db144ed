---------------------------- MODULE GroupsProofs ----------------------------
(***************************************************************************)
(* Proofs about Groups, for any users, groups, workers and budgets, with   *)
(* or without failures.                                                    *)
(***************************************************************************)
EXTENDS Groups, FiniteSetTheorems, TLAPS

----------------------------------------------------------------------------
(* How a worker moves.                                                     *)

\* A handler that goes on keeps the workers typed.
LEMMA GoToTyping ==
  ASSUME TypeOK, NEW p \in Workers, NEW j \in Job, NEW c \in Control, GoTo(p, j, c)
  PROVE  /\ pc' \in [Workers -> Control]
         /\ job' \in [Workers -> Job \cup {NoRow}]
         /\ \A q \in Workers : pc'[q] # "idle" => job'[q] \in Job
BY DEF GoTo, TypeOK

\* It moves only the worker p, to c, with j unless it is done.
LEMMA GoToEffect ==
  ASSUME TypeOK, NEW p \in Workers, NEW j, NEW c, GoTo(p, j, c)
  PROVE  /\ pc'[p] = c
         /\ c # "idle" => job'[p] = j
         /\ \A q \in Workers : q # p => pc'[q] = pc[q] /\ job'[q] = job[q]
BY DEF GoTo, TypeOK

\* A worker that takes a request moves alone and writes nothing.
LEMMA TakeEffect ==
  ASSUME TypeOK, NEW p \in Workers, NEW j \in Job, NEW c \in Control \ {"idle"}, Take(p, j, c)
  PROVE  /\ TypeOK'
         /\ pc[p] = "idle" /\ pc'[p] = c /\ job'[p] = j
         /\ \A q \in Workers : q # p => pc'[q] = pc[q] /\ job'[q] = job[q]
         /\ UNCHANGED <<groups, members, appointed, crossed>>
<1>1. /\ pc' = [pc EXCEPT ![p] = c]
      /\ job' = [job EXCEPT ![p] = j]
      /\ left' = left - 1 /\ left > 0 /\ pc[p] = "idle"
      /\ UNCHANGED <<groups, members, appointed, crossed>>
  BY DEF Take
<1>2. left' \in 0..Budget
  BY <1>1, GroupsAssumption DEF TypeOK
<1>3. pc'[p] = c /\ job'[p] = j
  BY <1>1 DEF TypeOK
<1>4. \A q \in Workers : q # p => pc'[q] = pc[q] /\ job'[q] = job[q]
  BY <1>1 DEF TypeOK
<1>5. /\ pc' \in [Workers -> Control]
      /\ job' \in [Workers -> Job \cup {NoRow}]
  BY <1>1 DEF TypeOK
<1>6. \A q \in Workers : pc'[q] # "idle" => job'[q] \in Job
  BY <1>3, <1>4 DEF TypeOK
<1>7. TypeOK'
  BY <1>1, <1>2, <1>5, <1>6 DEF TypeOK
<1> QED BY <1>1, <1>3, <1>4, <1>7

\* What an HTTP request starts with is a job.
LEMMA RequestTyping ==
  ASSUME NEW op \in {"create", "join", "leave", "update", "delete", "role", "remove"},
         NEW u \in Users, NEW g \in Ids
  PROVE  Request(op, u, g) \in Job
BY DEF Request, Job, Role, Policy

\* The next control points.
LEMMA AfterMemberTyping ==
  ASSUME NEW j, NEW m
  PROVE  AfterMember(j, m) \in {"idle", "admit", "count", "dismiss", "save", "delete",
                                "role", "target"}
BY DEF AfterMember

----------------------------------------------------------------------------
(* Type correctness, one step per action.                                  *)

LEMMA InitType == Init => TypeOK
BY GroupsAssumption DEF Init, TypeOK, Control

LEMMA BeginType ==
  ASSUME TypeOK, NEW p \in Workers,
         NEW u \in Users, NEW g \in Ids, CreateGroup(p) \/ Begin(p, u, g)
  PROVE  TypeOK'
<1>1. CASE CreateGroup(p)
  <2>1. PICK v \in Users, h \in Ids, y \in Policy :
          Take(p, [Request("create", v, h) EXCEPT !.policy = y], "slug")
    BY <1>1 DEF CreateGroup
  <2>2. [Request("create", v, h) EXCEPT !.policy = y] \in Job
    BY RequestTyping DEF Job
  <2> QED BY <2>1, <2>2, TakeEffect DEF Control
<1>2. CASE JoinGroup(p, u, g)
  BY <1>2, RequestTyping, TakeEffect DEF JoinGroup, Control
<1>3. CASE LeaveGroup(p, u, g)
  BY <1>3, RequestTyping, TakeEffect DEF LeaveGroup, Control
<1>4. CASE DeleteGroup(p, u, g)
  BY <1>4, RequestTyping, TakeEffect DEF DeleteGroup, Control
<1>5. CASE UpdateGroup(p, u, g)
  <2>1. PICK y \in Policy : Take(p, [Request("update", u, g) EXCEPT !.policy = y], "group")
    BY <1>5 DEF UpdateGroup
  <2>2. [Request("update", u, g) EXCEPT !.policy = y] \in Job
    BY RequestTyping DEF Job
  <2> QED BY <2>1, <2>2, TakeEffect DEF Control
<1>6. CASE UpdateMemberRole(p, u, g)
  <2>1. PICK v \in Users, r \in Role :
          Take(p, [Request("role", u, g) EXCEPT !.peer = v, !.role = r], "member")
    BY <1>6 DEF UpdateMemberRole
  <2>2. [Request("role", u, g) EXCEPT !.peer = v, !.role = r] \in Job
    BY DEF Request, Job, Role, Policy
  <2> QED BY <2>1, <2>2, TakeEffect DEF Control
<1>7. CASE RemoveMember(p, u, g)
  <2>1. PICK v \in Users : Take(p, [Request("remove", u, g) EXCEPT !.peer = v], "member")
    BY <1>7 DEF RemoveMember
  <2>2. [Request("remove", u, g) EXCEPT !.peer = v] \in Job
    BY RequestTyping DEF Job
  <2> QED BY <2>1, <2>2, TakeEffect DEF Control
<1> QED BY <1>1, <1>2, <1>3, <1>4, <1>5, <1>6, <1>7 DEF Begin

LEMMA AdmissionTyping ==
  ASSUME NEW j PROVE Admission(j) \in Member
BY DEF Admission, Member, Role, Status

LEMMA ReadType ==
  ASSUME TypeOK, NEW p \in Workers, NEW j \in Job, j = job[p],
         CheckSlug(p) \/ FindGroup(p) \/ GetMember(p) \/ GetTarget(p) \/ CountAdmins(p)
           \/ Abort(p)
  PROVE  TypeOK'
<1>1. CASE CheckSlug(p)
  <2>1. [j EXCEPT !.slug = NextSlug(j.slug)] \in Job
    BY DEF Job, NextSlug
  <2>2. \E k \in Job, c \in Control : GoTo(p, k, c)
    BY <1>1, <2>1 DEF CheckSlug, Control
  <2> QED BY <1>1, <2>2, GoToTyping DEF CheckSlug, TypeOK
<1>2. CASE FindGroup(p)
  <2>1. groups[j.group] \in Group \cup {NoRow}
    BY DEF TypeOK, Job
  <2>2. [j EXCEPT !.row = groups[j.group]] \in Job
    BY <2>1 DEF Job
  <2>3. \E k \in Job, c \in Control : GoTo(p, k, c)
    BY <1>2, <2>2 DEF FindGroup, Control
  <2> QED BY <1>2, <2>3, GoToTyping DEF FindGroup, TypeOK
<1>3. CASE GetMember(p)
  <2>1. members[j.group][j.user] \in Member \cup {NoRow}
    BY DEF TypeOK, Job
  <2>2. \E m \in Member \cup {NoRow} : GoTo(p, [j EXCEPT !.mine = m], AfterMember(j, m))
    BY <1>3, <2>1 DEF GetMember
  <2>3. \A m \in Member \cup {NoRow} : [j EXCEPT !.mine = m] \in Job
    BY DEF Job
  <2>4. \E k \in Job, c \in Control : GoTo(p, k, c)
    BY <2>2, <2>3, AfterMemberTyping DEF Control
  <2> QED BY <1>3, <2>4, GoToTyping DEF GetMember, TypeOK
<1>4. CASE GetTarget(p)
  <2>1. \E c \in Control : GoTo(p, j, c)
    BY <1>4 DEF GetTarget, Control
  <2> QED BY <1>4, <2>1, GoToTyping DEF GetTarget, TypeOK
<1>5. CASE CountAdmins(p)
  <2>1. \E c \in Control : GoTo(p, j, c)
    BY <1>5 DEF CountAdmins, Control
  <2> QED BY <1>5, <2>1, GoToTyping DEF CountAdmins, TypeOK
<1>6. CASE Abort(p)
  <2>1. GoTo(p, j, "idle")
    BY <1>6 DEF Abort
  <2> QED BY <1>6, <2>1, GoToTyping DEF Abort, TypeOK, Control
<1> QED BY <1>1, <1>2, <1>3, <1>4, <1>5, <1>6

\* Appointments stay typed.
LEMMA AppointTyping ==
  ASSUME TypeOK, NEW g \in Ids, NEW u \in Users, NEW v \in Users, NEW r \in Role,
         Appoint(g, u, r, v)
  PROVE  appointed' \in SUBSET Appointment
BY DEF Appoint, TypeOK, Appointment, Role

\* So does what is known of overlapping requests.
LEMMA CrossTyping ==
  ASSUME TypeOK, NEW p \in Workers, NEW g \in Ids,
         Cross(p, g) \/ UNCHANGED crossed \/ \E u, b : Withdraw(p, g, u, b)
  PROVE  crossed' \in SUBSET Ids
BY DEF TypeOK, Cross, Withdraw

LEMMA WriteType ==
  ASSUME TypeOK, NEW p \in Workers, NEW j \in Job, j = job[p],
         Insert(p) \/ AddMember(p) \/ SetRole(p) \/ Dismiss(p) \/ Save(p) \/ Delete(p),
         pc[p] = "save" => j.row \in Group,
         pc[p] = "delete" => groups[j.group] \in Group
  PROVE  TypeOK'
<1>j. j.group \in Ids /\ j.user \in Users /\ j.peer \in Users /\ j.role \in Role
        /\ j.policy \in Policy /\ j.slug \in Nat
  BY DEF Job
<1>c. \E c \in Control : GoTo(p, j, c)
  BY DEF Insert, AddMember, SetRole, Dismiss, Save, Delete, Control
<1>1. /\ pc' \in [Workers -> Control]
      /\ job' \in [Workers -> Job \cup {NoRow}]
      /\ \A q \in Workers : pc'[q] # "idle" => job'[q] \in Job
  BY <1>c, GoToTyping
<1>2. CASE Insert(p)
  <2>1. [creator |-> j.user, slug |-> j.slug, policy |-> j.policy, deleted |-> FALSE] \in Group
    BY <1>j DEF Group
  <2>2. groups' \in [Ids -> Group \cup {NoRow}]
    BY <1>2, <1>j, <2>1 DEF Insert, TypeOK
  <2> QED BY <1>1, <1>2, <2>2 DEF Insert, TypeOK
<1>3. CASE AddMember(p)
  <2>1. Admission(j) \in Member /\ Admission(j).role \in Role
    BY AdmissionTyping DEF Member
  <2>2. members' \in [Ids -> [Users -> Member \cup {NoRow}]]
    <3>1. \/ members' = members
          \/ members' = [members EXCEPT ![j.group][j.user] = Admission(j)]
      BY <1>3 DEF AddMember
    <3>2. [members EXCEPT ![j.group][j.user] = Admission(j)]
            \in [Ids -> [Users -> Member \cup {NoRow}]]
      BY <1>j, <2>1 DEF TypeOK
    <3> QED BY <3>1, <3>2 DEF TypeOK
  <2>3. appointed' \in SUBSET Appointment
    BY <1>3, <1>j, <2>1, AppointTyping DEF AddMember, TypeOK
  <2>4. crossed' \in SUBSET Ids
    BY <1>3, <1>j, CrossTyping DEF AddMember
  <2> QED BY <1>1, <1>3, <2>2, <2>3, <2>4 DEF AddMember, TypeOK
<1>4. CASE SetRole(p)
  <2>0. crossed' \in SUBSET Ids
    BY <1>4, <1>j, CrossTyping DEF SetRole
  <2>1. CASE members[j.group][j.peer] = NoRow
    BY <1>1, <1>4, <2>0, <2>1 DEF SetRole, TypeOK
  <2>2. CASE members[j.group][j.peer] # NoRow
    <3>1. members' = [members EXCEPT ![j.group][j.peer].role = j.role]
          /\ Appoint(j.group, j.peer, j.role, j.user)
      BY <1>4, <2>2 DEF SetRole
    <3>2. [members[j.group][j.peer] EXCEPT !.role = j.role] \in Member
      BY <1>j, <2>2 DEF TypeOK, Member
    <3>3. members' \in [Ids -> [Users -> Member \cup {NoRow}]]
      <4> DEFINE m == [members[j.group][j.peer] EXCEPT !.role = j.role]
                 row == [members[j.group] EXCEPT ![j.peer] = m]
      <4>1. members' = [members EXCEPT ![j.group] = row]
        BY <3>1
      <4>2. m \in Member
        BY <3>2
      <4> HIDE DEF m
      <4>3. row \in [Users -> Member \cup {NoRow}]
        BY <1>j, <4>2 DEF TypeOK
      <4> HIDE DEF row
      <4> QED BY <1>j, <4>1, <4>3 DEF TypeOK
    <3>4. appointed' \in SUBSET Appointment
      BY <1>j, <3>1, AppointTyping
    <3> QED BY <1>1, <1>4, <2>0, <3>3, <3>4 DEF SetRole, TypeOK
  <2> QED BY <2>1, <2>2
<1>5. CASE Dismiss(p)
  <2>1. members' \in [Ids -> [Users -> Member \cup {NoRow}]]
    BY <1>5, <1>j DEF Dismiss, TypeOK
  <2>2. crossed' \in SUBSET Ids
    BY <1>5, <1>j, CrossTyping DEF Dismiss
  <2> QED BY <1>1, <1>5, <2>1, <2>2 DEF Dismiss, TypeOK
<1>6. CASE Save(p)
  <2>1. [j.row EXCEPT !.policy = j.policy] \in Group
    BY <1>6, <1>j DEF Save, Group
  <2>2. groups' \in [Ids -> Group \cup {NoRow}]
    BY <1>6, <1>j, <2>1 DEF Save, TypeOK
  <2> QED BY <1>1, <1>6, <2>2 DEF Save, TypeOK
<1>7. CASE Delete(p)
  <2>1. groups' = [groups EXCEPT ![j.group] = [groups[j.group] EXCEPT !.deleted = TRUE]]
    BY <1>7, <1>j DEF Delete, TypeOK
  <2>2. [groups[j.group] EXCEPT !.deleted = TRUE] \in Group
    BY <1>7 DEF Delete, Group
  <2>3. groups' \in [Ids -> Group \cup {NoRow}]
    BY <1>j, <2>1, <2>2 DEF TypeOK
  <2> QED BY <1>1, <1>7, <2>3 DEF Delete, TypeOK
<1> QED BY <1>2, <1>3, <1>4, <1>5, <1>6, <1>7
----------------------------------------------------------------------------
(* The inductive invariant: what the tables, the history and the workers   *)
(* know.  The table and the history are parameters G and A, so that facts  *)
(* can be carried from a state to its successor.                           *)

Given(A, g, u, r) == \E v \in Users : [group |-> g, user |-> u, role |-> r, by |-> v] \in A
Numbered(G, n)    == \E h \in Ids : G[h] # NoRow /\ G[h].slug = n

\* r was read from the row of g: what never changes about g agrees.
Version(G, g, r) ==
  /\ G[g] # NoRow /\ r \in Group
  /\ r.creator = G[g].creator /\ r.slug = G[g].slug

\* What worker p, at control point c with job j, has reason to rely on.
Knows(G, A, c, j) ==
  /\ IF c \in {"slug", "insert"}
       THEN j.op = "create" /\ \A n \in 0..(j.slug - 1) : Numbered(G, n)
       ELSE G[j.group] # NoRow
  /\ j.op = "create" => c \in {"slug", "insert", "admit"}
  /\ c = "admit" => j.op \in {"create", "join"}
  /\ c = "admit" /\ j.op = "create" => G[j.group].creator = j.user
  /\ c \in {"member", "admit"} /\ j.op = "join" => Version(G, j.group, j.row)
  /\ c \in {"member", "save"} /\ j.op = "update" => Version(G, j.group, j.row)
  /\ c = "save" => j.op = "update"
  /\ c \in {"save", "delete", "role", "count"} => Given(A, j.group, j.user, "admin")
  /\ c \in {"role", "target"} => j.peer # j.user
  /\ c = "count" \/ j.op = "leave" => j.peer = j.user
  /\ c = "target" => /\ j.mine \in Member
                     /\ j.mine.role \in {"admin", "moderator"}
                     /\ Given(A, j.group, j.user, j.mine.role)
  /\ c = "dismiss" /\ j.peer # j.user =>
       Given(A, j.group, j.user, "admin") \/ Given(A, j.group, j.user, "moderator")

WorkersKnow ==
  \A p \in Workers : pc[p] # "idle" => Knows(groups, appointed, pc[p], job[p])

\* The id of a group under construction is nobody else's business.
Reserved ==
  \A p \in Workers : pc[p] \in {"slug", "insert"} =>
    /\ groups[job[p].group] = NoRow
    /\ \A q \in Workers : q # p /\ pc[q] # "idle" => job[q].group # job[p].group

AppointmentsHold ==
  \A a \in appointed :
    /\ groups[a.group] # NoRow
    /\ IF a.by = a.user THEN a.user = groups[a.group].creator
                        ELSE Given(appointed, a.group, a.by, "admin")

MembersHold ==
  \A g \in Ids, u \in Users : members[g][u] # NoRow =>
    /\ groups[g] # NoRow
    /\ members[g][u].role # "member" => Given(appointed, g, u, members[g][u].role)

GroupsInv ==
  /\ TypeOK
  /\ WorkersKnow
  /\ Reserved
  /\ AppointmentsHold
  /\ MembersHold
  /\ SlugsAreUnique

\* Rows keep their creator and their slug, and no row disappears.
Extends(G, H) ==
  \A g \in Ids : G[g] # NoRow =>
    H[g] # NoRow /\ H[g].creator = G[g].creator /\ H[g].slug = G[g].slug

----------------------------------------------------------------------------
(* Knowledge lasts.                                                        *)

LEMMA VersionLasts ==
  ASSUME NEW G, NEW H, NEW g \in Ids, NEW r,
         Extends(G, H), Version(G, g, r)
  PROVE  Version(H, g, r)
BY DEF Extends, Version

LEMMA NumberedLasts ==
  ASSUME NEW G, NEW H, NEW n, Extends(G, H), Numbered(G, n)
  PROVE  Numbered(H, n)
BY DEF Extends, Numbered

LEMMA GivenLasts ==
  ASSUME NEW A, NEW B, NEW g, NEW u, NEW r, A \subseteq B, Given(A, g, u, r)
  PROVE  Given(B, g, u, r)
BY DEF Given

LEMMA KnowsLasts ==
  ASSUME NEW G, NEW H, NEW A, NEW B, NEW c, NEW j \in Job,
         Extends(G, H), A \subseteq B, Knows(G, A, c, j)
  PROVE  Knows(H, B, c, j)
<1>1. j.group \in Ids
  BY DEF Job
<1>2. \A r : Version(G, j.group, r) => Version(H, j.group, r)
  BY <1>1, VersionLasts
<1>3. \A n : Numbered(G, n) => Numbered(H, n)
  BY NumberedLasts
<1>4. \A r : Given(A, j.group, j.user, r) => Given(B, j.group, j.user, r)
  BY GivenLasts
<1>5. /\ G[j.group] # NoRow => H[j.group] # NoRow /\ H[j.group].creator = G[j.group].creator
  BY <1>1 DEF Extends
<1>6. c \in {"slug", "insert"} => j.op = "create" /\ \A n \in 0..(j.slug - 1) : Numbered(G, n)
  BY DEF Knows
<1>7. c \notin {"slug", "insert"} => G[j.group] # NoRow
  BY DEF Knows
<1>8. IF c \in {"slug", "insert"}
        THEN j.op = "create" /\ \A n \in 0..(j.slug - 1) : Numbered(H, n)
        ELSE H[j.group] # NoRow
  BY <1>3, <1>5, <1>6, <1>7
<1>9. c = "admit" /\ j.op = "create" => H[j.group].creator = j.user
  BY <1>5, <1>7 DEF Knows
<1> QED BY <1>2, <1>4, <1>8, <1>9 DEF Knows

\* If p alone moves and knows what it goes on with, all workers still know.
LEMMA WorkersStillKnow ==
  ASSUME TypeOK, WorkersKnow, NEW p \in Workers,
         Extends(groups, groups'), appointed \subseteq appointed',
         \A q \in Workers : q # p => pc'[q] = pc[q] /\ job'[q] = job[q],
         pc'[p] # "idle" => Knows(groups', appointed', pc'[p], job'[p])
  PROVE  WorkersKnow'
<1> SUFFICES ASSUME NEW q \in Workers, pc'[q] # "idle"
             PROVE  Knows(groups', appointed', pc'[q], job'[q])
  BY DEF WorkersKnow
<1>1. CASE q = p
  BY <1>1
<1>2. CASE q # p
  <2>1. pc[q] # "idle" /\ pc'[q] = pc[q] /\ job'[q] = job[q]
    BY <1>2
  <2>2. job[q] \in Job /\ Knows(groups, appointed, pc[q], job[q])
    BY <2>1 DEF TypeOK, WorkersKnow
  <2>3. Knows(groups', appointed', pc[q], job[q])
    BY <2>2, KnowsLasts
  <2> QED BY <2>1, <2>3
<1> QED BY <1>1, <1>2

\* A worker that is not searching a slug disturbs no reservation, as long as it
\* stays with its group; nor does an idle one that takes a group with a row.
LEMMA StillReserved ==
  ASSUME TypeOK, Reserved, NEW p \in Workers,
         \A q \in Workers : q # p => pc'[q] = pc[q] /\ job'[q] = job[q],
         pc'[p] \notin {"slug", "insert"},
         \A g \in Ids : groups[g] = NoRow =>
           groups'[g] = NoRow \/ (pc[p] = "insert" /\ g = job[p].group),
         pc'[p] # "idle" =>
           /\ job'[p].group \in Ids
           /\ \/ groups[job'[p].group] # NoRow
              \/ pc[p] # "idle" /\ job'[p].group = job[p].group
  PROVE  Reserved'
<1> SUFFICES ASSUME NEW q \in Workers, pc'[q] \in {"slug", "insert"}
             PROVE  /\ groups'[job'[q].group] = NoRow
                    /\ \A r \in Workers : r # q /\ pc'[r] # "idle" =>
                         job'[r].group # job'[q].group
  BY DEF Reserved
<1>1. q # p /\ pc'[q] = pc[q] /\ job'[q] = job[q]
  OBVIOUS
<1>2. /\ groups[job[q].group] = NoRow
      /\ \A r \in Workers : r # q /\ pc[r] # "idle" => job[r].group # job[q].group
  BY <1>1 DEF Reserved
<1>3. job[q].group \in Ids
  BY <1>1 DEF TypeOK, Job
<1>4. groups'[job[q].group] = NoRow
  BY <1>1, <1>2, <1>3
<1>5. ASSUME NEW r \in Workers, r # q, pc'[r] # "idle"
      PROVE  job'[r].group # job[q].group
  BY <1>1, <1>2, <1>5
<1> QED BY <1>1, <1>4, <1>5
----------------------------------------------------------------------------
(* Steps that only read.                                                   *)

LEMMA TablesStand ==
  ASSUME AppointmentsHold, MembersHold, SlugsAreUnique,
         UNCHANGED <<groups, members, appointed>>
  PROVE  /\ AppointmentsHold' /\ MembersHold' /\ SlugsAreUnique'
         /\ Extends(groups, groups')
BY DEF AppointmentsHold, MembersHold, SlugsAreUnique, Extends

\* A worker takes a request about a group that has a row.
LEMMA TakeKeeps ==
  ASSUME GroupsInv, NEW p \in Workers, NEW j \in Job, NEW c \in {"group", "member"},
         Take(p, j, c), groups[j.group] # NoRow,
         Knows(groups, appointed, c, j)
  PROVE  GroupsInv'
<1>1. /\ TypeOK'
      /\ pc[p] = "idle" /\ pc'[p] = c /\ job'[p] = j
      /\ \A q \in Workers : q # p => pc'[q] = pc[q] /\ job'[q] = job[q]
      /\ UNCHANGED <<groups, members, appointed, crossed>>
  BY TakeEffect DEF GroupsInv, Control
<1>2. /\ AppointmentsHold' /\ MembersHold' /\ SlugsAreUnique'
      /\ Extends(groups, groups')
  BY <1>1, TablesStand DEF GroupsInv
<1>3. appointed \subseteq appointed'
  BY <1>1
<1>4. Knows(groups', appointed', pc'[p], job'[p])
  BY <1>1
<1>5. WorkersKnow'
  BY <1>1, <1>2, <1>3, <1>4, WorkersStillKnow DEF GroupsInv
<1>6. j.group \in Ids
  BY DEF Job
<1>7. Reserved'
  BY <1>1, <1>6, StillReserved DEF GroupsInv
<1> QED BY <1>1, <1>2, <1>5, <1>7 DEF GroupsInv

\* A worker goes on with the group it works on, having written nothing.
LEMMA ReadKeeps ==
  ASSUME GroupsInv, TypeOK', NEW p \in Workers, pc[p] # "idle",
         NEW k \in Job, NEW c \in Control \ {"slug", "insert"}, GoTo(p, k, c),
         k.group = job[p].group, UNCHANGED <<groups, members, appointed, crossed>>,
         c # "idle" => Knows(groups, appointed, c, k)
  PROVE  GroupsInv'
<1>1. /\ pc'[p] = c /\ (c # "idle" => job'[p] = k)
      /\ \A q \in Workers : q # p => pc'[q] = pc[q] /\ job'[q] = job[q]
  BY GoToEffect DEF GroupsInv
<1>2. /\ AppointmentsHold' /\ MembersHold' /\ SlugsAreUnique'
      /\ Extends(groups, groups')
  BY TablesStand DEF GroupsInv
<1>3. appointed \subseteq appointed'
  OBVIOUS
<1>4. pc'[p] # "idle" => Knows(groups', appointed', pc'[p], job'[p])
  BY <1>1
<1>5. WorkersKnow'
  BY <1>1, <1>2, <1>3, <1>4, WorkersStillKnow DEF GroupsInv
<1>6. k.group \in Ids
  BY DEF Job
<1>7. Reserved'
  BY <1>1, <1>6, StillReserved DEF GroupsInv
<1> QED BY <1>2, <1>5, <1>7 DEF GroupsInv

\* A new group: its id is fresh and nobody works on it.
LEMMA CreateGroupKeeps ==
  ASSUME GroupsInv, NEW p \in Workers, CreateGroup(p)
  PROVE  GroupsInv'
<1>1. PICK u \in Users, g \in Ids, y \in Policy :
        /\ groups[g] = NoRow
        /\ \A q \in Workers : pc[q] # "idle" => job[q].group # g
        /\ Take(p, [Request("create", u, g) EXCEPT !.policy = y], "slug")
  BY DEF CreateGroup
<1> DEFINE j == [Request("create", u, g) EXCEPT !.policy = y]
<1>2. j \in Job
  BY RequestTyping DEF Job
<1>3. j.op = "create" /\ j.group = g /\ j.slug = 0 /\ j.peer = u /\ j.user = u
  BY DEF Request
<1>4. Take(p, j, "slug")
  BY <1>1
<1> HIDE DEF j
<1>5. /\ TypeOK'
      /\ pc[p] = "idle" /\ pc'[p] = "slug" /\ job'[p] = j
      /\ \A q \in Workers : q # p => pc'[q] = pc[q] /\ job'[q] = job[q]
      /\ UNCHANGED <<groups, members, appointed, crossed>>
  BY <1>2, <1>4, TakeEffect DEF GroupsInv, Control
<1>6. /\ AppointmentsHold' /\ MembersHold' /\ SlugsAreUnique'
      /\ Extends(groups, groups')
  BY <1>5, TablesStand DEF GroupsInv
<1>7. Knows(groups', appointed', pc'[p], job'[p])
  <2>1. 0..(j.slug - 1) = {}
    BY <1>3
  <2> QED BY <1>3, <1>5, <2>1 DEF Knows
<1>8. appointed \subseteq appointed'
  BY <1>5
<1>9. WorkersKnow'
  BY <1>5, <1>6, <1>7, <1>8, WorkersStillKnow DEF GroupsInv
<1>10. Reserved'
  <2> SUFFICES ASSUME NEW q \in Workers, pc'[q] \in {"slug", "insert"}
               PROVE  /\ groups'[job'[q].group] = NoRow
                      /\ \A r \in Workers : r # q /\ pc'[r] # "idle" =>
                           job'[r].group # job'[q].group
    BY DEF Reserved
  <2>1. CASE q = p
    BY <1>1, <1>3, <1>5, <2>1
  <2>2. CASE q # p
    <3>1. pc[q] \in {"slug", "insert"} /\ job'[q] = job[q]
      BY <1>5, <2>2
    <3>2. groups[job[q].group] = NoRow /\ job[q].group # g
      BY <1>1, <3>1 DEF GroupsInv, Reserved
    <3>3. \A r \in Workers : r # q /\ pc[r] # "idle" => job[r].group # job[q].group
      BY <3>1 DEF GroupsInv, Reserved
    <3> QED BY <1>3, <1>5, <3>1, <3>2, <3>3
  <2> QED BY <2>1, <2>2
<1> QED BY <1>5, <1>6, <1>9, <1>10 DEF GroupsInv

LEMMA BeginKeeps ==
  ASSUME GroupsInv, NEW p \in Workers, NEW u \in Users, NEW g \in Ids, Begin(p, u, g)
  PROVE  GroupsInv'
<1>1. ASSUME NEW j \in Job, NEW c \in {"group", "member"},
             j.op # "create", j.op = "leave" => j.peer = j.user,
             j.op \in {"join", "update"} => c = "group",
             j.group = g, groups[g] # NoRow, Take(p, j, c)
      PROVE  GroupsInv'
  <2>1. Knows(groups, appointed, c, j)
    BY <1>1 DEF Knows
  <2> QED BY <1>1, <2>1, TakeKeeps
<1>2. ASSUME NEW op \in {"join", "leave", "update", "delete", "role", "remove"}
      PROVE  /\ Request(op, u, g) \in Job
             /\ Request(op, u, g).op = op /\ Request(op, u, g).group = g
             /\ Request(op, u, g).peer = u /\ Request(op, u, g).user = u
  BY RequestTyping DEF Request
<1>3. CASE JoinGroup(p, u, g)
  BY <1>1, <1>2, <1>3 DEF JoinGroup
<1>4. CASE LeaveGroup(p, u, g)
  BY <1>1, <1>2, <1>4 DEF LeaveGroup
<1>5. CASE DeleteGroup(p, u, g)
  BY <1>1, <1>2, <1>5 DEF DeleteGroup
<1>6. CASE UpdateGroup(p, u, g)
  <2>1. PICK y \in Policy : Take(p, [Request("update", u, g) EXCEPT !.policy = y], "group")
    BY <1>6 DEF UpdateGroup
  <2> DEFINE j == [Request("update", u, g) EXCEPT !.policy = y]
  <2>2. j \in Job /\ j.op = "update" /\ j.group = g
    BY DEF Request, Job, Role, Policy
  <2>3. Take(p, j, "group")
    BY <2>1
  <2> HIDE DEF j
  <2> QED BY <1>1, <1>6, <2>2, <2>3 DEF UpdateGroup
<1>7. CASE UpdateMemberRole(p, u, g)
  <2>1. PICK v \in Users, r \in Role :
          Take(p, [Request("role", u, g) EXCEPT !.peer = v, !.role = r], "member")
    BY <1>7 DEF UpdateMemberRole
  <2> DEFINE j == [Request("role", u, g) EXCEPT !.peer = v, !.role = r]
  <2>2. j \in Job /\ j.op = "role" /\ j.group = g
    BY DEF Request, Job, Role, Policy
  <2>3. Take(p, j, "member")
    BY <2>1
  <2> HIDE DEF j
  <2> QED BY <1>1, <1>7, <2>2, <2>3 DEF UpdateMemberRole
<1>8. CASE RemoveMember(p, u, g)
  <2>1. PICK v \in Users : Take(p, [Request("remove", u, g) EXCEPT !.peer = v], "member")
    BY <1>8 DEF RemoveMember
  <2> DEFINE j == [Request("remove", u, g) EXCEPT !.peer = v]
  <2>2. j \in Job /\ j.op = "remove" /\ j.group = g
    BY DEF Request, Job, Role, Policy
  <2>3. Take(p, j, "member")
    BY <2>1
  <2> HIDE DEF j
  <2> QED BY <1>1, <1>8, <2>2, <2>3 DEF RemoveMember
<1> QED BY <1>3, <1>4, <1>5, <1>6, <1>7, <1>8 DEF Begin

\* One turn of the slug loop: the number that was taken is used.
LEMMA CheckSlugKeeps ==
  ASSUME GroupsInv, NEW p \in Workers, CheckSlug(p)
  PROVE  GroupsInv'
<1> DEFINE j == job[p]
           k == [j EXCEPT !.slug = NextSlug(j.slug)]
<1>1. pc[p] = "slug" /\ j \in Job /\ Knows(groups, appointed, "slug", j)
  BY DEF CheckSlug, GroupsInv, TypeOK, WorkersKnow
<1>2. TypeOK'
  BY <1>1, ReadType DEF GroupsInv
<1>3. UNCHANGED <<groups, members, appointed, crossed>>
  BY DEF CheckSlug
<1>4. k \in Job /\ k.op = j.op /\ k.group = j.group /\ k.slug = j.slug + 1 /\ j.slug \in Nat
  BY <1>1 DEF Job, NextSlug
<1>5. \/ GoTo(p, k, "slug") /\ Numbered(groups, j.slug)
      \/ GoTo(p, j, "insert")
  BY DEF CheckSlug, IsSlugTaken, Numbered
<1>6. /\ \/ pc'[p] = "slug" /\ job'[p] = k /\ Numbered(groups, j.slug)
         \/ pc'[p] = "insert" /\ job'[p] = j
      /\ \A q \in Workers : q # p => pc'[q] = pc[q] /\ job'[q] = job[q]
  <2>1. "slug" # "idle" /\ "insert" # "idle"
    OBVIOUS
  <2> HIDE DEF k
  <2> QED BY <1>5, <2>1, GoToEffect DEF GroupsInv
<1>7. /\ AppointmentsHold' /\ MembersHold' /\ SlugsAreUnique'
      /\ Extends(groups, groups')
  BY <1>3, TablesStand DEF GroupsInv
<1>8. Knows(groups', appointed', pc'[p], job'[p])
  <2>1. j.op = "create" /\ \A n \in 0..(j.slug - 1) : Numbered(groups, n)
    BY <1>1 DEF Knows
  <2>2. CASE pc'[p] = "slug"
    <3>1. \A n \in 0..(k.slug - 1) : n \in 0..(j.slug - 1) \/ n = j.slug
      BY <1>4
    <3>2. \A n \in 0..(k.slug - 1) : Numbered(groups, n)
      BY <1>6, <2>1, <2>2, <3>1
    <3>3. k.op = "create" /\ job'[p] = k
      BY <1>4, <1>6, <2>1, <2>2
    <3> HIDE DEF k, j
    <3> QED BY <1>3, <2>2, <3>2, <3>3 DEF Knows
  <2>3. CASE pc'[p] = "insert"
    BY <1>3, <1>6, <2>1, <2>3 DEF Knows
  <2> QED BY <1>6, <2>2, <2>3
<1>9. appointed \subseteq appointed'
  BY <1>3
<1>10. WorkersKnow'
  BY <1>6, <1>7, <1>8, <1>9, WorkersStillKnow DEF GroupsInv
<1>11. Reserved'
  <2>1. /\ job'[p].group = j.group
        /\ \A q \in Workers : pc'[q] \in {"slug", "insert"} => pc[q] \in {"slug", "insert"}
        /\ \A q \in Workers : pc'[q] # "idle" => pc[q] # "idle" /\ job'[q].group = job[q].group
    BY <1>1, <1>4, <1>6
  <2> HIDE DEF k, j
  <2> QED BY <1>3, <2>1 DEF GroupsInv, Reserved
<1> QED BY <1>2, <1>7, <1>10, <1>11 DEF GroupsInv

\* The role somebody reads was given to them.
LEMMA RolesWereGiven ==
  ASSUME GroupsInv, NEW g \in Ids, NEW u \in Users, members[g][u] # NoRow
  PROVE  /\ members[g][u] \in Member
         /\ members[g][u].role # "member" => Given(appointed, g, u, members[g][u].role)
BY DEF GroupsInv, TypeOK, MembersHold

LEMMA FindGroupKeeps ==
  ASSUME GroupsInv, NEW p \in Workers, FindGroup(p)
  PROVE  GroupsInv'
<1> DEFINE j == job[p]
           k == [j EXCEPT !.row = groups[j.group]]
<1>1. pc[p] = "group" /\ j \in Job /\ Knows(groups, appointed, "group", j)
  BY DEF FindGroup, GroupsInv, TypeOK, WorkersKnow
<1>2. TypeOK' /\ UNCHANGED <<groups, members, appointed, crossed>>
  BY <1>1, ReadType DEF GroupsInv, FindGroup
<1>3. j.group \in Ids /\ groups[j.group] \in Group
  BY <1>1 DEF GroupsInv, TypeOK, Job, Knows
<1>4. k \in Job /\ k.op = j.op /\ k.group = j.group /\ k.row = groups[j.group]
        /\ k.peer = j.peer /\ k.user = j.user
  BY <1>1, <1>3 DEF Job
<1>5. Version(groups, k.group, k.row)
  BY <1>1, <1>3, <1>4 DEF Version, GroupsInv, Knows
<1>6. Knows(groups, appointed, "member", k)
  <2> HIDE DEF k
  <2> QED BY <1>1, <1>4, <1>5 DEF Knows
<1>7. GoTo(p, k, "idle") \/ GoTo(p, k, "member")
  BY DEF FindGroup
<1> HIDE DEF j, k
<1> QED BY <1>1, <1>2, <1>4, <1>6, <1>7, ReadKeeps DEF Control, j

\* What is known of the request and of the membership when GetMember has returned.
LEMMA AfterMemberMeaning ==
  ASSUME NEW j, NEW m
  PROVE  LET c == AfterMember(j, m) IN
         /\ c = "admit" => j.op = "join"
         /\ c = "save" => j.op = "update"
         /\ c \in {"count", "dismiss"} => j.op = "leave"
         /\ c \in {"role", "target"} => j.peer # j.user
         /\ c \in {"save", "delete", "role", "count"} => m # NoRow /\ m.role = "admin"
         /\ c = "target" => m # NoRow /\ m.role \in {"admin", "moderator"}
<1>1. CASE j.op = "join" \/ m = NoRow
  BY <1>1 DEF AfterMember
<1>2. CASE j.op = "leave" /\ m # NoRow
  BY <1>2 DEF AfterMember
<1>3. CASE j.op = "update" /\ m # NoRow
  BY <1>3 DEF AfterMember
<1>4. CASE j.op = "delete" /\ m # NoRow
  BY <1>4 DEF AfterMember
<1>5. CASE j.op = "role" /\ m # NoRow
  BY <1>5 DEF AfterMember
<1>6. CASE j.op = "remove" /\ m # NoRow
  BY <1>6 DEF AfterMember
<1>7. CASE j.op \notin {"join", "leave", "update", "delete", "role", "remove"} /\ m # NoRow
  BY <1>7 DEF AfterMember
<1> QED BY <1>1, <1>2, <1>3, <1>4, <1>5, <1>6, <1>7

LEMMA GetMemberKeeps ==
  ASSUME GroupsInv, NEW p \in Workers, GetMember(p)
  PROVE  GroupsInv'
<1> DEFINE j == job[p]
<1>1. pc[p] = "member" /\ j \in Job /\ Knows(groups, appointed, "member", j)
  BY DEF GetMember, GroupsInv, TypeOK, WorkersKnow
<1>2. TypeOK' /\ UNCHANGED <<groups, members, appointed, crossed>>
  BY <1>1, ReadType DEF GroupsInv, GetMember
<1>3. PICK m : /\ m = members[j.group][j.user] \/ m = NoRow
               /\ GoTo(p, [j EXCEPT !.mine = m], AfterMember(j, m))
  BY DEF GetMember
<1>4. m \in Member \cup {NoRow} /\ j.group \in Ids /\ j.user \in Users
  BY <1>1, <1>3 DEF GroupsInv, TypeOK, Job
<1> DEFINE k == [j EXCEPT !.mine = m]
           c == AfterMember(j, m)
<1>5. k \in Job /\ k.op = j.op /\ k.group = j.group /\ k.row = j.row /\ k.mine = m
        /\ k.peer = j.peer /\ k.user = j.user
  BY <1>1, <1>4 DEF Job
<1>6. m # NoRow /\ m.role # "member" => Given(appointed, j.group, j.user, m.role)
  BY <1>3, <1>4, RolesWereGiven
<1>7. c \in {"idle", "admit", "count", "dismiss", "save", "delete", "role", "target"}
  BY AfterMemberTyping
<1>8. c # "idle" => Knows(groups, appointed, c, k)
  <2> SUFFICES ASSUME c # "idle" PROVE Knows(groups, appointed, c, k)
    OBVIOUS
  <2>1. j.op # "create" /\ groups[j.group] # NoRow /\ (j.op = "leave" => j.peer = j.user)
    BY <1>1 DEF Knows
  <2>2. j.op \in {"join", "update"} => Version(groups, j.group, j.row)
    BY <1>1 DEF Knows
  <2>3. /\ c = "admit" => j.op = "join"
        /\ c = "save" => j.op = "update"
        /\ c \in {"count", "dismiss"} => j.op = "leave"
        /\ c \in {"role", "target"} => j.peer # j.user
        /\ c \in {"save", "delete", "role", "count"} => m # NoRow /\ m.role = "admin"
        /\ c = "target" => m # NoRow /\ m.role \in {"admin", "moderator"}
    BY AfterMemberMeaning
  <2>4. c \in {"save", "delete", "role", "count"} => Given(appointed, j.group, j.user, "admin")
    BY <1>6, <2>3
  <2>5. c = "target" => /\ m \in Member /\ m.role \in {"admin", "moderator"}
                       /\ Given(appointed, j.group, j.user, m.role)
    BY <1>4, <1>6, <2>3
  <2> HIDE DEF c, k, j
  <2> QED BY <1>5, <1>7, <2>1, <2>2, <2>3, <2>4, <2>5 DEF Knows
<1>9. k.group = job[p].group /\ c \in Control \ {"slug", "insert"} /\ GoTo(p, k, c)
  BY <1>3, <1>5, <1>7 DEF Control
<1> HIDE DEF c, k, j
<1> QED BY <1>1, <1>2, <1>5, <1>8, <1>9, ReadKeeps

LEMMA DecideKeeps ==
  ASSUME GroupsInv, NEW p \in Workers, GetTarget(p) \/ CountAdmins(p) \/ Abort(p)
  PROVE  GroupsInv'
<1> DEFINE j == job[p]
<1>1. pc[p] # "idle" /\ j \in Job /\ Knows(groups, appointed, pc[p], j)
  BY DEF GetTarget, CountAdmins, Abort, GroupsInv, TypeOK, WorkersKnow
<1>2. TypeOK' /\ UNCHANGED <<groups, members, appointed, crossed>>
  BY <1>1, ReadType DEF GroupsInv, GetTarget, CountAdmins, Abort
<1>3. CASE GetTarget(p)
  <2>1. pc[p] = "target" /\ (GoTo(p, j, "idle") \/ GoTo(p, j, "dismiss"))
    BY <1>3 DEF GetTarget
  <2>2. Knows(groups, appointed, "dismiss", j)
    <3> HIDE DEF j
    <3> QED BY <1>1, <2>1 DEF Knows
  <2> HIDE DEF j
  <2> QED BY <1>1, <1>2, <2>1, <2>2, ReadKeeps DEF Control, j
<1>4. CASE CountAdmins(p)
  <2>1. pc[p] = "count" /\ (GoTo(p, j, "delete") \/ GoTo(p, j, "dismiss"))
    BY <1>4 DEF CountAdmins
  <2>2. Knows(groups, appointed, "dismiss", j)
    <3> HIDE DEF j
    <3> QED BY <1>1, <2>1 DEF Knows
  <2>3. Knows(groups, appointed, "delete", j)
    <3> HIDE DEF j
    <3> QED BY <1>1, <2>1 DEF Knows
  <2> HIDE DEF j
  <2> QED BY <1>1, <1>2, <2>1, <2>2, <2>3, ReadKeeps DEF Control, j
<1>5. CASE Abort(p)
  <2>1. GoTo(p, j, "idle")
    BY <1>5 DEF Abort
  <2> HIDE DEF j
  <2> QED BY <1>1, <1>2, <2>1, ReadKeeps DEF Control, j
<1> QED BY <1>3, <1>4, <1>5

----------------------------------------------------------------------------
(* Steps that write.                                                       *)

\* A handler that ends with a write keeps the invariant if the tables do.
LEMMA DoneKeeps ==
  ASSUME GroupsInv, TypeOK', NEW p \in Workers, GoTo(p, job[p], "idle"),
         Extends(groups, groups'), appointed \subseteq appointed',
         \A g \in Ids : groups[g] = NoRow => groups'[g] = NoRow,
         AppointmentsHold', MembersHold', SlugsAreUnique'
  PROVE  GroupsInv'
<1>1. /\ pc'[p] = "idle"
      /\ \A q \in Workers : q # p => pc'[q] = pc[q] /\ job'[q] = job[q]
  BY GoToEffect DEF GroupsInv
<1>2. WorkersKnow'
  BY <1>1, WorkersStillKnow DEF GroupsInv
<1>3. Reserved'
  BY <1>1, StillReserved DEF GroupsInv
<1> QED BY <1>2, <1>3 DEF GroupsInv

\* What a worker knows that is about to write.
LEMMA WriterKnows ==
  ASSUME GroupsInv, NEW p \in Workers, pc[p] # "idle"
  PROVE  /\ job[p] \in Job /\ Knows(groups, appointed, pc[p], job[p])
         /\ pc[p] = "save" => job[p].row \in Group
         /\ pc[p] = "delete" => groups[job[p].group] \in Group
<1>1. job[p] \in Job /\ Knows(groups, appointed, pc[p], job[p])
  BY DEF GroupsInv, TypeOK, WorkersKnow
<1>2. job[p].group \in Ids
  BY <1>1 DEF Job
<1>3. pc[p] = "save" => Version(groups, job[p].group, job[p].row)
  BY <1>1 DEF Knows
<1>4. pc[p] = "delete" => groups[job[p].group] # NoRow
  BY <1>1 DEF Knows
<1> QED BY <1>1, <1>2, <1>3, <1>4 DEF Version, GroupsInv, TypeOK

\* The membership of u in g becomes m, and the history of roles A.
LEMMA MembershipKeeps ==
  ASSUME GroupsInv, TypeOK', NEW p \in Workers, GoTo(p, job[p], "idle"),
         NEW g \in Ids, NEW u \in Users, groups[g] # NoRow,
         UNCHANGED groups, appointed \subseteq appointed', AppointmentsHold',
         \A h \in Ids, v \in Users : <<h, v>> # <<g, u>> => members'[h][v] = members[h][v],
         members'[g][u] # NoRow /\ members'[g][u].role # "member" =>
           Given(appointed', g, u, members'[g][u].role)
  PROVE  GroupsInv'
<1>1. Extends(groups, groups') /\ SlugsAreUnique'
  BY DEF Extends, GroupsInv, SlugsAreUnique
<1>2. MembersHold'
  <2> SUFFICES ASSUME NEW h \in Ids, NEW v \in Users, members'[h][v] # NoRow
               PROVE  /\ groups'[h] # NoRow
                      /\ members'[h][v].role # "member" =>
                           Given(appointed', h, v, members'[h][v].role)
    BY DEF MembersHold
  <2>1. CASE h = g /\ v = u
    BY <2>1
  <2>2. CASE ~(h = g /\ v = u)
    <3>1. members'[h][v] = members[h][v]
      BY <2>2
    <3>2. /\ groups[h] # NoRow
          /\ members[h][v].role # "member" => Given(appointed, h, v, members[h][v].role)
      BY <3>1 DEF GroupsInv, MembersHold
    <3>3. \A r : Given(appointed, h, v, r) => Given(appointed', h, v, r)
      BY GivenLasts
    <3> QED BY <3>1, <3>2, <3>3
  <2> QED BY <2>1, <2>2
<1> QED BY <1>1, <1>2, DoneKeeps

\* One more appointment, by an administrator or by the creator to himself.
LEMMA AppointKeeps ==
  ASSUME GroupsInv, NEW g \in Ids, NEW u \in Users, NEW v \in Users, NEW r,
         groups[g] # NoRow, UNCHANGED groups, Appoint(g, u, r, v),
         r # "member" =>
           IF v = u THEN u = groups[g].creator ELSE Given(appointed, g, v, "admin")
  PROVE  /\ AppointmentsHold' /\ appointed \subseteq appointed'
         /\ r # "member" => Given(appointed', g, u, r)
<1> DEFINE b == [group |-> g, user |-> u, role |-> r, by |-> v]
<1>1. appointed' = IF r = "member" THEN appointed ELSE appointed \cup {b}
  BY DEF Appoint
<1>2. appointed \subseteq appointed'
  BY <1>1
<1>3. \A h, w, s : Given(appointed, h, w, s) => Given(appointed', h, w, s)
  BY <1>2, GivenLasts
<1>4. b.group = g /\ b.user = u /\ b.by = v
  OBVIOUS
<1>5. r # "member" => Given(appointed', g, u, r)
  BY <1>1 DEF Given
<1>6. AppointmentsHold'
  <2> HIDE DEF b
  <2> SUFFICES ASSUME NEW a \in appointed'
               PROVE  /\ groups'[a.group] # NoRow
                      /\ IF a.by = a.user THEN a.user = groups'[a.group].creator
                                          ELSE Given(appointed', a.group, a.by, "admin")
    BY DEF AppointmentsHold
  <2>1. CASE a \in appointed
    BY <1>3, <2>1 DEF GroupsInv, AppointmentsHold
  <2>2. CASE a \notin appointed
    <3>1. a = b /\ r # "member"
      BY <1>1, <2>2
    <3> QED BY <1>3, <1>4, <3>1
  <2> QED BY <2>1, <2>2
<1> QED BY <1>2, <1>5, <1>6

LEMMA AddMemberKeeps ==
  ASSUME GroupsInv, NEW p \in Workers, AddMember(p)
  PROVE  GroupsInv'
<1> DEFINE j == job[p]
           m == Admission(j)
<1>1. pc[p] = "admit" /\ j \in Job /\ Knows(groups, appointed, "admit", j)
  BY WriterKnows DEF AddMember
<1>2. TypeOK'
  BY <1>1, WriteType DEF GroupsInv
<1>3. j.group \in Ids /\ j.user \in Users /\ groups[j.group] # NoRow
  BY <1>1 DEF Job, Knows
<1>4. GoTo(p, j, "idle") /\ UNCHANGED groups
  BY DEF AddMember
<1>5. CASE members[j.group][j.user] # NoRow
  <2>1. UNCHANGED <<members, appointed>>
    BY <1>5 DEF AddMember
  <2>2. Extends(groups, groups') /\ AppointmentsHold' /\ MembersHold'
          /\ SlugsAreUnique'
    BY <1>4, <2>1, TablesStand DEF GroupsInv
  <2> QED BY <1>2, <1>4, <2>1, <2>2, DoneKeeps
<1>6. CASE members[j.group][j.user] = NoRow
  <2>1. /\ members' = [members EXCEPT ![j.group][j.user] = m]
        /\ Appoint(j.group, j.user, m.role, j.user)
    BY <1>6 DEF AddMember
  <2>2. m.role # "member" => j.op = "create"
    BY DEF Admission
  <2>3. j.op = "create" => groups[j.group].creator = j.user
    BY <1>1 DEF Knows
  <2>5. /\ members'[j.group][j.user] = m
        /\ \A h \in Ids, v \in Users :
             <<h, v>> # <<j.group, j.user>> => members'[h][v] = members[h][v]
    <3> HIDE DEF m
    <3> QED BY <1>3, <2>1 DEF GroupsInv, TypeOK
  <2> HIDE DEF m, j
  <2>6. /\ AppointmentsHold' /\ appointed \subseteq appointed'
        /\ m.role # "member" => Given(appointed', j.group, j.user, m.role)
    BY <1>3, <1>4, <2>1, <2>2, <2>3, AppointKeeps
  <2> QED BY <1>2, <1>3, <1>4, <2>5, <2>6, MembershipKeeps DEF j
<1> QED BY <1>5, <1>6

LEMMA SetRoleKeeps ==
  ASSUME GroupsInv, NEW p \in Workers, SetRole(p)
  PROVE  GroupsInv'
<1> DEFINE j == job[p]
           o == members[j.group][j.peer]
           m == [o EXCEPT !.role = j.role]
<1>1. pc[p] = "role" /\ j \in Job /\ Knows(groups, appointed, "role", j)
  BY WriterKnows DEF SetRole
<1>2. TypeOK'
  BY <1>1, WriteType DEF GroupsInv
<1>3. j.group \in Ids /\ j.user \in Users /\ j.peer \in Users /\ groups[j.group] # NoRow
  BY <1>1 DEF Job, Knows
<1>4. GoTo(p, j, "idle") /\ UNCHANGED groups
  BY DEF SetRole
<1>5. CASE o = NoRow
  <2>1. UNCHANGED <<members, appointed>>
    BY <1>5 DEF SetRole
  <2>2. Extends(groups, groups') /\ AppointmentsHold' /\ MembersHold'
          /\ SlugsAreUnique'
    BY <1>4, <2>1, TablesStand DEF GroupsInv
  <2> QED BY <1>2, <1>4, <2>1, <2>2, DoneKeeps
<1>6. CASE o # NoRow
  <2>1. /\ members' = [members EXCEPT ![j.group][j.peer].role = j.role]
        /\ Appoint(j.group, j.peer, j.role, j.user)
    BY <1>6 DEF SetRole
  <2>2. o \in Member
    BY <1>3, <1>6 DEF GroupsInv, TypeOK
  <2>3. m.role = j.role /\ m.status = o.status
    BY <2>2 DEF Member
  <2>4. /\ members'[j.group][j.peer] = m
        /\ \A h \in Ids, v \in Users :
             <<h, v>> # <<j.group, j.peer>> => members'[h][v] = members[h][v]
    <3> DEFINE row == [members[j.group] EXCEPT ![j.peer] = m]
    <3>1. members' = [members EXCEPT ![j.group] = row]
      BY <2>1
    <3> HIDE DEF m
    <3>2. row[j.peer] = m /\ \A v \in Users : v # j.peer => row[v] = members[j.group][v]
      BY <1>3 DEF GroupsInv, TypeOK
    <3> HIDE DEF row
    <3> QED BY <1>3, <3>1, <3>2 DEF GroupsInv, TypeOK
  <2>6. j.peer # j.user /\ Given(appointed, j.group, j.user, "admin")
    BY <1>1 DEF Knows
  <2> HIDE DEF m, o, j
  <2>7. /\ AppointmentsHold' /\ appointed \subseteq appointed'
        /\ j.role # "member" => Given(appointed', j.group, j.peer, j.role)
    BY <1>3, <1>4, <2>1, <2>6, AppointKeeps
  <2> QED BY <1>2, <1>3, <1>4, <2>3, <2>4, <2>7, MembershipKeeps DEF j
<1> QED BY <1>5, <1>6

LEMMA DismissKeeps ==
  ASSUME GroupsInv, NEW p \in Workers, Dismiss(p)
  PROVE  GroupsInv'
<1> DEFINE j == job[p]
<1>1. j \in Job /\ Knows(groups, appointed, "dismiss", j)
  BY WriterKnows DEF Dismiss
<1>2. TypeOK'
  BY <1>1, WriteType DEF GroupsInv, Dismiss
<1>3. j.group \in Ids /\ j.peer \in Users /\ groups[j.group] # NoRow
  BY <1>1 DEF Job, Knows
<1>4. /\ GoTo(p, j, "idle") /\ UNCHANGED <<groups, appointed>>
      /\ members' = [members EXCEPT ![j.group][j.peer] = NoRow]
  BY DEF Dismiss
<1>5. /\ members'[j.group][j.peer] = NoRow
      /\ \A h \in Ids, v \in Users :
           <<h, v>> # <<j.group, j.peer>> => members'[h][v] = members[h][v]
  BY <1>3, <1>4 DEF GroupsInv, TypeOK
<1>6. AppointmentsHold' /\ appointed \subseteq appointed'
  BY <1>4 DEF GroupsInv, AppointmentsHold
<1> HIDE DEF j
<1> QED BY <1>2, <1>3, <1>4, <1>5, <1>6, MembershipKeeps DEF j

\* If rows keep creator and slug, what the tables and the history say stays true.
LEMMA ExtensionKeeps ==
  ASSUME GroupsInv, Extends(groups, groups'), UNCHANGED <<members, appointed>>
  PROVE  AppointmentsHold' /\ MembersHold'
<1>1. \A a \in appointed : a.group \in Ids
  BY DEF GroupsInv, TypeOK, Appointment
<1>2. AppointmentsHold'
  BY <1>1 DEF GroupsInv, AppointmentsHold, Extends
<1>3. MembersHold'
  BY DEF GroupsInv, MembersHold, Extends
<1> QED BY <1>2, <1>3

\* A handler ends by storing a row r of g, with the same creator and slug.
LEMMA RowKeeps ==
  ASSUME GroupsInv, TypeOK', NEW p \in Workers, GoTo(p, job[p], "idle"),
         NEW g \in Ids, NEW r \in Group, groups[g] # NoRow,
         r.creator = groups[g].creator, r.slug = groups[g].slug,
         groups' = [groups EXCEPT ![g] = r],
         UNCHANGED <<members, appointed>>
  PROVE  GroupsInv'
<1>1. r # NoRow
  BY GroupsAssumption
<1>2. groups'[g] = r /\ \A h \in Ids : h # g => groups'[h] = groups[h]
  BY DEF GroupsInv, TypeOK
<1>3. Extends(groups, groups')
  BY <1>1, <1>2 DEF Extends
<1>4. \A h \in Ids : groups[h] = NoRow => groups'[h] = NoRow
  BY <1>2
<1>6. \A h \in Ids : groups'[h] # NoRow => groups[h] # NoRow /\ groups'[h].slug = groups[h].slug
  BY <1>2
<1>7. SlugsAreUnique'
  BY <1>6 DEF GroupsInv, SlugsAreUnique
<1>8. AppointmentsHold' /\ MembersHold'
  BY <1>3, ExtensionKeeps
<1> QED BY <1>3, <1>4, <1>7, <1>8, DoneKeeps

LEMMA SaveKeeps ==
  ASSUME GroupsInv, NEW p \in Workers, Save(p)
  PROVE  GroupsInv'
<1> DEFINE j == job[p]
           r == [j.row EXCEPT !.policy = j.policy]
<1>1. pc[p] = "save" /\ j \in Job /\ Knows(groups, appointed, "save", j)
        /\ j.row \in Group
  BY WriterKnows DEF Save
<1>2. TypeOK'
  BY <1>1, WriteType DEF GroupsInv
<1>3. j.group \in Ids /\ j.policy \in Policy /\ groups[j.group] # NoRow
  BY <1>1 DEF Job, Knows
<1>4. Version(groups, j.group, j.row)
  BY <1>1 DEF Knows
<1>5. /\ r \in Group /\ r.policy = j.policy
      /\ r.creator = groups[j.group].creator /\ r.slug = groups[j.group].slug
  BY <1>1, <1>3, <1>4 DEF Group, Version
<1>6. /\ GoTo(p, j, "idle") /\ UNCHANGED <<members, appointed>>
      /\ groups' = [groups EXCEPT ![j.group] = r]
  BY DEF Save
<1> HIDE DEF r, j
<1> QED BY <1>2, <1>3, <1>5, <1>6, RowKeeps DEF j

LEMMA DeleteKeeps ==
  ASSUME GroupsInv, NEW p \in Workers, Delete(p)
  PROVE  GroupsInv'
<1> DEFINE j == job[p]
           r == [groups[j.group] EXCEPT !.deleted = TRUE]
<1>1. pc[p] = "delete" /\ j \in Job /\ Knows(groups, appointed, "delete", j)
        /\ groups[j.group] \in Group
  BY WriterKnows DEF Delete
<1>2. TypeOK'
  BY <1>1, WriteType DEF GroupsInv
<1>3. j.group \in Ids /\ groups[j.group] # NoRow
  BY <1>1 DEF Job, Knows
<1>4. /\ r \in Group /\ r.policy = groups[j.group].policy
      /\ r.creator = groups[j.group].creator /\ r.slug = groups[j.group].slug
  BY <1>1 DEF Group
<1>5. GoTo(p, j, "idle") /\ UNCHANGED <<members, appointed>>
        /\ groups' = [groups EXCEPT ![j.group] = r]
  BY DEF Delete
<1> HIDE DEF r, j
<1> QED BY <1>2, <1>3, <1>4, <1>5, RowKeeps DEF j

LEMMA InsertKeeps ==
  ASSUME GroupsInv, NEW p \in Workers, Insert(p)
  PROVE  GroupsInv'
<1> DEFINE j == job[p]
           r == [creator |-> j.user, slug |-> j.slug, policy |-> j.policy, deleted |-> FALSE]
<1>1. pc[p] = "insert" /\ j \in Job /\ Knows(groups, appointed, "insert", j)
  BY WriterKnows DEF Insert
<1>2. TypeOK' /\ UNCHANGED <<members, appointed>>
  BY <1>1, WriteType DEF GroupsInv, Insert
<1>3. j.group \in Ids /\ r \in Group
  BY <1>1 DEF Job, Group
<1>4. groups[j.group] = NoRow
  BY <1>1 DEF GroupsInv, Reserved
<1>5. CASE DuplicateKey(j.slug)
  <2>1. GoTo(p, j, "idle") /\ UNCHANGED groups
    BY <1>5 DEF Insert
  <2>2. Extends(groups, groups') /\ AppointmentsHold' /\ MembersHold'
          /\ SlugsAreUnique'
    BY <1>2, <2>1, TablesStand DEF GroupsInv
  <2> QED BY <1>2, <2>1, <2>2, DoneKeeps
<1>6. CASE ~DuplicateKey(j.slug)
  <2>1. /\ GoTo(p, j, "admit")
        /\ groups' = [groups EXCEPT ![j.group] = r]
    BY <1>6 DEF Insert
  <2>2. r.creator = j.user /\ r.slug = j.slug /\ r.policy = j.policy
    OBVIOUS
  <2> HIDE DEF r
  <2>3. r # NoRow
    BY <1>3, GroupsAssumption
  <2>4. groups'[j.group] = r /\ \A h \in Ids : h # j.group => groups'[h] = groups[h]
    BY <1>3, <2>1 DEF GroupsInv, TypeOK
  <2>5. Extends(groups, groups')
    BY <1>4, <2>1, <2>4 DEF Extends
  <2>6. AppointmentsHold' /\ MembersHold'
    BY <1>2, <2>5, ExtensionKeeps
  <2>8. SlugsAreUnique'
    <3>1. \A h \in Ids : groups[h] # NoRow => groups[h].slug # j.slug
      BY <1>6 DEF DuplicateKey
    <3> QED BY <2>2, <2>4, <3>1 DEF GroupsInv, SlugsAreUnique
  <2>9. /\ pc'[p] = "admit" /\ job'[p] = j
        /\ \A q \in Workers : q # p => pc'[q] = pc[q] /\ job'[q] = job[q]
    BY <2>1, GoToEffect DEF GroupsInv
  <2>10. j.op = "create"
    BY <1>1 DEF Knows
  <2> HIDE DEF j
  <2>11. Knows(groups', appointed', pc'[p], job'[p])
    BY <2>2, <2>3, <2>4, <2>9, <2>10 DEF Knows
  <2>12. WorkersKnow'
    BY <1>2, <2>5, <2>9, <2>11, WorkersStillKnow DEF GroupsInv
  <2>13. Reserved'
    <3>1. \A h \in Ids : groups[h] = NoRow =>
            groups'[h] = NoRow \/ (pc[p] = "insert" /\ h = job[p].group)
      BY <1>1, <2>4 DEF j
    <3>2. job'[p].group = job[p].group
      BY <2>9 DEF j
    <3> QED BY <1>1, <1>3, <2>9, <3>1, <3>2, StillReserved DEF GroupsInv, j
  <2> QED BY <1>2, <2>6, <2>8, <2>12, <2>13 DEF GroupsInv
<1> QED BY <1>5, <1>6

----------------------------------------------------------------------------
(* Groups keep an administrator.                                           *)

IsAdminIn(M, g, u) == M[g][u] # NoRow /\ M[g][u].role = "admin"
Appointed(A, g)    == \E a \in A : a.group = g

\* What a handler that has decided relies on as long as nobody crosses it: its user is
\* still administrator, or somebody is whom its write leaves alone.
Relies(M, A, c, j) ==
  /\ c = "target" /\ j.mine.role = "admin" => IsAdminIn(M, j.group, j.user)
  /\ c \in {"role", "dismiss"} /\ Appointed(A, j.group) =>
       \E v \in Users : v # j.peer /\ IsAdminIn(M, j.group, v)

WorkersRely ==
  \A p \in Workers : pc[p] \in Decided /\ job[p].group \notin crossed =>
    Relies(members, appointed, pc[p], job[p])

AdminsInv == GroupsKeepAnAdmin /\ WorkersRely

\* Worker p goes on and writes neither memberships nor history.
LEMMA AdminsRead ==
  ASSUME AdminsInv, NEW p \in Workers, UNCHANGED <<members, appointed, crossed>>,
         \A q \in Workers : q # p => pc'[q] = pc[q] /\ job'[q] = job[q],
         pc'[p] \in Decided /\ job'[p].group \notin crossed =>
           Relies(members, appointed, pc'[p], job'[p])
  PROVE  AdminsInv'
<1>1. GroupsKeepAnAdmin'
  BY DEF AdminsInv, GroupsKeepAnAdmin, IsAdmin
<1>2. WorkersRely'
  BY DEF AdminsInv, WorkersRely
<1> QED BY <1>1, <1>2 DEF AdminsInv

\* Worker p ends with a write to the membership of u in g.  Either nobody else has decided
\* about g, or g loses no administrator and had its first one before.
LEMMA AdminsWrite ==
  ASSUME TypeOK, AdminsInv, NEW p \in Workers, GoTo(p, job[p], "idle"),
         NEW g \in Ids, NEW u \in Users,
         \A h \in Ids, v \in Users : <<h, v>> # <<g, u>> => members'[h][v] = members[h][v],
         \A h \in Ids \ {g} : Appointed(appointed', h) => Appointed(appointed, h),
         crossed \subseteq crossed',
         \/ g \in crossed'
         \/ \A q \in Workers \ {p} : ~(pc[q] \in Decided /\ job[q].group = g)
         \/ /\ IsAdminIn(members, g, u) => IsAdminIn(members', g, u)
            /\ Appointed(appointed', g) => Appointed(appointed, g),
         g \notin crossed' /\ Appointed(appointed', g) =>
           \E v \in Users : IsAdminIn(members', g, v)
  PROVE  AdminsInv'
<1>1. /\ pc'[p] = "idle"
      /\ \A q \in Workers : q # p => pc'[q] = pc[q] /\ job'[q] = job[q]
  BY GoToEffect
<1>2. GroupsKeepAnAdmin'
  <2>1. ASSUME NEW h \in Ids, Appointed(appointed', h), h \notin crossed'
        PROVE  \E v \in Users : IsAdminIn(members', h, v)
    <3>1. CASE h = g
      BY <2>1, <3>1
    <3>2. CASE h # g
      <4>1. PICK v \in Users : IsAdmin(h, v)
        BY <2>1, <3>2 DEF AdminsInv, GroupsKeepAnAdmin, Appointed
      <4>2. members'[h][v] = members[h][v]
        BY <3>2
      <4> QED BY <4>1, <4>2 DEF IsAdmin, IsAdminIn
    <3> QED BY <3>1, <3>2
  <2> QED BY <2>1 DEF GroupsKeepAnAdmin, Appointed, IsAdmin, IsAdminIn
<1>3. WorkersRely'
  <2> SUFFICES ASSUME NEW q \in Workers, pc'[q] \in Decided, job'[q].group \notin crossed'
               PROVE  Relies(members', appointed', pc'[q], job'[q])
    BY DEF WorkersRely
  <2>1. q # p /\ pc'[q] = pc[q] /\ job'[q] = job[q] /\ pc[q] # "idle"
    BY <1>1 DEF Decided
  <2> DEFINE j == job[q]
  <2>2. Relies(members, appointed, pc[q], j)
    BY <2>1 DEF AdminsInv, WorkersRely
  <2>3. j.group \in Ids /\ j.user \in Users /\ j.group \notin crossed'
    BY <2>1 DEF TypeOK, Job
  <2> HIDE DEF j
  <2>4. /\ \A v \in Users : IsAdminIn(members, j.group, v) => IsAdminIn(members', j.group, v)
        /\ Appointed(appointed', j.group) => Appointed(appointed, j.group)
    <3>1. CASE j.group = g
      <4>1. /\ IsAdminIn(members, g, u) => IsAdminIn(members', g, u)
            /\ Appointed(appointed', g) => Appointed(appointed, g)
        BY <2>1, <2>3, <3>1 DEF j
      <4>2. \A v \in Users : v # u => members'[g][v] = members[g][v]
        OBVIOUS
      <4> QED BY <3>1, <4>1, <4>2 DEF IsAdminIn
    <3>2. CASE j.group # g
      <4>1. \A v \in Users : members'[j.group][v] = members[j.group][v]
        BY <2>3, <3>2
      <4> QED BY <2>3, <3>2, <4>1 DEF IsAdminIn
    <3> QED BY <3>1, <3>2
  <2>5. Relies(members', appointed', pc[q], j)
    BY <2>2, <2>3, <2>4 DEF Relies
  <2> QED BY <2>1, <2>5 DEF j
<1> QED BY <1>2, <1>3 DEF AdminsInv

\* A request begins, or goes on without having decided.
LEMMA AdminsOpen ==
  ASSUME TypeOK, AdminsInv, NEW p \in Workers,
         \/ CreateGroup(p) \/ \E u \in Users, g \in Ids : Begin(p, u, g)
         \/ CheckSlug(p) \/ FindGroup(p) \/ Insert(p) \/ Save(p) \/ Delete(p) \/ Abort(p)
  PROVE  AdminsInv'
<1>1. /\ UNCHANGED <<members, appointed, crossed>>
      /\ \E j, c : c \notin Decided /\ (Take(p, j, c) \/ GoTo(p, j, c))
  <2>1. CASE CreateGroup(p) \/ \E u \in Users, g \in Ids : Begin(p, u, g)
    BY <2>1 DEF CreateGroup, Begin, JoinGroup, LeaveGroup, DeleteGroup, UpdateGroup,
                UpdateMemberRole, RemoveMember, Take, Decided
  <2>2. CASE CheckSlug(p) \/ FindGroup(p)
    BY <2>2 DEF CheckSlug, FindGroup, Decided
  <2>3. CASE Insert(p)
    BY <2>3 DEF Insert, Decided
  <2>4. CASE Save(p) \/ Delete(p) \/ Abort(p)
    BY <2>4 DEF Save, Delete, Abort, Decided
  <2> QED BY <2>1, <2>2, <2>3, <2>4
<1>2. PICK j, c : c \notin Decided /\ (Take(p, j, c) \/ GoTo(p, j, c))
  BY <1>1
<1>3. pc'[p] = c /\ \A q \in Workers : q # p => pc'[q] = pc[q] /\ job'[q] = job[q]
  BY <1>2 DEF Take, GoTo, TypeOK
<1> QED BY <1>1, <1>2, <1>3, AdminsRead

\* The user's membership is read: of an administrator who demotes or removes somebody
\* else, or of a member who leaves beside the administrators.
LEMMA AdminsGetMember ==
  ASSUME GroupsInv, AdminsInv, NEW p \in Workers, GetMember(p)
  PROVE  AdminsInv'
<1> DEFINE j == job[p]
<1>1. pc[p] = "member" /\ j \in Job /\ Knows(groups, appointed, "member", j)
  BY DEF GetMember, GroupsInv, TypeOK, WorkersKnow
<1>2. UNCHANGED <<members, appointed, crossed>>
  BY DEF GetMember
<1>3. PICK m : /\ m = members[j.group][j.user] \/ (m = NoRow /\ j.op = "join")
               /\ GoTo(p, [j EXCEPT !.mine = m], AfterMember(j, m))
  BY DEF GetMember
<1> DEFINE k == [j EXCEPT !.mine = m]
           c == AfterMember(j, m)
<1>4. k.group = j.group /\ k.mine = m /\ k.peer = j.peer /\ k.user = j.user
        /\ j.group \in Ids /\ j.user \in Users
  BY <1>1 DEF Job
<1>5. /\ pc'[p] = c /\ (c # "idle" => job'[p] = k)
      /\ \A q \in Workers : q # p => pc'[q] = pc[q] /\ job'[q] = job[q]
  BY <1>3, GoToEffect DEF GroupsInv
<1>6. /\ c = "dismiss" => m # NoRow /\ m.role # "admin" /\ j.op = "leave"
      /\ c = "role" => m # NoRow /\ m.role = "admin" /\ j.peer # j.user
      /\ c = "target" => m # NoRow
  <2>1. CASE j.op = "join" \/ m = NoRow
    BY <2>1 DEF AfterMember
  <2>2. CASE j.op = "leave" /\ m # NoRow
    BY <2>2 DEF AfterMember
  <2>3. CASE j.op \notin {"join", "leave"} /\ m # NoRow
    <3>1. c # "dismiss"
      BY <2>3 DEF AfterMember
    <3> QED BY <2>3, <3>1, AfterMemberMeaning
  <2> QED BY <2>1, <2>2, <2>3
<1>7. c \in {"role", "target", "dismiss"} => m = members[j.group][j.user]
  <2>1. j.op = "join" => c \in {"admit", "idle"}
    BY DEF AfterMember
  <2> QED BY <1>3, <2>1
<1>8. j.op = "leave" => j.peer = j.user
  BY <1>1 DEF Knows
<1> HIDE DEF c, k, j
<1>9. ASSUME c \in Decided, k.group \notin crossed PROVE Relies(members, appointed, c, k)
  <2>1. CASE c = "target"
    BY <1>4, <1>6, <1>7, <2>1 DEF Relies, IsAdminIn
  <2>2. CASE c = "role"
    BY <1>4, <1>6, <1>7, <2>2 DEF Relies, IsAdminIn
  <2>3. CASE c = "dismiss"
    <3>1. ~IsAdminIn(members, j.group, j.user) /\ j.peer = j.user
      BY <1>6, <1>7, <1>8, <2>3 DEF IsAdminIn
    <3>2. Appointed(appointed, j.group) => \E v \in Users : IsAdminIn(members, j.group, v)
      BY <1>4, <1>9 DEF AdminsInv, GroupsKeepAnAdmin, IsAdmin, IsAdminIn, Appointed
    <3> QED BY <1>4, <2>3, <3>1, <3>2 DEF Relies
  <2> QED BY <1>9, <2>1, <2>2, <2>3 DEF Decided
<1>10. c \in Decided => c # "idle"
  BY DEF Decided
<1> QED BY <1>2, <1>5, <1>9, <1>10, AdminsRead

\* A moderator has read that the peer is no administrator, an administrator stays himself;
\* and one who leaves has counted another.
LEMMA AdminsDecide ==
  ASSUME GroupsInv, AdminsInv, NEW p \in Workers, GetTarget(p) \/ CountAdmins(p)
  PROVE  AdminsInv'
<1> DEFINE j == job[p]
<1>1. pc[p] # "idle" /\ j \in Job /\ Knows(groups, appointed, pc[p], j)
  BY DEF GetTarget, CountAdmins, GroupsInv, TypeOK, WorkersKnow
<1>2. j.group \in Ids /\ j.user \in Users /\ j.peer \in Users
  BY <1>1 DEF Job
<1>3. UNCHANGED <<members, appointed, crossed>>
  BY DEF GetTarget, CountAdmins
<1>4. ASSUME NEW c, c = "dismiss" /\ GoTo(p, j, c),
             j.group \notin crossed /\ Appointed(appointed, j.group) =>
               \E v \in Users : v # j.peer /\ IsAdminIn(members, j.group, v)
      PROVE  AdminsInv'
  <2>1. /\ pc'[p] = "dismiss" /\ job'[p] = j
        /\ \A q \in Workers : q # p => pc'[q] = pc[q] /\ job'[q] = job[q]
    BY <1>4, GoToEffect DEF GroupsInv
  <2> HIDE DEF j
  <2>2. j.group \notin crossed => Relies(members, appointed, "dismiss", j)
    BY <1>4 DEF Relies
  <2> QED BY <1>3, <2>1, <2>2, AdminsRead
<1>5. ASSUME NEW c, c \notin Decided, GoTo(p, j, c) PROVE AdminsInv'
  <2>1. pc'[p] = c /\ \A q \in Workers : q # p => pc'[q] = pc[q] /\ job'[q] = job[q]
    BY <1>5, GoToEffect DEF GroupsInv
  <2> QED BY <1>3, <1>5, <2>1, AdminsRead
<1>6. CASE GetTarget(p)
  <2> DEFINE t == members[j.group][j.peer]
  <2>1. /\ pc[p] = "target"
        /\ \/ GoTo(p, j, "idle")
           \/ GoTo(p, j, "dismiss") /\ t # NoRow /\ ~(j.mine.role = "moderator" /\ t.role = "admin")
    BY <1>6 DEF GetTarget
  <2>2. j.peer # j.user /\ j.mine.role \in {"admin", "moderator"}
    BY <1>1, <2>1 DEF Knows
  <2>3. ASSUME j.group \notin crossed, Appointed(appointed, j.group),
               ~(j.mine.role = "moderator" /\ t.role = "admin")
        PROVE  \E v \in Users : v # j.peer /\ IsAdminIn(members, j.group, v)
    <3>1. CASE j.mine.role = "admin"
      <4>1. Relies(members, appointed, pc[p], j)
        BY <2>1, <2>3 DEF AdminsInv, WorkersRely, Decided
      <4> QED BY <1>2, <2>1, <2>2, <3>1, <4>1 DEF Relies
    <3>2. CASE j.mine.role = "moderator"
      <4>1. PICK v \in Users : IsAdminIn(members, j.group, v)
        BY <1>2, <2>3 DEF AdminsInv, GroupsKeepAnAdmin, IsAdmin, IsAdminIn, Appointed
      <4>2. v # j.peer
        BY <2>3, <3>2, <4>1 DEF IsAdminIn
      <4> QED BY <4>1, <4>2
    <3> QED BY <2>2, <3>1, <3>2
  <2>4. "idle" \notin Decided
    BY DEF Decided
  <2> HIDE DEF j, t
  <2> QED BY <1>4, <1>5, <2>1, <2>3, <2>4
<1>7. CASE CountAdmins(p)
  <2> DEFINE admins == {u \in Users : members[j.group][u] = [role |-> "admin", status |-> "active"]}
  <2>1. /\ pc[p] = "count"
        /\ \/ GoTo(p, j, "delete")
           \/ GoTo(p, j, "dismiss") /\ (~LastAdmin(Cardinality(admins)) \/ ~LastAdmin(0))
    BY <1>7 DEF CountAdmins
  <2>2. j.peer = j.user
    BY <1>1, <2>1 DEF Knows
  <2>3. ASSUME ~LastAdmin(Cardinality(admins)) \/ ~LastAdmin(0)
        PROVE  \E v \in Users : v # j.peer /\ IsAdminIn(members, j.group, v)
    <3>1. ~(Cardinality(admins) <= 1)
      BY <2>3 DEF LastAdmin
    <3> DEFINE U == {j.user}
    <3>2. IsFiniteSet(U) /\ Cardinality(U) = 1
      BY FS_Singleton
    <3>3. ~(admins \subseteq U)
      <4>1. admins \subseteq U => Cardinality(admins) <= 1
        BY ONLY <3>2, FS_Subset
      <4> QED BY <3>1, <4>1
    <3>4. PICK v \in admins : v # j.user
      BY <3>3
    <3> DEFINE w == members[j.group][v]
    <3>5. v \in Users /\ w = [role |-> "admin", status |-> "active"]
      BY <3>4
    <3>6. w.role = "admin" /\ w \in Member
      BY <3>5 DEF Member, Role, Status
    <3>7. w # NoRow
      BY <3>6, GroupsAssumption
    <3> QED BY <2>2, <3>4, <3>5, <3>6, <3>7 DEF IsAdminIn
  <2>4. "delete" \notin Decided
    BY DEF Decided
  <2> HIDE DEF j, admins
  <2> QED BY <1>4, <1>5, <2>1, <2>3, <2>4
<1> QED BY <1>6, <1>7

\* A row is added: nobody loses anything, and the creator's is an administrator's.
LEMMA AdminsAdd ==
  ASSUME GroupsInv, AdminsInv, NEW p \in Workers, AddMember(p)
  PROVE  AdminsInv'
<1> DEFINE j == job[p]
           m == Admission(j)
<1>1. j \in Job /\ j.group \in Ids /\ j.user \in Users /\ GoTo(p, j, "idle")
  BY WriterKnows DEF AddMember, Job
<1>2. CASE members[j.group][j.user] # NoRow
  <2>1. /\ UNCHANGED <<members, appointed, crossed>> /\ pc'[p] = "idle"
        /\ \A q \in Workers : q # p => pc'[q] = pc[q] /\ job'[q] = job[q]
    BY <1>1, <1>2, GoToEffect DEF AddMember, GroupsInv
  <2> QED BY <2>1, AdminsRead DEF Decided
<1>3. CASE members[j.group][j.user] = NoRow
  <2>1. /\ members' = [members EXCEPT ![j.group][j.user] = m]
        /\ Appoint(j.group, j.user, m.role, j.user)
        /\ IF m.role = "admin" THEN Cross(p, j.group) ELSE UNCHANGED crossed
    BY <1>3 DEF AddMember
  <2>2. m.role \in {"admin", "member"} /\ m \in Member
    BY AdmissionTyping DEF Admission
  <2>3. m # NoRow
    BY <2>2, GroupsAssumption
  <2> HIDE DEF m
  <2>4. /\ members'[j.group][j.user] = m
        /\ \A h \in Ids, v \in Users :
             <<h, v>> # <<j.group, j.user>> => members'[h][v] = members[h][v]
    BY <1>1, <2>1 DEF GroupsInv, TypeOK
  <2>5. \A h \in Ids \ {j.group} : Appointed(appointed', h) => Appointed(appointed, h)
    BY <2>1 DEF Appoint, Appointed
  <2>6. ~IsAdminIn(members, j.group, j.user)
    BY <1>3 DEF IsAdminIn
  <2>7. CASE m.role = "admin"
    <3>1. /\ crossed \subseteq crossed'
          /\ j.group \in crossed'
               \/ \A q \in Workers \ {p} : ~(pc[q] \in Decided /\ job[q].group = j.group)
      BY <2>1, <2>7 DEF Cross
    <3>2. IsAdminIn(members', j.group, j.user)
      BY <2>3, <2>4, <2>7 DEF IsAdminIn
    <3> HIDE DEF j
    <3> QED BY <1>1, <2>4, <2>5, <3>1, <3>2, AdminsWrite DEF GroupsInv, j
  <2>8. CASE m.role = "member"
    <3>1. UNCHANGED <<appointed, crossed>>
      BY <2>1, <2>8 DEF Appoint
    <3>2. Appointed(appointed', j.group) /\ j.group \notin crossed' =>
            \E v \in Users : IsAdminIn(members', j.group, v)
      <4>1. ASSUME Appointed(appointed, j.group), j.group \notin crossed
            PROVE  \E v \in Users : IsAdminIn(members', j.group, v)
        <5>1. PICK v \in Users : IsAdminIn(members, j.group, v)
          BY <1>1, <4>1 DEF AdminsInv, GroupsKeepAnAdmin, IsAdmin, IsAdminIn, Appointed
        <5>2. v # j.user
          BY <2>6, <5>1
        <5> QED BY <1>1, <2>4, <5>1, <5>2 DEF IsAdminIn
      <4> QED BY <3>1, <4>1
    <3>3. Appointed(appointed', j.group) => Appointed(appointed, j.group)
      BY <3>1
    <3> HIDE DEF j
    <3> QED BY <1>1, <2>4, <2>5, <2>6, <3>1, <3>2, <3>3, AdminsWrite DEF GroupsInv, j
  <2> QED BY <2>2, <2>7, <2>8
<1> QED BY <1>2, <1>3

\* A membership is changed or removed by a handler that relies on another administrator.
LEMMA AdminsChange ==
  ASSUME GroupsInv, AdminsInv, NEW p \in Workers, SetRole(p) \/ Dismiss(p)
  PROVE  AdminsInv'
<1> DEFINE j == job[p]
           o == members[j.group][j.peer]
<1>1. /\ j \in Job /\ j.group \in Ids /\ j.user \in Users /\ j.peer \in Users
      /\ GoTo(p, j, "idle") /\ pc[p] \in {"role", "dismiss"} /\ pc[p] \in Decided
      /\ Knows(groups, appointed, pc[p], j)
  BY WriterKnows DEF SetRole, Dismiss, Job, Decided
<1>2. \A h \in Ids, v \in Users :
        <<h, v>> # <<j.group, j.peer>> => members'[h][v] = members[h][v]
  <2>1. CASE Dismiss(p)
    BY <1>1, <2>1 DEF Dismiss, GroupsInv, TypeOK
  <2>2. CASE SetRole(p) /\ o = NoRow
    BY <2>2 DEF SetRole
  <2>3. CASE SetRole(p) /\ o # NoRow
    <3> DEFINE row == [members[j.group] EXCEPT ![j.peer] = [o EXCEPT !.role = j.role]]
    <3>1. members' = [members EXCEPT ![j.group] = row]
      BY <2>3 DEF SetRole
    <3>2. \A v \in Users : v # j.peer => row[v] = members[j.group][v]
      BY <1>1 DEF GroupsInv, TypeOK
    <3> HIDE DEF row
    <3> QED BY <1>1, <3>1, <3>2 DEF GroupsInv, TypeOK
  <2> QED BY <2>1, <2>2, <2>3
<1>3. \A h \in Ids : Appointed(appointed', h) => Appointed(appointed, h)
  <2>1. CASE UNCHANGED appointed
    BY <2>1
  <2>2. CASE pc[p] = "role" /\ Appoint(j.group, j.peer, j.role, j.user)
    <3>1. Appointed(appointed, j.group)
      BY <1>1, <2>2 DEF Knows, Given, Appointed
    <3>2. \A a \in appointed' : a \in appointed \/ a.group = j.group
      BY <2>2 DEF Appoint
    <3> HIDE DEF j
    <3> QED BY <3>1, <3>2 DEF Appointed
  <2> QED BY <2>1, <2>2 DEF SetRole, Dismiss
<1>4. /\ crossed \subseteq crossed'
      /\ \/ j.group \in crossed'
         \/ \A q \in Workers \ {p} : ~(pc[q] \in Decided /\ job[q].group = j.group)
         \/ IsAdminIn(members, j.group, j.peer) => IsAdminIn(members', j.group, j.peer)
  <2>1. \A b : Withdraw(p, j.group, j.peer, b) =>
          /\ crossed \subseteq crossed'
          /\ \/ j.group \in crossed'
             \/ \A q \in Workers \ {p} : ~(pc[q] \in Decided /\ job[q].group = j.group)
             \/ IsAdminIn(members, j.group, j.peer) => b
    BY DEF Withdraw, Cross, IsAdmin, IsAdminIn
  <2>2. CASE Dismiss(p)
    BY <2>1, <2>2 DEF Dismiss
  <2>3. CASE SetRole(p)
    <3>1. Withdraw(p, j.group, j.peer, j.role = "admin")
      BY <2>3 DEF SetRole
    <3>2. IsAdminIn(members, j.group, j.peer) /\ j.role = "admin" =>
            IsAdminIn(members', j.group, j.peer)
      <4>1. SUFFICES ASSUME o # NoRow, j.role = "admin"
                     PROVE  IsAdminIn(members', j.group, j.peer)
        BY DEF IsAdminIn
      <4> DEFINE m == [o EXCEPT !.role = j.role]
                 row == [members[j.group] EXCEPT ![j.peer] = m]
      <4>2. o \in Member
        BY <1>1, <4>1 DEF GroupsInv, TypeOK
      <4>3. m \in Member /\ m.role = "admin"
        BY <1>1, <4>1, <4>2 DEF Member, Role
      <4>4. m # NoRow
        BY <4>3, GroupsAssumption
      <4>5. members' = [members EXCEPT ![j.group] = row]
        BY <2>3, <4>1 DEF SetRole
      <4> HIDE DEF m
      <4>6. row[j.peer] = m
        BY <1>1 DEF GroupsInv, TypeOK
      <4> HIDE DEF row
      <4>7. members'[j.group][j.peer] = m
        BY <1>1, <4>5, <4>6 DEF GroupsInv, TypeOK
      <4> QED BY <4>3, <4>4, <4>7 DEF IsAdminIn
    <3> HIDE DEF j
    <3> QED BY <2>1, <3>1, <3>2
  <2> QED BY <2>2, <2>3
<1>5. ASSUME j.group \notin crossed', Appointed(appointed', j.group)
      PROVE  \E v \in Users : IsAdminIn(members', j.group, v)
  <2>1. Relies(members, appointed, pc[p], j)
    BY <1>1, <1>4, <1>5 DEF AdminsInv, WorkersRely
  <2>2. PICK v \in Users : v # j.peer /\ IsAdminIn(members, j.group, v)
    BY <1>1, <1>3, <1>5, <2>1 DEF Relies
  <2>3. members'[j.group][v] = members[j.group][v]
    BY <1>1, <1>2, <2>2
  <2> QED BY <2>2, <2>3 DEF IsAdminIn
<1> HIDE DEF j
<1> QED BY <1>1, <1>2, <1>3, <1>4, <1>5, AdminsWrite DEF GroupsInv, j

LEMMA AdminsStep == GroupsInv /\ AdminsInv /\ [Next]_vars => AdminsInv'
<1> SUFFICES ASSUME GroupsInv, AdminsInv, [Next]_vars PROVE AdminsInv'
  OBVIOUS
<1>1. ASSUME NEW p \in Workers, CreateGroup(p) \/ Serve(p) \/ Abort(p) PROVE AdminsInv'
  BY <1>1, AdminsOpen, AdminsGetMember, AdminsDecide, AdminsAdd, AdminsChange
     DEF Serve, GroupsInv
<1>2. ASSUME NEW p \in Workers, NEW u \in Users, NEW g \in Ids, Begin(p, u, g)
      PROVE  AdminsInv'
  BY <1>2, AdminsOpen DEF GroupsInv
<1>3. CASE UNCHANGED vars
  BY <1>3 DEF vars, AdminsInv, GroupsKeepAnAdmin, WorkersRely, IsAdmin
<1> QED BY <1>1, <1>2, <1>3 DEF Next

----------------------------------------------------------------------------
(* The theorems.                                                           *)

LEMMA InitInv == Init => GroupsInv
BY InitType DEF Init, GroupsInv, WorkersKnow, Reserved, AppointmentsHold, MembersHold,
   SlugsAreUnique

LEMMA StepInv == GroupsInv /\ [Next]_vars => GroupsInv'
<1> SUFFICES ASSUME GroupsInv, [Next]_vars PROVE GroupsInv'
  OBVIOUS
<1>1. ASSUME NEW p \in Workers, CreateGroup(p) \/ Serve(p) \/ Abort(p) PROVE GroupsInv'
  BY <1>1, CreateGroupKeeps, CheckSlugKeeps, FindGroupKeeps, GetMemberKeeps, DecideKeeps,
     InsertKeeps, AddMemberKeeps, SetRoleKeeps, DismissKeeps, SaveKeeps, DeleteKeeps DEF Serve
<1>2. ASSUME NEW p \in Workers, NEW u \in Users, NEW g \in Ids, Begin(p, u, g)
      PROVE  GroupsInv'
  BY <1>2, BeginKeeps
<1>3. CASE UNCHANGED vars
  BY <1>3 DEF vars, GroupsInv, TypeOK, WorkersKnow, Reserved, AppointmentsHold, MembersHold,
     SlugsAreUnique
<1> QED BY <1>1, <1>2, <1>3 DEF Next

\* The invariant holds in every reachable state.
THEOREM Invariance == Spec => []GroupsInv
<1>1. Init => GroupsInv
  BY InitInv
<1>2. GroupsInv /\ [Next]_vars => GroupsInv'
  BY StepInv
<1> QED BY <1>1, <1>2, PTL DEF Spec

\* The tables, the workers and the history keep their types, whatever requests
\* interleave and fail.
THEOREM TypeCorrect == Spec => []TypeOK
<1>1. GroupsInv => TypeOK
  BY DEF GroupsInv
<1> QED BY <1>1, Invariance, PTL

\* Every role above member was given by an earlier administrator of the group, or by
\* its creator to himself: no interleaving of CreateGroup, UpdateMemberRole, JoinGroup
\* and RemoveMember makes an administrator out of nothing.
THEOREM AuthorityInherited == Spec => []AuthorityIsInherited
<1>1. GroupsInv => AuthorityIsInherited
  BY DEF GroupsInv, MembersHold, AppointmentsHold, AuthorityIsInherited, WasGiven, Given
<1> QED BY <1>1, Invariance, PTL

\* No request that its user was never entitled to make gets as far as a write.
THEOREM ChangesAuthorised == Spec => []ChangesNeedAuthority
<1>1. GroupsInv => ChangesNeedAuthority
  <2> SUFFICES ASSUME GroupsInv, NEW p \in Workers, pc[p] # "idle"
               PROVE  /\ pc[p] \in {"save", "delete", "role"} =>
                           WasGiven(job[p].group, job[p].user, "admin")
                      /\ pc[p] = "dismiss" /\ job[p].peer # job[p].user =>
                           \/ WasGiven(job[p].group, job[p].user, "admin")
                           \/ WasGiven(job[p].group, job[p].user, "moderator")
    BY DEF ChangesNeedAuthority
  <2>1. Knows(groups, appointed, pc[p], job[p])
    BY DEF GroupsInv, WorkersKnow
  <2>2. \A g, u, r : WasGiven(g, u, r) <=> Given(appointed, g, u, r)
    BY DEF WasGiven, Given
  <2> QED BY <2>1, <2>2 DEF Knows
<1> QED BY <1>1, Invariance, PTL

\* A group whose creator was admitted has an administrator for good, whatever leaves,
\* demotions and removals come, unless two requests that withdraw one overlap.
THEOREM AdminsRemain == Spec => []GroupsKeepAnAdmin
<1>1. Init => AdminsInv
  BY DEF Init, AdminsInv, GroupsKeepAnAdmin, WorkersRely, Decided
<1>2. GroupsInv /\ AdminsInv /\ [Next]_vars => AdminsInv'
  BY AdminsStep
<1>3. AdminsInv => GroupsKeepAnAdmin
  BY DEF AdminsInv
<1> QED BY <1>1, <1>2, <1>3, Invariance, PTL DEF Spec

\* Two groups never share a slug, not even when UpdateGroup brings back a deleted one.
THEOREM SlugsUnique == Spec => []SlugsAreUnique
<1>1. GroupsInv => SlugsAreUnique
  BY DEF GroupsInv
<1> QED BY <1>1, Invariance, PTL

\* All numbers below the one the slug loop tries are in use: it ends after at most as
\* many turns as there are groups.
THEOREM SlugLoop == Spec => []SlugLoopSkipsNothing
<1>1. GroupsInv => SlugLoopSkipsNothing
  BY DEF GroupsInv, WorkersKnow, Knows, SlugLoopSkipsNothing, DuplicateKey, Numbered
<1> QED BY <1>1, Invariance, PTL

\* However many creators race, slugs stay unique and the loop that looks for one ends.
THEOREM SlugsSound == Spec => []SlugsAreSound
<1>1. SlugsAreUnique /\ SlugLoopSkipsNothing => SlugsAreSound
  BY DEF SlugsAreSound
<1> QED BY <1>1, SlugsUnique, SlugLoop, PTL
=============================================================================
