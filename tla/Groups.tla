------------------------------- MODULE Groups -------------------------------
(***************************************************************************)
(* Groups and their members: creation with its search for a free slug,     *)
(* joining, leaving, roles, removal, update and deletion.                  *)
(*                                                                         *)
(* A worker p is the goroutine of one HTTP request; each of its statements *)
(* is an action, since no handler uses a transaction.  The database keeps  *)
(* two unique indexes: the slug, which also counts groups that were        *)
(* deleted softly, and the pair (group_id, user_id).                       *)
(*                                                                         *)
(* All groups are given the same name, so their slugs differ only in the   *)
(* number CreateGroup appends (0 for none).  No statement clears           *)
(* is_active, stores the member status "banned", or makes a pending member *)
(* active: UpdateMemberStatus of the repository has no caller.             *)
(***************************************************************************)
EXTENDS Naturals, FiniteSets

CONSTANTS
  Users,    \* user ids
  Ids,      \* group ids
  Workers,  \* concurrently running HTTP requests
  Budget,   \* number of requests that come
  Faults,   \* TRUE: statements and the process itself may fail
  NoRow     \* an absent row, and what an idle worker holds

Policy == {"anyone_can_join", "approval_required"}
Role   == {"admin", "moderator", "member"}
Status == {"active", "pending"}

Group  == [creator : Users, slug : Nat, policy : Policy, deleted : BOOLEAN]
Member == [role : Role, status : Status]

\* A request and what its handler has read: the group, the user's own membership.
Job == [op : {"create", "join", "leave", "update", "delete", "role", "remove"},
        user : Users, group : Ids, peer : Users, role : Role, policy : Policy,
        slug : Nat, row : Group \cup {NoRow}, mine : Member \cup {NoRow}]

Appointment == [group : Ids, user : Users, role : {"admin", "moderator"}, by : Users]

ASSUME GroupsAssumption ==
  /\ Budget \in Nat
  /\ Faults \in BOOLEAN
  /\ NoRow \notin Group \cup Member \cup Job

VARIABLES
  groups,     \* the groups table
  members,    \* the group_members table
  pc,         \* control point of each worker
  job,        \* the request a worker serves
  left,       \* requests that have still to come
  appointed,  \* history: who gave whom which role
  crossed     \* history: groups that lost or gained an administrator at the wrong moment

vars == <<groups, members, pc, job, left, appointed, crossed>>

Control == {"idle", "slug", "insert", "group", "member", "target", "count",
            "admit", "role", "dismiss", "save", "delete"}

TypeOK ==
  /\ groups \in [Ids -> Group \cup {NoRow}]
  /\ members \in [Ids -> [Users -> Member \cup {NoRow}]]
  /\ pc \in [Workers -> Control]
  /\ job \in [Workers -> Job \cup {NoRow}]
  /\ \A p \in Workers : pc[p] # "idle" => job[p] \in Job
  /\ left \in 0..Budget
  /\ appointed \in SUBSET Appointment
  /\ crossed \in SUBSET Ids

Init ==
  /\ groups = [g \in Ids |-> NoRow]
  /\ members = [g \in Ids |-> [u \in Users |-> NoRow]]
  /\ pc = [p \in Workers |-> "idle"]
  /\ job = [p \in Workers |-> NoRow]
  /\ left = Budget
  /\ appointed = {}
  /\ crossed = {}

----------------------------------------------------------------------------
(* Helpers.                                                                *)

\* Worker p takes a request and starts at control point c.
Take(p, j, c) ==
  /\ pc[p] = "idle"
  /\ left > 0
  /\ left' = left - 1
  /\ pc' = [pc EXCEPT ![p] = c]
  /\ job' = [job EXCEPT ![p] = j]
  /\ UNCHANGED <<groups, members, appointed, crossed>>

\* Worker p goes on at c, holding j; an idle worker holds nothing.
GoTo(p, j, c) ==
  /\ pc' = [pc EXCEPT ![p] = c]
  /\ job' = [job EXCEPT ![p] = IF c = "idle" THEN NoRow ELSE j]

Request(op, u, g) ==
  [op |-> op, user |-> u, group |-> g, peer |-> u, role |-> "member",
   policy |-> "anyone_can_join", slug |-> 0, row |-> NoRow, mine |-> NoRow]

\* IsSlugTaken does not see deleted groups; the unique index does.
IsSlugTaken(n) == \E g \in Ids : groups[g] # NoRow /\ groups[g].slug = n /\ ~groups[g].deleted

\* Wrong on purpose: an index without the groups that were deleted.
DuplicateKey_Live(n) == IsSlugTaken(n)

DuplicateKey(n) == \E g \in Ids : groups[g] # NoRow /\ groups[g].slug = n

\* The roles above member that were given, and by whom.
Appoint(g, u, r, v) ==
  appointed' = IF r = "member" THEN appointed
               ELSE appointed \cup {[group |-> g, user |-> u, role |-> r, by |-> v]}

\* Points at which a handler has decided to change a membership, on what it has read.
Decided == {"target", "role", "dismiss"}

\* What p does to the administrators of g happens under another handler that has decided.
Cross(p, g) ==
  crossed' = IF \E q \in Workers \ {p} : pc[q] \in Decided /\ job[q].group = g
             THEN crossed \cup {g} ELSE crossed

IsAdmin(g, u) == members[g][u] # NoRow /\ members[g][u].role = "admin"

\* p takes the administrator's role from u, or leaves things as they were.
Withdraw(p, g, u, still) ==
  IF IsAdmin(g, u) /\ ~still THEN Cross(p, g) ELSE UNCHANGED crossed

NextSlug(n) == n + 1

\* Wrong on purpose: the one who leaves is not counted.
LastAdmin_Others(n) == n < 1

LastAdmin(n) == n <= 1

\* Wrong on purpose: the policy is stored as the status.
Admission_Policy(j) == [role |-> IF j.op = "create" THEN "admin" ELSE "member",
                        status |-> IF j.op = "create" THEN "active" ELSE j.row.policy]

\* The row JoinGroup and CreateGroup add.
Admission(j) ==
  IF j.op = "create" THEN [role |-> "admin", status |-> "active"]
  ELSE [role |-> "member",
        status |-> IF j.row.policy = "approval_required" THEN "pending" ELSE "active"]

\* Wrong on purpose: any member may set roles; moderators may update the group.
AfterMember_AnyRole(j, m) ==
  IF j.op = "join" THEN IF m = NoRow THEN "admit" ELSE "idle"
  ELSE IF m # NoRow /\ j.op = "role" THEN "role" ELSE "idle"
AfterMember_Moderator(j, m) ==
  IF j.op = "join" THEN IF m = NoRow THEN "admit" ELSE "idle"
  ELSE IF m = NoRow THEN "idle"
  ELSE CASE j.op = "role"   /\ m.role = "admin" /\ j.peer # j.user -> "role"
         [] j.op = "update" /\ m.role # "member" -> "save"
         [] OTHER           -> "idle"

\* Where a handler goes once GetMember returned m, the membership of its user.
AfterMember(j, m) ==
  IF j.op = "join" THEN IF m = NoRow THEN "admit" ELSE "idle"
  ELSE IF m = NoRow THEN "idle"
  ELSE CASE j.op = "leave"  -> IF m.role = "admin" THEN "count" ELSE "dismiss"
         [] j.op = "update" /\ m.role = "admin" -> "save"
         [] j.op = "delete" /\ m.role = "admin" -> "delete"
         [] j.op = "role"   /\ m.role = "admin" /\ j.peer # j.user -> "role"
         [] j.op = "remove" /\ m.role \in {"admin", "moderator"} /\ j.peer # j.user -> "target"
         [] OTHER           -> "idle"

----------------------------------------------------------------------------
(* A request arrives.                                                      *)

\* The group gets a fresh id when it is built, before the INSERT.
CreateGroup(p) ==
  \E u \in Users, g \in Ids, y \in Policy :
    /\ groups[g] = NoRow
    /\ \A q \in Workers : pc[q] # "idle" => job[q].group # g
    /\ Take(p, [Request("create", u, g) EXCEPT !.policy = y], "slug")

\* The other requests name a group that was created, deleted or not.
JoinGroup(p, u, g)  == groups[g] # NoRow /\ Take(p, Request("join", u, g), "group")
LeaveGroup(p, u, g) == groups[g] # NoRow /\ Take(p, Request("leave", u, g), "member")
DeleteGroup(p, u, g) == groups[g] # NoRow /\ Take(p, Request("delete", u, g), "member")

\* UpdateGroup changes the policy here, or sends the one it has; the other
\* fields are carried along.
UpdateGroup(p, u, g) ==
  /\ groups[g] # NoRow
  /\ \E y \in Policy : Take(p, [Request("update", u, g) EXCEPT !.policy = y], "group")

UpdateMemberRole(p, u, g) ==
  /\ groups[g] # NoRow
  /\ \E v \in Users, r \in Role :
       Take(p, [Request("role", u, g) EXCEPT !.peer = v, !.role = r], "member")

RemoveMember(p, u, g) ==
  /\ groups[g] # NoRow
  /\ \E v \in Users : Take(p, [Request("remove", u, g) EXCEPT !.peer = v], "member")

----------------------------------------------------------------------------
(* What the handlers read.                                                 *)

\* One turn of the slug loop.
CheckSlug(p) ==
  LET j == job[p] IN
  /\ pc[p] = "slug"
  /\ IF IsSlugTaken(j.slug) THEN GoTo(p, [j EXCEPT !.slug = NextSlug(@)], "slug")
                            ELSE GoTo(p, j, "insert")
  /\ UNCHANGED <<groups, members, left, appointed, crossed>>

\* FindGroupByID: a deleted group is not found.
FindGroup(p) ==
  LET j == job[p]
      r == groups[j.group] IN
  /\ pc[p] = "group"
  /\ GoTo(p, [j EXCEPT !.row = r], IF r.deleted THEN "idle" ELSE "member")
  /\ UNCHANGED <<groups, members, left, appointed, crossed>>

\* GetMember of the user.  JoinGroup ignores an error and takes it for no row.
GetMember(p) ==
  LET j == job[p] IN
  /\ pc[p] = "member"
  /\ \E m \in {members[j.group][j.user]} \cup (IF Faults /\ j.op = "join" THEN {NoRow} ELSE {}) :
       GoTo(p, [j EXCEPT !.mine = m], AfterMember(j, m))
  /\ UNCHANGED <<groups, members, left, appointed, crossed>>

\* GetMember of the user to be removed.
GetTarget(p) ==
  LET j == job[p]
      t == members[j.group][j.peer] IN
  /\ pc[p] = "target"
  /\ GoTo(p, j, IF t = NoRow \/ (j.mine.role = "moderator" /\ t.role = "admin")
                THEN "idle" ELSE "dismiss")
  /\ UNCHANGED <<groups, members, left, appointed, crossed>>

\* LeaveGroup counts the administrators among the active members, of which it reads 1000
\* (here: all); an error counts as none.
CountAdmins(p) ==
  LET j == job[p]
      admins == {u \in Users : members[j.group][u] = [role |-> "admin", status |-> "active"]} IN
  /\ pc[p] = "count"
  /\ \E n \in {Cardinality(admins)} \cup (IF Faults THEN {0} ELSE {}) :
       GoTo(p, j, IF LastAdmin(n) THEN "delete" ELSE "dismiss")
  /\ UNCHANGED <<groups, members, left, appointed, crossed>>

----------------------------------------------------------------------------
(* What the handlers write.                                                *)

\* db.Create of the group, which the index on the slug may refuse.
Insert(p) ==
  LET j == job[p] IN
  /\ pc[p] = "insert"
  /\ IF DuplicateKey(j.slug)
       THEN GoTo(p, j, "idle") /\ UNCHANGED groups
       ELSE /\ groups' = [groups EXCEPT ![j.group] =
                 [creator |-> j.user, slug |-> j.slug, policy |-> j.policy, deleted |-> FALSE]]
            /\ GoTo(p, j, "admit")
  /\ UNCHANGED <<members, left, appointed, crossed>>

\* AddMember, which the index on (group_id, user_id) may refuse.
AddMember(p) ==
  LET j == job[p]
      m == Admission(j) IN
  /\ pc[p] = "admit"
  /\ IF members[j.group][j.user] # NoRow
       THEN UNCHANGED <<members, appointed, crossed>>
       ELSE /\ members' = [members EXCEPT ![j.group][j.user] = m]
            /\ Appoint(j.group, j.user, m.role, j.user)
            /\ IF m.role = "admin" THEN Cross(p, j.group) ELSE UNCHANGED crossed
  /\ GoTo(p, j, "idle")
  /\ UNCHANGED <<groups, left>>

\* UPDATE of the role: no matter whether the row exists, is active or has changed.
SetRole(p) ==
  LET j == job[p] IN
  /\ pc[p] = "role"
  /\ IF members[j.group][j.peer] = NoRow
       THEN UNCHANGED <<members, appointed>>
       ELSE /\ members' = [members EXCEPT ![j.group][j.peer].role = j.role]
            /\ Appoint(j.group, j.peer, j.role, j.user)
  /\ Withdraw(p, j.group, j.peer, j.role = "admin")
  /\ GoTo(p, j, "idle")
  /\ UNCHANGED <<groups, left>>

\* The DELETE that ends LeaveGroup (peer is the user) and RemoveMember.
Dismiss(p) ==
  LET j == job[p] IN
  /\ pc[p] = "dismiss"
  /\ members' = [members EXCEPT ![j.group][j.peer] = NoRow]
  /\ Withdraw(p, j.group, j.peer, FALSE)
  /\ GoTo(p, j, "idle")
  /\ UNCHANGED <<groups, left, appointed>>

\* db.Save of the row as it was read, with the new policy: it finds no undeleted
\* row if the group was deleted meanwhile, and brings it back.
Save(p) ==
  LET j == job[p] IN
  /\ pc[p] = "save"
  /\ groups' = [groups EXCEPT ![j.group] = [j.row EXCEPT !.policy = j.policy]]
  /\ GoTo(p, j, "idle")
  /\ UNCHANGED <<members, left, appointed, crossed>>

\* The soft deletion of DeleteGroup and LeaveGroup; the members stay.
Delete(p) ==
  LET j == job[p] IN
  /\ pc[p] = "delete"
  /\ groups' = [groups EXCEPT ![j.group].deleted = TRUE]
  /\ GoTo(p, j, "idle")
  /\ UNCHANGED <<members, left, appointed, crossed>>

\* A statement returns an error, or the process stops: the handler ends where it is.
Abort(p) ==
  /\ Faults
  /\ pc[p] # "idle"
  /\ GoTo(p, job[p], "idle")
  /\ UNCHANGED <<groups, members, left, appointed, crossed>>

----------------------------------------------------------------------------
Begin(p, u, g) ==
  \/ JoinGroup(p, u, g) \/ LeaveGroup(p, u, g) \/ DeleteGroup(p, u, g)
  \/ UpdateGroup(p, u, g) \/ UpdateMemberRole(p, u, g) \/ RemoveMember(p, u, g)

Serve(p) ==
  \/ CheckSlug(p) \/ FindGroup(p) \/ GetMember(p) \/ GetTarget(p) \/ CountAdmins(p)
  \/ Insert(p) \/ AddMember(p) \/ SetRole(p) \/ Dismiss(p) \/ Save(p) \/ Delete(p)

Next ==
  \/ \E p \in Workers : CreateGroup(p) \/ Serve(p) \/ Abort(p)
  \/ \E p \in Workers, u \in Users, g \in Ids : Begin(p, u, g)

Spec == Init /\ [][Next]_vars
----------------------------------------------------------------------------
(* Safety, whatever interleaves and whatever fails.                        *)

WasGiven(g, u, r) == \E v \in Users : [group |-> g, user |-> u, role |-> r, by |-> v] \in appointed

\* Authority over a group is inherited from its creator: whoever is administrator
\* or moderator was made that, and whoever made somebody that was made
\* administrator of this very group before, or is its creator.  Handlers decide on
\* a membership they read earlier, so the giver may have lost the role since.
AuthorityIsInherited ==
  /\ \A g \in Ids, u \in Users :
       members[g][u] # NoRow /\ members[g][u].role # "member" =>
         WasGiven(g, u, members[g][u].role)
  /\ \A a \in appointed :
       IF a.by = a.user THEN a.user = groups[a.group].creator
                        ELSE WasGiven(a.group, a.by, "admin")

\* No handler gets as far as changing a group, or somebody else's membership,
\* unless its user was given the role the code asks for.
ChangesNeedAuthority ==
  \A p \in Workers : pc[p] # "idle" =>
    LET j == job[p] IN
    /\ pc[p] \in {"save", "delete", "role"} => WasGiven(j.group, j.user, "admin")
    /\ pc[p] = "dismiss" /\ j.peer # j.user =>
         WasGiven(j.group, j.user, "admin") \/ WasGiven(j.group, j.user, "moderator")

\* A group whose creator was admitted always has an administrator, though nobody but an
\* administrator could make one: who leaves last deletes the group instead, nobody demotes
\* or removes himself, and moderators remove no administrator.  The exception are two
\* requests that overlap, such as two administrators who leave at once.
GroupsKeepAnAdmin ==
  \A g \in Ids : (\E a \in appointed : a.group = g) =>
    g \in crossed \/ \E u \in Users : IsAdmin(g, u)

\* No two groups ever have the same slug, so that no statement but the INSERT can
\* run into the index on it: not the Save that brings a deleted group back.
SlugsAreUnique ==
  \A g, h \in Ids :
    g # h /\ groups[g] # NoRow /\ groups[h] # NoRow => groups[g].slug # groups[h].slug

\* The loop of CreateGroup skips no number: all below the one it tries are used, so
\* that it ends after as many turns as there are groups, whoever else creates some.
SlugLoopSkipsNothing ==
  \A p \in Workers : pc[p] \in {"slug", "insert"} =>
    \A n \in 0..(job[p].slug - 1) : DuplicateKey(n)

\* Slugs stay unique, and the search for a free one ends.
SlugsAreSound == SlugsAreUnique /\ SlugLoopSkipsNothing

\* LeaveGroup says that the group is deleted if its only administrator leaves.  An
\* administrator whose own membership is still pending is not among those it
\* counts, and deletes the group of another one.
LastAdminLeaves ==
  \A p \in Workers : pc[p] = "delete" /\ job[p].op = "leave" =>
    \A u \in Users : u # job[p].user =>
      members[job[p].group][u] # [role |-> "admin", status |-> "active"]

=============================================================================
