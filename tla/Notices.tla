------------------------------ MODULE Notices ------------------------------
(***************************************************************************)
(* The notifications of one user, the owner of a post, and the cached      *)
(* number of unread ones: what notification_repo.go does to them.  The     *)
(* handlers that use it are in Engagement.                                 *)
(*                                                                         *)
(* The cached list of unread notifications is filled and deleted like the  *)
(* number and is not told apart from it.                                   *)
(***************************************************************************)
EXTENDS Naturals, FiniteSets

CONSTANTS
  Users,     \* the users who may cause a notification; not the owner
  Absent     \* an absent key

VARIABLES
  notices,   \* the rows of the owner
  unread     \* the cached number of unread rows

\* A notification is named by the request that caused it; read says is_read.
Notice == [id : Nat, kind : {"liked", "commented"}, sender : Users, read : BOOLEAN]

NoticesOK ==
  /\ notices \subseteq Notice
  /\ unread \in Nat \cup {Absent}

NoticesInit == notices = {} /\ unread = Absent

\* The SELECT COUNT of CountUnreadByUserID.
Unread == Cardinality({n \in notices : ~n.read})

Create(n) == notices' = notices \cup {n}

\* MarkAsRead, and MarkAllAsRead for all ids.
MarkRead(ids) ==
  notices' = {[n EXCEPT !.read = n.read \/ n.id \in ids] : n \in notices}

\* DeleteNotification.
Dismiss(id) == notices' = {n \in notices : n.id # id}

\* Wrong on purpose: only unread notifications count as sent.
AlreadySent_Unread(u) == \E n \in notices : n.kind = "liked" /\ n.sender = u /\ ~n.read

\* The search of SendPostLikedNotification through the rows of the owner, of which it
\* reads the newest 1000.
AlreadySent(u) == \E n \in notices : n.kind = "liked" /\ n.sender = u

=============================================================================
