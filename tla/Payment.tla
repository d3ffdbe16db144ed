------------------------------ MODULE Payment ------------------------------
(***************************************************************************)
(* Payments through Midtrans and the role upgrade a payment buys.          *)
(*                                                                         *)
(* Three handlers write the same payments row without a transaction: the   *)
(* one that created it and waits for the charge answer, the status poll,   *)
(* and the webhook.  A worker p is the goroutine of one HTTP request; each *)
(* database statement and each call to Midtrans is an action.              *)
(*                                                                         *)
(* Midtrans is outside the repository.  Its part here is what the code     *)
(* expects: a transaction has a status, every change of it is reported by  *)
(* a webhook, and a webhook that was not answered with 200 comes again,    *)
(* possibly while an earlier delivery is still being served, and in any    *)
(* order.  The handler of webhooks needs no login and looks at the body    *)
(* only, so a body about a payment may say anything at any time.           *)
(*                                                                         *)
(* Amounts are left out: CreatePaymentForRole takes the role's price, but  *)
(* CreatePayment takes amount and target role from the request.            *)
(***************************************************************************)
EXTENDS Naturals, FiniteSets

CONSTANTS
  Users,     \* user ids
  Roles,     \* user_type values
  Orders,    \* order ids (PAY_<uuid>)
  Workers,   \* concurrently running HTTP requests
  Budget,    \* number of payments, polls and bodies not owed by Midtrans per worker
  Faults,    \* TRUE: statements, calls and the process itself may fail
  NoTarget,  \* a payment that buys no role
  NoRow,     \* an order that has no row
  Nobody     \* no order

ASSUME PaymentAssumption ==
  /\ Users # {} /\ Roles # {} /\ Orders # {}
  /\ Budget \in Nat
  /\ Faults \in BOOLEAN
  /\ NoTarget \notin Roles
  /\ Nobody \notin Orders
  /\ NoRow \notin [user : Users, target : Roles \cup {NoTarget},
                   status : {"pending", "success", "failed", "cancelled", "expired"},
                   txn : BOOLEAN]

VARIABLES
  payments,  \* the payments table
  role,      \* the user_type column of the users table
  by,        \* history: the order that gave a user their role, or Nobody
  bank,      \* the transaction Midtrans holds for an order
  hooks,     \* webhooks Midtrans has still to deliver
  heard,     \* history: orders a handler was told are paid
  upgraded,  \* history: orders whose upgrade was carried out
  missed,    \* history: paid orders whose upgrade failed, or that nobody reports any more
  notified,  \* role_purchased notifications in the database, by order
  pc,        \* control point of each worker
  job,       \* the request a worker serves
  left       \* how many of the requests Budget bounds each worker may still serve

vars == <<payments, role, by, bank, hooks, heard, upgraded, missed, notified, pc, job, left>>

history == <<by, heard, upgraded, missed>>

PaymentStatus == {"pending", "success", "failed", "cancelled", "expired"}
Payment == [user : Users, target : Roles \cup {NoTarget}, status : PaymentStatus, txn : BOOLEAN]

\* Statuses of a transaction.  The code has no case for a refund, and an answer
\* that refuses the charge names no status at all.
Transaction == {"pending", "capture", "settlement", "deny", "cancel", "expire", "refund"}
Report == [order : Orders, status : Transaction]
Paid == {"capture", "settlement"}

Control == {"idle", "charge", "answer", "ask", "apply", "upgrade", "notify", "finish"}
Job == [op : {"create", "poll", "webhook", "other"}, order : Orders,
        seen : Transaction \cup {"none"}]

TypeOK ==
  /\ payments \in [Orders -> Payment \cup {NoRow}]
  /\ role \in [Users -> Roles]
  /\ by \in [Users -> Orders \cup {Nobody}]
  /\ bank \in [Orders -> Transaction \cup {"none"}]
  /\ hooks \in SUBSET Report
  /\ heard \in SUBSET Orders
  /\ upgraded \in SUBSET Orders
  /\ missed \in SUBSET Orders
  /\ notified \in SUBSET Orders
  /\ pc \in [Workers -> Control]
  /\ job \in [Workers -> Job]
  /\ left \in [Workers -> 0..Budget]

Rest == CHOOSE j \in Job : TRUE

Init ==
  /\ payments = [o \in Orders |-> NoRow]
  /\ role \in [Users -> Roles]
  /\ by = [u \in Users |-> Nobody]
  /\ bank = [o \in Orders |-> "none"]
  /\ hooks = {} /\ heard = {}
  /\ upgraded = {} /\ missed = {} /\ notified = {}
  /\ pc = [p \in Workers |-> "idle"]
  /\ job = [p \in Workers |-> Rest]
  /\ left = [p \in Workers |-> Budget]

----------------------------------------------------------------------------
(* Helpers.                                                                *)

\* Wrong on purpose: the gateway's own word is stored.
mapMidtransStatus_Raw(s) == s

mapMidtransStatus(s) ==
  CASE s \in Paid   -> "success"
    [] s = "deny"   -> "failed"
    [] s = "cancel" -> "cancelled"
    [] s = "expire" -> "expired"
    [] OTHER        -> "pending"

\* Wrong on purpose: the upgrade looks at the target role only, or is skipped
\* when the row already says success.
Upgrades_Unpaid(o, s)  == payments[o].target # NoTarget
Upgrades_Once(o, s) ==
  /\ mapMidtransStatus(s) = "success"
  /\ payments[o].target # NoTarget
  /\ payments[o].status # "success"

\* Status s, applied to order o, buys a role.
Upgrades(o, s) ==
  /\ mapMidtransStatus(s) = "success"
  /\ payments[o].target # NoTarget

\* Worker p goes on at control point c; an idle worker forgets its job.
GoTo(p, c) ==
  /\ pc' = [pc EXCEPT ![p] = c]
  /\ job' = IF c = "idle" THEN [job EXCEPT ![p] = Rest] ELSE job

\* A handler is told that order o has status s.
Hear(o, s) == heard' = IF s \in Paid THEN heard \cup {o} ELSE heard

Learn(p, s, c) ==
  /\ pc' = [pc EXCEPT ![p] = c]
  /\ job' = [job EXCEPT ![p] = [@ EXCEPT !.seen = s]]
  /\ Hear(job[p].order, s)

\* Midtrans moves the transaction of o to status s and tells the webhook.
Move(o, s) ==
  /\ bank' = [bank EXCEPT ![o] = s]
  /\ hooks' = hooks \cup {[order |-> o, status |-> s]}

----------------------------------------------------------------------------
(* CreatePayment.                                                          *)

\* The row is inserted as pending.
Create(p) ==
  /\ pc[p] = "idle"
  /\ left[p] > 0
  /\ left' = [left EXCEPT ![p] = @ - 1]
  /\ \E o \in Orders, u \in Users, r \in Roles \cup {NoTarget} :
       /\ payments[o] = NoRow
       /\ payments' = [payments EXCEPT ![o] =
            [user |-> u, target |-> r, status |-> "pending", txn |-> FALSE]]
       /\ job' = [job EXCEPT ![p] = [op |-> "create", order |-> o, seen |-> "none"]]
  /\ pc' = [pc EXCEPT ![p] = "charge"]
  /\ UNCHANGED <<role, bank, hooks, history, notified>>

\* The charge call: Midtrans opens the transaction, or refuses it.
Charge(p) ==
  /\ pc[p] = "charge"
  /\ \/ \E s \in {"pending", "capture", "deny"} :
          Move(job[p].order, s) /\ Learn(p, s, "answer")
     \/ Learn(p, "none", "answer") /\ UNCHANGED <<bank, hooks>>
  /\ UNCHANGED <<payments, role, by, upgraded, missed, notified, left>>

\* The answer is stored, whatever happened to the row since the call was made.
StoreAnswer(p) ==
  LET j == job[p] IN
  /\ pc[p] = "answer"
  /\ payments' = [payments EXCEPT ![j.order] =
       [@ EXCEPT !.status = mapMidtransStatus(j.seen), !.txn = (j.seen # "none")]]
  /\ GoTo(p, "idle")
  /\ UNCHANGED <<role, bank, hooks, history, notified, left>>

----------------------------------------------------------------------------
(* CheckPaymentStatusFromMidtrans and HandleWebhook.                       *)

\* The owner of a payment asks for its status: nothing to do once it succeeded
\* or while it has no transaction id.
Poll(p, o) ==
  /\ pc[p] = "idle"
  /\ left[p] > 0
  /\ payments[o] # NoRow
  /\ payments[o].status # "success"
  /\ payments[o].txn
  /\ left' = [left EXCEPT ![p] = @ - 1]
  /\ pc' = [pc EXCEPT ![p] = "ask"]
  /\ job' = [job EXCEPT ![p] = [op |-> "poll", order |-> o, seen |-> "none"]]
  /\ UNCHANGED <<payments, role, bank, hooks, history, notified>>

\* An answer without a transaction, which comes with status 200 too, is taken as well.
Ask(p) ==
  /\ pc[p] = "ask"
  /\ \E s \in {bank[job[p].order], "none"} : Learn(p, s, "apply")
  /\ UNCHANGED <<payments, role, by, bank, hooks, upgraded, missed, notified, left>>

\* HandleWebhook: a body says that order o has status s, or names none.  The row is
\* looked up by the order id, and nothing else is asked of the body, so it need not be one
\* that Midtrans has to deliver.
Deliver(p, o, s) ==
  /\ pc[p] = "idle"
  /\ payments[o] # NoRow
  /\ \/ /\ [order |-> o, status |-> s] \in hooks
        /\ job' = [job EXCEPT ![p] = [op |-> "webhook", order |-> o, seen |-> s]]
        /\ UNCHANGED left
     \/ /\ left[p] > 0
        /\ job' = [job EXCEPT ![p] = [op |-> "other", order |-> o, seen |-> s]]
        /\ left' = [left EXCEPT ![p] = @ - 1]
  /\ pc' = [pc EXCEPT ![p] = "apply"]
  /\ Hear(o, s)
  /\ UNCHANGED <<payments, role, by, bank, hooks, upgraded, missed, notified>>

----------------------------------------------------------------------------
(* updatePaymentFromMidtransResponse.                                      *)

\* Status and transaction id are stored as they came, or as absent as they were; the row
\* is read again, for its target.
Apply(p) ==
  LET j == job[p] IN
  /\ pc[p] = "apply"
  /\ payments' = [payments EXCEPT ![j.order] =
       [@ EXCEPT !.status = mapMidtransStatus(j.seen), !.txn = (j.seen # "none")]]
  /\ GoTo(p, IF Upgrades(j.order, j.seen) THEN "upgrade" ELSE "finish")
  /\ UNCHANGED <<role, bank, hooks, history, notified, left>>

\* UpdateUserRole; a failure is logged and the handler goes on.
Upgrade(p) ==
  LET o == job[p].order
      u == payments[o].user IN
  /\ pc[p] = "upgrade"
  /\ \/ /\ role' = [role EXCEPT ![u] = payments[o].target]
        /\ by' = [by EXCEPT ![u] = o]
        /\ upgraded' = upgraded \cup {o}
        /\ GoTo(p, "notify")
        /\ UNCHANGED missed
     \/ /\ Faults
        /\ missed' = missed \cup {o}
        /\ GoTo(p, "finish")
        /\ UNCHANGED <<role, by, upgraded>>
  /\ UNCHANGED <<payments, bank, hooks, heard, notified, left>>

\* SendRolePurchasedNotification; its error is ignored.
Notify(p) ==
  /\ pc[p] = "notify"
  /\ notified' \in {notified \cup {job[p].order}} \cup (IF Faults THEN {notified} ELSE {})
  /\ GoTo(p, "finish")
  /\ UNCHANGED <<payments, role, bank, hooks, history, left>>

\* The client is told over its websocket, and the request is answered: a webhook
\* with 200, so Midtrans stops sending it, unless the answer gets lost.
Finish(p) ==
  LET h == [order |-> job[p].order, status |-> job[p].seen] IN
  /\ pc[p] = "finish"
  /\ IF job[p].op = "webhook"
     THEN hooks' \in {hooks \ {h}} \cup (IF Faults THEN {hooks} ELSE {})
     ELSE UNCHANGED hooks
  /\ GoTo(p, "idle")
  /\ UNCHANGED <<payments, role, bank, history, notified, left>>

----------------------------------------------------------------------------
(* The owner, Midtrans, failures.                                          *)

\* UserHandler.UpdateUserRole: the owner sets a role by hand.
UpdateUserRole(u, r) ==
  /\ role' = [role EXCEPT ![u] = r]
  /\ by' = [by EXCEPT ![u] = Nobody]
  /\ UNCHANGED <<payments, bank, hooks, heard, upgraded, missed, notified, pc, job, left>>

\* A pending transaction is paid, denied, cancelled or expires; a paid one is refunded.
Proceed(o) ==
  /\ \/ bank[o] = "pending" /\ \E s \in {"settlement", "deny", "cancel", "expire"} : Move(o, s)
     \/ bank[o] \in Paid /\ Move(o, "refund")
  /\ UNCHANGED <<payments, role, history, notified, pc, job, left>>

\* Midtrans gives up on a webhook.
GiveUp(h) ==
  /\ Faults
  /\ h \in hooks
  /\ hooks' = hooks \ {h}
  /\ missed' = IF h.status \in Paid THEN missed \cup {h.order} ELSE missed
  /\ UNCHANGED <<payments, role, by, bank, heard, upgraded, notified, pc, job, left>>

\* A statement or a call returns an error, or the process stops: the handler ends
\* where it is.  A webhook is then not answered with 200 and comes again.
Abort(p) ==
  /\ Faults
  /\ pc[p] # "idle"
  /\ GoTo(p, "idle")
  /\ UNCHANGED <<payments, role, bank, hooks, history, notified, left>>

----------------------------------------------------------------------------
Serve(p) ==
  \/ Charge(p) \/ StoreAnswer(p) \/ Ask(p) \/ Apply(p) \/ Upgrade(p) \/ Notify(p) \/ Finish(p)

Next ==
  \/ \E p \in Workers : Create(p) \/ Serve(p) \/ Abort(p)
  \/ \E p \in Workers, o \in Orders : Poll(p, o)
  \/ \E p \in Workers, o \in Orders, s \in Transaction \cup {"none"} : Deliver(p, o, s)
  \/ \E u \in Users, r \in Roles : UpdateUserRole(u, r)
  \/ \E o \in Orders : Proceed(o)
  \/ \E h \in Report : GiveUp(h)

Spec == Init /\ [][Next]_vars

\* Goroutines run, and Midtrans keeps delivering what was not answered.
Fairness ==
  /\ \A p \in Workers : WF_vars(Serve(p))
  /\ \A h \in Report : WF_vars(h \in hooks /\ \E p \in Workers : Deliver(p, h.order, h.status))

FairSpec == Spec /\ Fairness

----------------------------------------------------------------------------
(* Safety, whatever the order of webhooks, polls and answers.              *)

\* Midtrans has the money of order o, or had it.
WasPaid(o) == bank[o] \in Paid \cup {"refund"}

\* The role a payment gave is the one that payment names, of its own user, and a handler
\* was told that it is paid; nobody is congratulated on a role before it was given.
RolesFollowReports ==
  /\ \A u \in Users : by[u] # Nobody =>
       /\ by[u] \in heard
       /\ payments[by[u]].user = u
       /\ payments[by[u]].target = role[u]
  /\ notified \subseteq upgraded

\* Who paid for a role has had it, or Midtrans still reports the payment - whichever
\* handler stored the success first, what was stored over it since, and however often a
\* handler ended before it gave the role.  The exception is a role that could not be
\* written, which is only logged, and a webhook Midtrans gave up.
PaidRolesAreNotForgotten ==
  \A o \in Orders : WasPaid(o) /\ payments[o].target # NoTarget =>
    \/ o \in upgraded
    \/ \E s \in Paid : [order |-> o, status |-> s] \in hooks
    \/ o \in missed

\* Nothing of order o is under way.
AtRest(o) ==
  /\ \A p \in Workers : pc[p] # "idle" => job[p].order # o
  /\ \A h \in hooks : h.order # o

\* The README's flow: after the webhook the payment is a success.  A late charge answer,
\* an older webhook that comes last, or an answer without a status makes it pending again.
SettledIsSuccess ==
  \A o \in Orders : AtRest(o) /\ bank[o] \in Paid => payments[o].status = "success"

----------------------------------------------------------------------------
(* Liveness.                                                               *)

\* While nothing fails, every paid order that names a role gets it, even when the
\* charge answer or a poll has made the row a success before the webhook comes.
PaidRolesArrive ==
  \A o \in Orders :
    (WasPaid(o) /\ payments[o].target # NoTarget) ~> (o \in upgraded)
=============================================================================
