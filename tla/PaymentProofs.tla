--------------------------- MODULE PaymentProofs ---------------------------
(***************************************************************************)
(* Proofs about Payment, for any users, roles, orders, workers and         *)
(* budgets, with or without failures.                                      *)
(***************************************************************************)
EXTENDS Payment, TLAPS

\* What a worker at control point c knows about its job j, the table being T, the orders
\* H heard to be paid, U upgraded and M missed.
KnowsIn(T, H, U, M, c, j) ==
  c # "idle" =>
    /\ T[j.order] # NoRow
    /\ j.seen \in Paid => j.order \in H
    /\ c \in {"upgrade", "notify"} => j.seen \in Paid /\ T[j.order].target # NoTarget
    /\ c = "notify" => j.order \in U
    /\ c = "finish" /\ j.seen \in Paid /\ T[j.order].target # NoTarget => j.order \in U \cup M

WorkersKnow ==
  \A p \in Workers : KnowsIn(payments, heard, upgraded, missed, pc[p], job[p])

\* Nothing is told of an order without a row.
RowsExist == \A o \in Orders : o \in heard \/ bank[o] # "none" => payments[o] # NoRow

\* The inductive invariant: a role goes back to an order some handler heard is paid, and
\* whoever has told Midtrans to stop has given the role or failed to.
LedgerInv ==
  /\ TypeOK
  /\ WorkersKnow
  /\ RowsExist
  /\ RolesFollowReports
  /\ PaidRolesAreNotForgotten

----------------------------------------------------------------------------
(* Small facts.                                                            *)

LEMMA RestIsJob == Rest \in Job
<1>1. PICK o \in Orders : TRUE
  BY PaymentAssumption
<1>2. [op |-> "create", order |-> o, seen |-> "none"] \in Job
  BY <1>1 DEF Job
<1> QED BY <1>2 DEF Rest

LEMMA StatusTyping == \A s : mapMidtransStatus(s) \in PaymentStatus
BY DEF mapMidtransStatus, PaymentStatus

\* What GoTo and Learn leave of the workers.
LEMMA GoToEffect ==
  ASSUME TypeOK, NEW p \in Workers, NEW c \in Control, GoTo(p, c)
  PROVE  /\ pc' \in [Workers -> Control] /\ job' \in [Workers -> Job]
         /\ pc'[p] = c
         /\ c # "idle" => job'[p] = job[p]
         /\ \A q \in Workers \ {p} : pc'[q] = pc[q] /\ job'[q] = job[q]
BY RestIsJob DEF TypeOK, GoTo

LEMMA LearnEffect ==
  ASSUME TypeOK, NEW p \in Workers, NEW s \in Transaction \cup {"none"}, NEW c \in Control,
         Learn(p, s, c)
  PROVE  /\ pc' \in [Workers -> Control] /\ job' \in [Workers -> Job]
         /\ pc'[p] = c
         /\ job'[p].op = job[p].op /\ job'[p].order = job[p].order /\ job'[p].seen = s
         /\ \A q \in Workers \ {p} : pc'[q] = pc[q] /\ job'[q] = job[q]
         /\ heard \subseteq heard' /\ heard' \subseteq heard \cup {job[p].order}
         /\ s \in Paid => job[p].order \in heard'
<1>1. job[p] \in Job
  BY DEF TypeOK
<1>2. [job[p] EXCEPT !.seen = s] \in Job
  BY <1>1 DEF Job
<1>3. /\ [job[p] EXCEPT !.seen = s].op = job[p].op
      /\ [job[p] EXCEPT !.seen = s].order = job[p].order
      /\ [job[p] EXCEPT !.seen = s].seen = s
  BY <1>1 DEF Job
<1>4. job' = [job EXCEPT ![p] = [job[p] EXCEPT !.seen = s]] /\ pc' = [pc EXCEPT ![p] = c]
  BY DEF Learn
<1>5. job'[p] = [job[p] EXCEPT !.seen = s] /\ pc'[p] = c
  BY <1>4 DEF TypeOK
<1>6. pc' \in [Workers -> Control] /\ job' \in [Workers -> Job]
  BY <1>2, <1>4 DEF TypeOK
<1>7. \A q \in Workers \ {p} : pc'[q] = pc[q] /\ job'[q] = job[q]
  BY <1>4 DEF TypeOK
<1>8. Hear(job[p].order, s)
  BY DEF Learn
<1> QED BY <1>3, <1>5, <1>6, <1>7, <1>8 DEF Hear

\* Nothing is asked of an idle worker.
LEMMA IdleKnows == \A T, H, U, M, j : KnowsIn(T, H, U, M, "idle", j)
BY DEF KnowsIn

\* The table keeps its rows, with their users and targets.
TableKept(T, S) ==
  \A o \in Orders : T[o] # NoRow =>
    S[o] # NoRow /\ S[o].target = T[o].target /\ S[o].user = T[o].user

\* Rows stay, and what was heard, done or missed is not forgotten.
Grows ==
  /\ TableKept(payments, payments')
  /\ heard \subseteq heard' /\ upgraded \subseteq upgraded' /\ missed \subseteq missed'

\* A step of worker p leaves the others with what they knew.
LEMMA OthersKnow ==
  ASSUME LedgerInv, NEW p \in Workers, Grows,
         \A q \in Workers \ {p} : pc'[q] = pc[q] /\ job'[q] = job[q],
         KnowsIn(payments', heard', upgraded', missed', pc'[p], job'[p])
  PROVE  WorkersKnow'
<1>1. SUFFICES ASSUME NEW q \in Workers, q # p
               PROVE  KnowsIn(payments', heard', upgraded', missed', pc[q], job[q])
  BY DEF WorkersKnow
<1>2. KnowsIn(payments, heard, upgraded, missed, pc[q], job[q]) /\ job[q].order \in Orders
  BY DEF LedgerInv, WorkersKnow, TypeOK, Job
<1>3. pc[q] # "idle" =>
        /\ payments[job[q].order] # NoRow
        /\ payments'[job[q].order] # NoRow
        /\ payments'[job[q].order].target = payments[job[q].order].target
  BY <1>2 DEF KnowsIn, Grows, TableKept
<1> QED BY <1>2, <1>3 DEF KnowsIn, Grows

\* The roles of users stay backed by what was heard.
LEMMA RolesKept ==
  ASSUME LedgerInv, Grows, UNCHANGED <<role, by, notified>>
  PROVE  RolesFollowReports'
<1>1. ASSUME NEW u \in Users, by[u] # Nobody
      PROVE  by[u] \in heard' /\ payments'[by[u]].user = u /\ payments'[by[u]].target = role[u]
  <2>1. /\ by[u] \in heard /\ payments[by[u]].user = u /\ payments[by[u]].target = role[u]
        /\ by[u] \in Orders /\ payments[by[u]] # NoRow
    BY <1>1 DEF LedgerInv, RolesFollowReports, RowsExist, TypeOK
  <2> QED BY <2>1 DEF Grows, TableKept
<1> QED BY <1>1 DEF LedgerInv, RolesFollowReports, Grows

\* Payments that were not forgotten are not, if Midtrans reports what it newly has, and
\* stops reporting only what was served or missed.
LEMMA ReportsKept ==
  ASSUME LedgerInv, Grows,
         \A o \in Orders : WasPaid(o)' =>
           WasPaid(o) \/ \E s \in Paid : [order |-> o, status |-> s] \in hooks',
         \A o \in Orders, s \in Paid :
           [order |-> o, status |-> s] \in hooks /\ payments[o] # NoRow
             /\ payments[o].target # NoTarget =>
             [order |-> o, status |-> s] \in hooks' \/ o \in upgraded' \cup missed'
  PROVE  PaidRolesAreNotForgotten'
<1> SUFFICES ASSUME NEW o \in Orders, WasPaid(o)', payments'[o].target # NoTarget,
                    o \notin upgraded', o \notin missed'
             PROVE  \E s \in Paid : [order |-> o, status |-> s] \in hooks'
  BY DEF PaidRolesAreNotForgotten
<1>1. CASE WasPaid(o)
  <2>1. bank[o] # "none"
    BY <1>1 DEF WasPaid, Paid
  <2>2. payments[o] # NoRow /\ payments[o].target # NoTarget
    BY <2>1 DEF LedgerInv, RowsExist, Grows, TableKept
  <2>3. PICK s \in Paid : [order |-> o, status |-> s] \in hooks
    BY <1>1, <2>2 DEF LedgerInv, PaidRolesAreNotForgotten, Grows
  <2> QED BY <2>2, <2>3
<1>2. CASE ~WasPaid(o)
  BY <1>2
<1> QED BY <1>1, <1>2

\* A step in which no transaction moves and no webhook is answered.
LEMMA QuietStep ==
  ASSUME LedgerInv, TypeOK', WorkersKnow', Grows, UNCHANGED <<role, by, notified, bank, hooks>>,
         \A o \in heard' : payments'[o] # NoRow
  PROVE  LedgerInv'
<1>1. RowsExist'
  BY DEF LedgerInv, RowsExist, Grows, TableKept
<1>2. RolesFollowReports'
  BY RolesKept
<1>3. PaidRolesAreNotForgotten'
  BY ReportsKept DEF WasPaid
<1> QED BY <1>1, <1>2, <1>3 DEF LedgerInv

\* Writing a status into a row that exists: StoreAnswer and Apply.
LEMMA StoreStatus ==
  ASSUME LedgerInv, NEW o \in Orders, NEW s, NEW b \in BOOLEAN, payments[o] # NoRow,
         payments' = [payments EXCEPT ![o] = [@ EXCEPT !.status = mapMidtransStatus(s), !.txn = b]]
  PROVE  /\ payments' \in [Orders -> Payment \cup {NoRow}]
         /\ TableKept(payments, payments')
<1> DEFINE r == [payments[o] EXCEPT !.status = mapMidtransStatus(s), !.txn = b]
<1>1. payments[o] \in Payment
  BY DEF LedgerInv, TypeOK
<1>2. r \in Payment /\ r.user = payments[o].user /\ r.target = payments[o].target
  BY <1>1, StatusTyping DEF Payment
<1>3. r # NoRow
  BY <1>2, PaymentAssumption DEF Payment, PaymentStatus
<1>4. payments'[o] = r /\ \A k \in Orders : k # o => payments'[k] = payments[k]
  BY DEF LedgerInv, TypeOK
<1>5. payments' \in [Orders -> Payment \cup {NoRow}]
  BY <1>2 DEF LedgerInv, TypeOK
<1>6. TableKept(payments, payments')
  BY <1>2, <1>3, <1>4 DEF TableKept
<1> QED BY <1>5, <1>6

\* Midtrans moves a transaction that has a row, and reports it.
LEMMA MoveStep ==
  ASSUME LedgerInv, NEW o \in Orders, NEW s \in Transaction, Move(o, s), payments[o] # NoRow,
         s = "refund" => WasPaid(o), Grows, UNCHANGED payments
  PROVE  /\ bank' \in [Orders -> Transaction \cup {"none"}] /\ hooks' \in SUBSET Report
         /\ PaidRolesAreNotForgotten'
         /\ \A k \in Orders : bank'[k] # "none" => payments[k] # NoRow
<1> DEFINE h == [order |-> o, status |-> s]
<1>1. hooks' = hooks \cup {h} /\ bank' = [bank EXCEPT ![o] = s]
  BY DEF Move
<1>2. h \in Report
  BY DEF Report
<1>3. bank' \in [Orders -> Transaction \cup {"none"}] /\ hooks' \in SUBSET Report
  BY <1>1, <1>2 DEF LedgerInv, TypeOK
<1>4. \A k \in Orders : bank'[k] = IF k = o THEN s ELSE bank[k]
  BY <1>1 DEF LedgerInv, TypeOK
<1>5. \A k \in Orders : WasPaid(k)' =>
        WasPaid(k) \/ \E t \in Paid : [order |-> k, status |-> t] \in hooks'
  BY <1>1, <1>4 DEF WasPaid
<1>6. PaidRolesAreNotForgotten'
  BY <1>1, <1>5, ReportsKept
<1> QED BY <1>3, <1>4, <1>6 DEF LedgerInv, RowsExist

----------------------------------------------------------------------------
(* Each step keeps the invariant.                                          *)

LEMMA LedgerServe ==
  ASSUME LedgerInv, NEW p \in Workers, Serve(p)
  PROVE  LedgerInv'
<1> DEFINE j == job[p]
<1>k. TypeOK /\ KnowsIn(payments, heard, upgraded, missed, pc[p], j)
  BY DEF LedgerInv, WorkersKnow
<1>j. j \in Job /\ j.order \in Orders /\ j.seen \in Transaction \cup {"none"}
  BY <1>k DEF TypeOK, Job
<1>s. TableKept(payments, payments)
  BY DEF TableKept
<1>h. \A o \in heard : o \in Orders /\ payments[o] # NoRow
  BY DEF LedgerInv, RowsExist, TypeOK
<1>1. CASE Charge(p)
  <2>1. /\ payments[j.order] # NoRow
        /\ UNCHANGED <<payments, role, by, upgraded, missed, notified, left>>
    BY <1>1, <1>k DEF Charge, KnowsIn
  <2>2. PICK s \in Transaction \cup {"none"} :
          /\ Learn(p, s, "answer")
          /\ \/ s # "none" /\ s # "refund" /\ Move(j.order, s)
             \/ UNCHANGED <<bank, hooks>>
    BY <1>1 DEF Charge, Transaction
  <2>3. /\ pc' \in [Workers -> Control] /\ job' \in [Workers -> Job]
        /\ pc'[p] = "answer" /\ job'[p].order = j.order /\ job'[p].seen = s
        /\ \A q \in Workers \ {p} : pc'[q] = pc[q] /\ job'[q] = job[q]
        /\ heard \subseteq heard' /\ heard' \subseteq heard \cup {j.order}
        /\ s \in Paid => j.order \in heard'
    BY <2>2, <1>k, LearnEffect DEF Control
  <2>4. Grows
    BY <1>s, <2>1, <2>3 DEF Grows
  <2>5. WorkersKnow'
    <3>1. KnowsIn(payments', heard', upgraded', missed', pc'[p], job'[p])
      BY <2>1, <2>3 DEF KnowsIn
    <3> QED BY <2>3, <2>4, <3>1, OthersKnow
  <2>6. \A o \in heard' : payments'[o] # NoRow
    BY <1>h, <2>1, <2>3
  <2>7. heard' \in SUBSET Orders
    BY <1>j, <1>h, <2>3
  <2>8. CASE UNCHANGED <<bank, hooks>>
    <3>1. TypeOK'
      BY <1>k, <2>1, <2>3, <2>7, <2>8 DEF TypeOK
    <3> QED BY <2>1, <2>4, <2>5, <2>6, <2>8, <3>1, QuietStep
  <2>9. CASE s # "none" /\ s # "refund" /\ Move(j.order, s)
    <3>1. /\ bank' \in [Orders -> Transaction \cup {"none"}] /\ hooks' \in SUBSET Report
          /\ PaidRolesAreNotForgotten'
          /\ \A k \in Orders : bank'[k] # "none" => payments[k] # NoRow
      BY <1>j, <2>1, <2>4, <2>9, MoveStep
    <3>2. TypeOK'
      BY <1>k, <2>1, <2>3, <2>7, <3>1 DEF TypeOK
    <3>3. RowsExist'
      BY <2>1, <2>6, <3>1 DEF RowsExist
    <3>4. RolesFollowReports'
      BY <2>1, <2>4, RolesKept
    <3> QED BY <2>5, <3>1, <3>2, <3>3, <3>4 DEF LedgerInv
  <2> QED BY <2>2, <2>8, <2>9
<1>2. CASE StoreAnswer(p)
  <2>1. /\ payments[j.order] # NoRow
        /\ UNCHANGED <<role, bank, hooks, by, heard, upgraded, missed, notified, left>>
    BY <1>2, <1>k DEF StoreAnswer, KnowsIn, history
  <2>2. payments' = [payments EXCEPT ![j.order] =
          [@ EXCEPT !.status = mapMidtransStatus(j.seen), !.txn = (j.seen # "none")]]
    BY <1>2 DEF StoreAnswer
  <2>3. (j.seen # "none") \in BOOLEAN
    OBVIOUS
  <2>4. payments' \in [Orders -> Payment \cup {NoRow}] /\ TableKept(payments, payments')
    BY <1>j, <2>1, <2>2, <2>3, StoreStatus
  <2>5. /\ pc' \in [Workers -> Control] /\ job' \in [Workers -> Job] /\ pc'[p] = "idle"
        /\ \A q \in Workers \ {p} : pc'[q] = pc[q] /\ job'[q] = job[q]
    BY <1>2, <1>k, GoToEffect DEF StoreAnswer, Control
  <2>6. Grows
    BY <2>1, <2>4 DEF Grows
  <2>7. WorkersKnow'
    BY <2>5, <2>6, IdleKnows, OthersKnow
  <2>8. TypeOK'
    BY <1>k, <2>1, <2>4, <2>5 DEF TypeOK
  <2>9. \A o \in heard' : payments'[o] # NoRow
    BY <1>h, <2>1, <2>4 DEF TableKept
  <2> QED BY <2>1, <2>6, <2>7, <2>8, <2>9, QuietStep
<1>3. CASE Ask(p)
  <2>1. PICK s \in Transaction \cup {"none"} : Learn(p, s, "apply")
    BY <1>3, <1>j, <1>k DEF Ask, TypeOK
  <2>2. /\ payments[j.order] # NoRow
        /\ UNCHANGED <<payments, role, by, bank, hooks, upgraded, missed, notified, left>>
    BY <1>3, <1>k DEF Ask, KnowsIn
  <2>3. /\ pc' \in [Workers -> Control] /\ job' \in [Workers -> Job]
        /\ pc'[p] = "apply" /\ job'[p].order = j.order /\ job'[p].seen = s
        /\ \A q \in Workers \ {p} : pc'[q] = pc[q] /\ job'[q] = job[q]
        /\ heard \subseteq heard' /\ heard' \subseteq heard \cup {j.order}
        /\ s \in Paid => j.order \in heard'
    BY <2>1, <1>k, LearnEffect DEF Control
  <2>4. Grows
    BY <1>s, <2>2, <2>3 DEF Grows
  <2>5. WorkersKnow'
    <3>1. KnowsIn(payments', heard', upgraded', missed', pc'[p], job'[p])
      BY <2>2, <2>3 DEF KnowsIn
    <3> QED BY <2>3, <2>4, <3>1, OthersKnow
  <2>6. heard' \in SUBSET Orders /\ \A o \in heard' : payments'[o] # NoRow
    BY <1>j, <1>h, <2>2, <2>3
  <2>7. TypeOK'
    BY <1>k, <2>2, <2>3, <2>6 DEF TypeOK
  <2> QED BY <2>2, <2>4, <2>5, <2>6, <2>7, QuietStep
<1>4. CASE Apply(p)
  <2> DEFINE c == IF Upgrades(j.order, j.seen) THEN "upgrade" ELSE "finish"
  <2>1. /\ payments[j.order] # NoRow /\ (j.seen \in Paid => j.order \in heard)
        /\ UNCHANGED <<role, bank, hooks, by, heard, upgraded, missed, notified, left>>
    BY <1>4, <1>k DEF Apply, KnowsIn, history
  <2>2. payments' = [payments EXCEPT ![j.order] =
          [@ EXCEPT !.status = mapMidtransStatus(j.seen), !.txn = (j.seen # "none")]]
    BY <1>4 DEF Apply
  <2>3. (j.seen # "none") \in BOOLEAN
    OBVIOUS
  <2>4. payments' \in [Orders -> Payment \cup {NoRow}] /\ TableKept(payments, payments')
    BY <1>j, <2>1, <2>2, <2>3, StoreStatus
  <2>5. c \in Control /\ c # "idle" /\ c \in {"upgrade", "finish"}
    BY DEF Control
  <2>6. /\ pc' \in [Workers -> Control] /\ job' \in [Workers -> Job]
        /\ pc'[p] = c /\ job'[p] = j
        /\ \A q \in Workers \ {p} : pc'[q] = pc[q] /\ job'[q] = job[q]
    <3>1. GoTo(p, c)
      BY <1>4 DEF Apply
    <3> HIDE DEF c
    <3> QED BY <3>1, <2>5, <1>k, GoToEffect
  <2>7. Grows
    BY <2>1, <2>4 DEF Grows
  <2>8. KnowsIn(payments', heard', upgraded', missed', c, j)
    <3>1. payments'[j.order] # NoRow /\ payments'[j.order].target = payments[j.order].target
      BY <1>j, <2>1, <2>4 DEF TableKept
    <3>2. c = "upgrade" <=> j.seen \in Paid /\ payments[j.order].target # NoTarget
      <4>1. mapMidtransStatus(j.seen) = "success" <=> j.seen \in Paid
        BY DEF mapMidtransStatus, Paid
      <4>2. Upgrades(j.order, j.seen) <=> j.seen \in Paid /\ payments[j.order].target # NoTarget
        BY <4>1 DEF Upgrades
      <4> QED BY <4>2
    <3> HIDE DEF c
    <3> QED BY <2>1, <2>5, <3>1, <3>2 DEF KnowsIn
  <2>9. WorkersKnow'
    BY <2>6, <2>7, <2>8, OthersKnow
  <2>10. TypeOK'
    BY <1>k, <2>1, <2>4, <2>6 DEF TypeOK
  <2>11. \A o \in heard' : payments'[o] # NoRow
    BY <1>h, <2>1, <2>4 DEF TableKept
  <2> QED BY <2>1, <2>7, <2>9, <2>10, <2>11, QuietStep
<1>5. CASE Upgrade(p)
  <2> DEFINE o == j.order
             u == payments[o].user
  <2>1. /\ payments[o] # NoRow /\ j.seen \in Paid /\ o \in heard
        /\ payments[o].target # NoTarget
    BY <1>5, <1>k DEF Upgrade, KnowsIn
  <2>2. u \in Users /\ payments[o].target \in Roles
    BY <1>j, <1>k, <2>1 DEF TypeOK, Payment
  <2>3. UNCHANGED <<payments, bank, hooks, heard, notified, left>>
    BY <1>5 DEF Upgrade
  <2>4. CASE GoTo(p, "finish") /\ missed' = missed \cup {o} /\ UNCHANGED <<role, by, upgraded>>
    <3>1. /\ pc' \in [Workers -> Control] /\ job' \in [Workers -> Job]
          /\ pc'[p] = "finish" /\ job'[p] = j
          /\ \A q \in Workers \ {p} : pc'[q] = pc[q] /\ job'[q] = job[q]
      BY <2>4, <1>k, GoToEffect DEF Control
    <3>2. Grows
      BY <1>s, <2>3, <2>4 DEF Grows
    <3>3. KnowsIn(payments', heard', upgraded', missed', "finish", j)
      BY <2>1, <2>3, <2>4 DEF KnowsIn
    <3>4. WorkersKnow'
      BY <3>1, <3>2, <3>3, OthersKnow
    <3>5. TypeOK'
      BY <1>j, <1>k, <2>3, <2>4, <3>1 DEF TypeOK
    <3> QED BY <1>h, <2>3, <2>4, <3>2, <3>4, <3>5, QuietStep
  <2>5. CASE /\ role' = [role EXCEPT ![u] = payments[o].target] /\ by' = [by EXCEPT ![u] = o]
             /\ upgraded' = upgraded \cup {o} /\ GoTo(p, "notify") /\ UNCHANGED missed
    <3>1. /\ pc' \in [Workers -> Control] /\ job' \in [Workers -> Job]
          /\ pc'[p] = "notify" /\ job'[p] = j
          /\ \A q \in Workers \ {p} : pc'[q] = pc[q] /\ job'[q] = job[q]
      BY <2>5, <1>k, GoToEffect DEF Control
    <3>2. Grows
      BY <1>s, <2>3, <2>5 DEF Grows
    <3>3. KnowsIn(payments', heard', upgraded', missed', "notify", j)
      BY <2>1, <2>3, <2>5 DEF KnowsIn
    <3>4. WorkersKnow'
      BY <3>1, <3>2, <3>3, OthersKnow
    <3>5. TypeOK'
      BY <1>j, <1>k, <2>2, <2>3, <2>5, <3>1 DEF TypeOK
    <3>6. RolesFollowReports'
      <4>1. ASSUME NEW v \in Users, by'[v] # Nobody
            PROVE  by'[v] \in heard /\ payments[by'[v]].user = v /\ payments[by'[v]].target = role'[v]
        <5>1. CASE v = u
          BY <1>k, <2>1, <2>2, <2>5, <5>1 DEF TypeOK
        <5>2. CASE v # u
          BY <1>k, <2>5, <4>1, <5>2 DEF TypeOK, LedgerInv, RolesFollowReports
        <5> QED BY <5>1, <5>2
      <4> QED BY <2>3, <2>5, <4>1 DEF LedgerInv, RolesFollowReports
    <3>7. RowsExist'
      BY <2>3 DEF LedgerInv, RowsExist
    <3>8. PaidRolesAreNotForgotten'
      BY <2>3, <2>5 DEF LedgerInv, PaidRolesAreNotForgotten, WasPaid
    <3> QED BY <3>4, <3>5, <3>6, <3>7, <3>8 DEF LedgerInv
  <2> QED BY <1>5, <2>4, <2>5 DEF Upgrade
<1>6. CASE Notify(p)
  <2>1. payments[j.order] # NoRow /\ j.seen \in Paid /\ j.order \in heard /\ j.order \in upgraded
    BY <1>6, <1>k DEF Notify, KnowsIn
  <2>2. /\ UNCHANGED <<payments, role, bank, hooks, by, heard, upgraded, missed, left>>
        /\ GoTo(p, "finish") /\ notified' \subseteq notified \cup {j.order}
    BY <1>6 DEF Notify, history
  <2>3. /\ pc' \in [Workers -> Control] /\ job' \in [Workers -> Job]
        /\ pc'[p] = "finish" /\ job'[p] = j
        /\ \A q \in Workers \ {p} : pc'[q] = pc[q] /\ job'[q] = job[q]
    BY <2>2, <1>k, GoToEffect DEF Control
  <2>4. Grows
    BY <1>s, <2>2 DEF Grows
  <2>5. WorkersKnow'
    <3>1. KnowsIn(payments', heard', upgraded', missed', "finish", j)
      BY <2>1, <2>2 DEF KnowsIn
    <3> QED BY <2>3, <2>4, <3>1, OthersKnow
  <2>6. TypeOK'
    BY <1>j, <1>k, <2>2, <2>3 DEF TypeOK
  <2>7. RolesFollowReports' /\ RowsExist' /\ PaidRolesAreNotForgotten'
    BY <2>1, <2>2 DEF LedgerInv, RolesFollowReports, RowsExist, PaidRolesAreNotForgotten, WasPaid
  <2> QED BY <2>5, <2>6, <2>7 DEF LedgerInv
<1>7. CASE Finish(p)
  <2> DEFINE h == [order |-> j.order, status |-> j.seen]
  <2>1. /\ GoTo(p, "idle")
        /\ UNCHANGED <<payments, role, bank, by, heard, upgraded, missed, notified, left>>
    BY <1>7 DEF Finish, history
  <2>2. /\ pc' \in [Workers -> Control] /\ job' \in [Workers -> Job] /\ pc'[p] = "idle"
        /\ \A q \in Workers \ {p} : pc'[q] = pc[q] /\ job'[q] = job[q]
    BY <2>1, <1>k, GoToEffect DEF Control
  <2>3. hooks' = hooks \/ hooks' = hooks \ {h}
    BY <1>7 DEF Finish
  <2>4. Grows
    BY <1>s, <2>1 DEF Grows
  <2>5. WorkersKnow'
    BY <2>2, <2>4, IdleKnows, OthersKnow
  <2>6. TypeOK'
    BY <1>k, <2>1, <2>2, <2>3 DEF TypeOK
  <2>7. RolesFollowReports' /\ RowsExist'
    BY <2>1 DEF LedgerInv, RolesFollowReports, RowsExist
  <2>8. PaidRolesAreNotForgotten'
    <3>1. ASSUME NEW o \in Orders, NEW s \in Paid, [order |-> o, status |-> s] \in hooks,
                 payments[o].target # NoTarget, [order |-> o, status |-> s] \notin hooks'
          PROVE  o \in upgraded \cup missed
      <4>1. [order |-> o, status |-> s] = h
        BY <2>3, <3>1
      <4>2. o = j.order /\ s = j.seen
        BY <4>1
      <4> QED BY <1>7, <1>k, <3>1, <4>2 DEF Finish, KnowsIn
    <3>2. \A o \in Orders : WasPaid(o)' => WasPaid(o)
      BY <2>1 DEF WasPaid
    <3> QED BY <2>1, <2>4, <3>1, <3>2, ReportsKept
  <2> QED BY <2>5, <2>6, <2>7, <2>8 DEF LedgerInv
<1> QED BY <1>1, <1>2, <1>3, <1>4, <1>5, <1>6, <1>7 DEF Serve

\* Requests and webhooks arrive.
LEMMA LedgerBegin ==
  ASSUME LedgerInv, NEW p \in Workers,
         \/ Create(p)
         \/ \E o \in Orders : Poll(p, o)
         \/ \E o \in Orders, s \in Transaction \cup {"none"} : Deliver(p, o, s)
  PROVE  LedgerInv'
<1>k. TypeOK
  BY DEF LedgerInv
<1>s. TableKept(payments, payments)
  BY DEF TableKept
<1>h. \A o \in heard : o \in Orders /\ payments[o] # NoRow
  BY DEF LedgerInv, RowsExist, TypeOK
<1>b. ASSUME left' = [left EXCEPT ![p] = left[p] - 1], left[p] > 0
      PROVE  left' \in [Workers -> 0..Budget]
  <2>1. left[p] \in 0..Budget /\ Budget \in Nat
    BY <1>k, PaymentAssumption DEF TypeOK
  <2>2. left[p] - 1 \in 0..Budget
    BY <1>b, <2>1
  <2> QED BY <1>k, <1>b, <2>2 DEF TypeOK
<1>1. CASE Create(p)
  <2>1. PICK o \in Orders, u \in Users, r \in Roles \cup {NoTarget} :
          /\ payments[o] = NoRow
          /\ payments' = [payments EXCEPT ![o] =
               [user |-> u, target |-> r, status |-> "pending", txn |-> FALSE]]
          /\ job' = [job EXCEPT ![p] = [op |-> "create", order |-> o, seen |-> "none"]]
    BY <1>1 DEF Create
  <2> DEFINE row == [user |-> u, target |-> r, status |-> "pending", txn |-> FALSE]
  <2>2. row \in Payment /\ row # NoRow
    <3>1. row \in Payment
      BY DEF Payment, PaymentStatus
    <3>2. NoRow \notin Payment
      BY PaymentAssumption DEF Payment, PaymentStatus
    <3> QED BY <3>1, <3>2
  <2>3. /\ pc' = [pc EXCEPT ![p] = "charge"] /\ left' = [left EXCEPT ![p] = left[p] - 1]
        /\ left[p] > 0
        /\ UNCHANGED <<role, by, bank, hooks, heard, upgraded, missed, notified>>
    BY <1>1 DEF Create, history
  <2>4. payments'[o] = row /\ \A k \in Orders : k # o => payments'[k] = payments[k]
    BY <1>k, <2>1 DEF TypeOK
  <2>5. TableKept(payments, payments')
    BY <2>1, <2>4 DEF TableKept
  <2>6. TypeOK'
    <3>1. left' \in [Workers -> 0..Budget]
      BY <1>b, <2>3
    <3>2. pc' \in [Workers -> Control] /\ job' \in [Workers -> Job]
      BY <1>k, <2>1, <2>3 DEF TypeOK, Control, Job
    <3>3. payments' \in [Orders -> Payment \cup {NoRow}]
      BY <1>k, <2>1, <2>2 DEF TypeOK
    <3> QED BY <1>k, <2>3, <3>1, <3>2, <3>3 DEF TypeOK
  <2>7. Grows
    BY <2>3, <2>5 DEF Grows
  <2>8. WorkersKnow'
    <3>1. /\ pc'[p] = "charge" /\ job'[p] = [op |-> "create", order |-> o, seen |-> "none"]
          /\ \A q \in Workers \ {p} : pc'[q] = pc[q] /\ job'[q] = job[q]
      BY <1>k, <2>1, <2>3 DEF TypeOK
    <3>2. KnowsIn(payments', heard', upgraded', missed', pc'[p], job'[p])
      BY <2>2, <2>4, <3>1 DEF KnowsIn, Paid
    <3> QED BY <2>7, <3>1, <3>2, OthersKnow
  <2>9. \A k \in heard' : payments'[k] # NoRow
    BY <1>h, <2>3, <2>5 DEF TableKept
  <2> QED BY <2>3, <2>6, <2>7, <2>8, <2>9, QuietStep
<1>2. ASSUME NEW o \in Orders, Poll(p, o) PROVE LedgerInv'
  <2>1. /\ payments[o] # NoRow /\ left[p] > 0
        /\ pc' = [pc EXCEPT ![p] = "ask"] /\ left' = [left EXCEPT ![p] = left[p] - 1]
        /\ job' = [job EXCEPT ![p] = [op |-> "poll", order |-> o, seen |-> "none"]]
        /\ UNCHANGED <<payments, role, by, bank, hooks, heard, upgraded, missed, notified>>
    BY <1>2 DEF Poll, history
  <2>2. left' \in [Workers -> 0..Budget]
    BY <1>b, <2>1
  <2>3. TypeOK'
    BY <1>k, <2>1, <2>2 DEF TypeOK, Control, Job
  <2>4. /\ pc'[p] = "ask" /\ job'[p] = [op |-> "poll", order |-> o, seen |-> "none"]
        /\ \A q \in Workers \ {p} : pc'[q] = pc[q] /\ job'[q] = job[q]
    BY <1>k, <2>1 DEF TypeOK
  <2>5. KnowsIn(payments', heard', upgraded', missed', pc'[p], job'[p])
    BY <2>1, <2>4 DEF KnowsIn, Paid
  <2>6. Grows
    BY <1>s, <2>1 DEF Grows
  <2>7. WorkersKnow'
    BY <2>4, <2>5, <2>6, OthersKnow
  <2> QED BY <1>h, <2>1, <2>3, <2>6, <2>7, QuietStep
<1>3. ASSUME NEW o \in Orders, NEW s \in Transaction \cup {"none"}, Deliver(p, o, s)
      PROVE  LedgerInv'
  <2>1. /\ payments[o] # NoRow /\ pc' = [pc EXCEPT ![p] = "apply"] /\ Hear(o, s)
        /\ UNCHANGED <<payments, role, by, bank, hooks, upgraded, missed, notified>>
    BY <1>3 DEF Deliver
  <2>2. PICK k \in {"webhook", "other"} :
          job' = [job EXCEPT ![p] = [op |-> k, order |-> o, seen |-> s]]
    BY <1>3 DEF Deliver
  <2>3. left' \in [Workers -> 0..Budget]
    <3>1. CASE UNCHANGED left
      BY <1>k, <3>1 DEF TypeOK
    <3>2. CASE left[p] > 0 /\ left' = [left EXCEPT ![p] = left[p] - 1]
      BY <1>b, <3>2
    <3> QED BY <1>3, <3>1, <3>2 DEF Deliver
  <2>4. heard \subseteq heard' /\ heard' \subseteq heard \cup {o} /\ (s \in Paid => o \in heard')
    BY <2>1 DEF Hear
  <2>5. heard' \in SUBSET Orders /\ \A x \in heard' : payments'[x] # NoRow
    BY <1>h, <2>1, <2>4
  <2>6. pc' \in [Workers -> Control] /\ job' \in [Workers -> Job]
    BY <1>k, <2>1, <2>2 DEF TypeOK, Control, Job
  <2>7. TypeOK'
    BY <1>k, <2>1, <2>3, <2>5, <2>6 DEF TypeOK
  <2>8. /\ pc'[p] = "apply" /\ job'[p] = [op |-> k, order |-> o, seen |-> s]
        /\ \A q \in Workers \ {p} : pc'[q] = pc[q] /\ job'[q] = job[q]
    BY <1>k, <2>1, <2>2 DEF TypeOK
  <2>9. KnowsIn(payments', heard', upgraded', missed', pc'[p], job'[p])
    BY <2>1, <2>4, <2>8 DEF KnowsIn
  <2>10. Grows
    BY <1>s, <2>1, <2>4 DEF Grows
  <2>11. WorkersKnow'
    BY <2>8, <2>9, <2>10, OthersKnow
  <2> QED BY <2>1, <2>5, <2>7, <2>10, <2>11, QuietStep
<1> QED BY <1>1, <1>2, <1>3

\* The owner, Midtrans and failures.
LEMMA LedgerOther ==
  ASSUME LedgerInv,
         \/ \E p \in Workers : Abort(p)
         \/ \E u \in Users, r \in Roles : UpdateUserRole(u, r)
         \/ \E o \in Orders : Proceed(o)
         \/ \E h \in Report : GiveUp(h)
  PROVE  LedgerInv'
<1>k. TypeOK
  BY DEF LedgerInv
<1>s. TableKept(payments, payments)
  BY DEF TableKept
<1>h. \A o \in heard : o \in Orders /\ payments[o] # NoRow
  BY DEF LedgerInv, RowsExist, TypeOK
<1>1. ASSUME NEW p \in Workers, Abort(p) PROVE LedgerInv'
  <2>1. /\ GoTo(p, "idle")
        /\ UNCHANGED <<payments, role, by, bank, hooks, heard, upgraded, missed, notified, left>>
    BY <1>1 DEF Abort, history
  <2>2. /\ pc' \in [Workers -> Control] /\ job' \in [Workers -> Job] /\ pc'[p] = "idle"
        /\ \A q \in Workers \ {p} : pc'[q] = pc[q] /\ job'[q] = job[q]
    BY <2>1, <1>k, GoToEffect DEF Control
  <2>3. Grows
    BY <1>s, <2>1 DEF Grows
  <2>4. WorkersKnow'
    BY <2>2, <2>3, IdleKnows, OthersKnow
  <2>5. TypeOK'
    BY <1>k, <2>1, <2>2 DEF TypeOK
  <2> QED BY <1>h, <2>1, <2>3, <2>4, <2>5, QuietStep
<1>2. ASSUME NEW u \in Users, NEW r \in Roles, UpdateUserRole(u, r) PROVE LedgerInv'
  <2>1. /\ role' = [role EXCEPT ![u] = r] /\ by' = [by EXCEPT ![u] = Nobody]
        /\ UNCHANGED <<payments, bank, hooks, heard, upgraded, missed, notified, pc, job, left>>
    BY <1>2 DEF UpdateUserRole
  <2>2. TypeOK'
    BY <1>k, <2>1 DEF TypeOK
  <2>3. RolesFollowReports'
    BY <1>k, <2>1 DEF TypeOK, LedgerInv, RolesFollowReports
  <2>4. WorkersKnow' /\ RowsExist' /\ PaidRolesAreNotForgotten'
    BY <2>1 DEF LedgerInv, WorkersKnow, RowsExist, PaidRolesAreNotForgotten, WasPaid
  <2> QED BY <2>2, <2>3, <2>4 DEF LedgerInv
<1>3. ASSUME NEW o \in Orders, Proceed(o) PROVE LedgerInv'
  <2>1. PICK s \in Transaction : Move(o, s) /\ (s = "refund" => WasPaid(o))
    BY <1>3 DEF Proceed, Transaction, WasPaid
  <2>2. UNCHANGED <<payments, role, by, heard, upgraded, missed, notified, pc, job, left>>
    BY <1>3 DEF Proceed, history
  <2>3. payments[o] # NoRow
    <3>1. bank[o] # "none"
      BY <1>3 DEF Proceed, Paid
    <3> QED BY <3>1 DEF LedgerInv, RowsExist
  <2>4. Grows
    BY <1>s, <2>2 DEF Grows
  <2>5. /\ bank' \in [Orders -> Transaction \cup {"none"}] /\ hooks' \in SUBSET Report
        /\ PaidRolesAreNotForgotten'
        /\ \A k \in Orders : bank'[k] # "none" => payments[k] # NoRow
    BY <2>1, <2>2, <2>3, <2>4, MoveStep
  <2>6. TypeOK'
    BY <1>k, <2>2, <2>5 DEF TypeOK
  <2>7. WorkersKnow' /\ RolesFollowReports'
    BY <2>2 DEF LedgerInv, WorkersKnow, RolesFollowReports
  <2>8. RowsExist'
    BY <1>h, <2>2, <2>5 DEF RowsExist
  <2> QED BY <2>5, <2>6, <2>7, <2>8 DEF LedgerInv
<1>4. ASSUME NEW h \in Report, GiveUp(h) PROVE LedgerInv'
  <2>1. /\ hooks' = hooks \ {h} /\ (h.status \in Paid => h.order \in missed')
        /\ missed \subseteq missed' /\ missed' \subseteq missed \cup {h.order}
        /\ UNCHANGED <<payments, role, by, bank, heard, upgraded, notified, pc, job, left>>
    BY <1>4 DEF GiveUp
  <2>2. Grows
    BY <1>s, <2>1 DEF Grows
  <2>3. TypeOK'
    <3>1. h.order \in Orders
      BY DEF Report
    <3> QED BY <1>k, <2>1, <3>1 DEF TypeOK
  <2>4. WorkersKnow'
    BY <2>1 DEF LedgerInv, WorkersKnow, KnowsIn
  <2>5. RowsExist' /\ RolesFollowReports'
    BY <2>1 DEF LedgerInv, RowsExist, RolesFollowReports
  <2>6. PaidRolesAreNotForgotten'
    <3>1. \A o \in Orders, s \in Paid :
            [order |-> o, status |-> s] \in hooks /\ [order |-> o, status |-> s] \notin hooks'
              => o \in missed'
      BY <2>1
    <3>2. \A o \in Orders : WasPaid(o)' => WasPaid(o)
      BY <2>1 DEF WasPaid
    <3> QED BY <2>2, <3>1, <3>2, ReportsKept
  <2> QED BY <2>3, <2>4, <2>5, <2>6 DEF LedgerInv
<1> QED BY <1>1, <1>2, <1>3, <1>4

LEMMA LedgerInit == Init => LedgerInv
<1> SUFFICES ASSUME Init PROVE LedgerInv
  OBVIOUS
<1>1. TypeOK
  <2>1. left \in [Workers -> 0..Budget]
    BY PaymentAssumption DEF Init
  <2> QED BY <2>1, RestIsJob DEF Init, TypeOK, Control
<1>2. WorkersKnow
  BY IdleKnows DEF Init, WorkersKnow
<1>3. RowsExist /\ RolesFollowReports /\ PaidRolesAreNotForgotten
  BY DEF Init, RowsExist, RolesFollowReports, PaidRolesAreNotForgotten, WasPaid, Paid
<1> QED BY <1>1, <1>2, <1>3 DEF LedgerInv

LEMMA LedgerNext == LedgerInv /\ [Next]_vars => LedgerInv'
<1> SUFFICES ASSUME LedgerInv, [Next]_vars PROVE LedgerInv'
  OBVIOUS
<1>1. CASE Next
  BY <1>1, LedgerServe, LedgerBegin, LedgerOther DEF Next
<1>2. CASE UNCHANGED vars
  BY <1>2 DEF vars, LedgerInv, TypeOK, WorkersKnow, RowsExist, RolesFollowReports,
              PaidRolesAreNotForgotten, WasPaid
<1> QED BY <1>1, <1>2

LEMMA LedgerHolds == Spec => []LedgerInv
BY LedgerInit, LedgerNext, PTL DEF Spec

----------------------------------------------------------------------------
(* The results.                                                            *)

\* Every state of the payment handlers is well typed; in particular no answer of
\* Midtrans makes them store a status the model of payments does not know.
THEOREM TypeCorrect == Spec => []TypeOK
BY LedgerHolds, PTL DEF LedgerInv

\* However webhooks, polls and charge answers are ordered, repeated, lost or sent by
\* somebody else: a role goes back to an order a handler was told is paid, to the user and
\* the role of that order, and congratulations to an upgrade that was carried out.
THEOREM RolesFollow == Spec => []RolesFollowReports
BY LedgerHolds, PTL DEF LedgerInv

\* Whatever handlers crash between the stored success and the upgrade, and whatever is
\* stored over it: a paid role was given, its upgrade failed, or Midtrans still reports it.
THEOREM NoPaidRoleIsForgotten == Spec => []PaidRolesAreNotForgotten
BY LedgerHolds, PTL DEF LedgerInv
=============================================================================
