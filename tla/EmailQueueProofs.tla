-------------------------- MODULE EmailQueueProofs --------------------------
(***************************************************************************)
(* Proofs about EmailQueue, for any emails and any number of failures.     *)
(***************************************************************************)
EXTENDS EmailQueue, TLAPS

\* There is no worker before the start of the server is over.
NoneBeforeStart == boot # "done" => consumer = "none"

\* The worker acknowledges only what it has sent.
AckAfterSend == holding # Nothing /\ step = "ack" => sent[holding] > 0

\* An email that was not published is nowhere.
UnpublishedNowhere ==
  \A m \in Emails : pub[m] # "queued" =>
    /\ m \notin flight
    /\ ~Contains(ready, m)
    /\ ~Contains(inbox, m)
    /\ holding # m
    /\ sent[m] = 0

\* e is at most once in s.
AtMostOnce(s, e) == \A i, j \in 1..Len(s) : s[i] = e /\ s[j] = e => i = j

\* An email that was not sent in vain is in one place at most; while the worker holds
\* it, the broker waits for the answer.
InOnePlace(m) ==
  /\ AtMostOnce(ready, m)
  /\ AtMostOnce(inbox, m)
  /\ ~(Contains(ready, m) /\ Contains(inbox, m))
  /\ m \in flight => ~Contains(ready, m) /\ ~Contains(inbox, m) /\ holding # m
  /\ holding = m => owed /\ ~Contains(ready, m) /\ ~Contains(inbox, m)

\* It is sent once, and once it is sent it is nowhere but with the worker that is
\* about to acknowledge it.
SentOnce(m) ==
  /\ sent[m] <= 1
  /\ sent[m] = 1 =>
       m \notin flight /\ ~Contains(ready, m) /\ ~Contains(inbox, m) /\ (holding = m => step = "ack")

SafeInv ==
  /\ TypeOK
  /\ NoneBeforeStart
  /\ AckAfterSend
  /\ QueuedEmailsAreKept
  /\ UnpublishedNowhere
  /\ \A m \in Emails \ broken : InOnePlace(m) /\ SentOnce(m)

----------------------------------------------------------------------------
(* Facts about the queues.                                                 *)

\* Nothing is in the empty queue, and one email in a queue of one.
LEMMA ContainsOne ==
  ASSUME NEW e, NEW x
  PROVE  /\ ~Contains(<<>>, e)
         /\ Contains(<<x>>, e) <=> x = e
BY DEF Contains

\* What is in two queues put together is in one of them.
LEMMA ContainsBoth ==
  ASSUME NEW S, NEW s \in Seq(S), NEW t \in Seq(S), NEW e
  PROVE  Contains(s \o t, e) <=> Contains(s, e) \/ Contains(t, e)
<1>1. ASSUME Contains(s \o t, e) PROVE Contains(s, e) \/ Contains(t, e)
  <2>1. PICK i \in 1..Len(s \o t) : (s \o t)[i] = e
    BY <1>1 DEF Contains
  <2>2. CASE i <= Len(s)
    BY <2>1, <2>2 DEF Contains
  <2>3. CASE i > Len(s)
    <3>1. i - Len(s) \in 1..Len(t) /\ t[i - Len(s)] = e
      BY <2>1, <2>3
    <3> QED BY <3>1 DEF Contains
  <2> QED BY <2>1, <2>2, <2>3
<1>2. ASSUME Contains(s, e) PROVE Contains(s \o t, e)
  <2>1. PICK i \in 1..Len(s) : s[i] = e
    BY <1>2 DEF Contains
  <2>2. i \in 1..Len(s \o t) /\ (s \o t)[i] = e
    BY <2>1
  <2> QED BY <2>2 DEF Contains
<1>3. ASSUME Contains(t, e) PROVE Contains(s \o t, e)
  <2>1. PICK i \in 1..Len(t) : t[i] = e
    BY <1>3 DEF Contains
  <2>2. i + Len(s) \in 1..Len(s \o t) /\ (s \o t)[i + Len(s)] = e
    BY <2>1
  <2> QED BY <2>2 DEF Contains
<1> QED BY <1>1, <1>2, <1>3

\* An email that is once in one of two queues and not in the other is once in both
\* put together.
LEMMA OnceInBoth ==
  ASSUME NEW S, NEW s \in Seq(S), NEW t \in Seq(S), NEW e,
         AtMostOnce(s, e), AtMostOnce(t, e), ~(Contains(s, e) /\ Contains(t, e))
  PROVE  AtMostOnce(s \o t, e)
<1> SUFFICES ASSUME NEW i \in 1..Len(s \o t), NEW j \in 1..Len(s \o t),
                    (s \o t)[i] = e, (s \o t)[j] = e
             PROVE  i = j
  BY DEF AtMostOnce
<1>1. ASSUME NEW k \in 1..Len(s \o t), (s \o t)[k] = e
      PROVE  \/ k \in 1..Len(s) /\ s[k] = e
             \/ k - Len(s) \in 1..Len(t) /\ t[k - Len(s)] = e
  BY <1>1
<1>2. CASE Contains(s, e)
  <2>1. ~Contains(t, e)
    BY <1>2
  <2>2. i \in 1..Len(s) /\ s[i] = e /\ j \in 1..Len(s) /\ s[j] = e
    BY <1>1, <2>1 DEF Contains
  <2> QED BY <2>2 DEF AtMostOnce
<1>3. CASE ~Contains(s, e)
  <2>1. /\ i - Len(s) \in 1..Len(t) /\ t[i - Len(s)] = e
        /\ j - Len(s) \in 1..Len(t) /\ t[j - Len(s)] = e
    BY <1>1, <1>3 DEF Contains
  <2>2. i - Len(s) = j - Len(s)
    BY <2>1 DEF AtMostOnce
  <2> QED BY <2>2
<1> QED BY <1>2, <1>3

\* Taking the first email off a queue leaves the others; one that was in it once is gone.
LEMMA TakeFirst ==
  ASSUME NEW S, NEW s \in Seq(S), s # <<>>, NEW e
  PROVE  /\ Contains(s, e) <=> Head(s) = e \/ Contains(Tail(s), e)
         /\ AtMostOnce(s, e) => /\ AtMostOnce(Tail(s), e)
                                /\ Head(s) = e => ~Contains(Tail(s), e)
<1>1. Len(s) >= 1 /\ Head(s) = s[1] /\ 1 \in 1..Len(s) /\ Len(Tail(s)) = Len(s) - 1
  OBVIOUS
<1>2. \A i \in 1..Len(Tail(s)) : i + 1 \in 1..Len(s) /\ Tail(s)[i] = s[i + 1]
  OBVIOUS
<1>3. ASSUME Contains(s, e) PROVE Head(s) = e \/ Contains(Tail(s), e)
  <2>1. PICK i \in 1..Len(s) : s[i] = e
    BY <1>3 DEF Contains
  <2>2. CASE i # 1
    <3>1. i - 1 \in 1..Len(Tail(s)) /\ Tail(s)[i - 1] = e
      BY <1>1, <2>1, <2>2
    <3> QED BY <3>1 DEF Contains
  <2> QED BY <1>1, <2>1, <2>2
<1>4. ASSUME Head(s) = e \/ Contains(Tail(s), e) PROVE Contains(s, e)
  BY <1>1, <1>2, <1>4 DEF Contains
<1>5. ASSUME AtMostOnce(s, e) PROVE AtMostOnce(Tail(s), e)
  <2> SUFFICES ASSUME NEW i \in 1..Len(Tail(s)), NEW j \in 1..Len(Tail(s)),
                      Tail(s)[i] = e, Tail(s)[j] = e
               PROVE  i = j
    BY DEF AtMostOnce
  <2>1. i + 1 = j + 1
    BY <1>2, <1>5 DEF AtMostOnce
  <2> QED BY <2>1
<1>6. ASSUME AtMostOnce(s, e), Head(s) = e, Contains(Tail(s), e) PROVE FALSE
  <2>1. PICK i \in 1..Len(Tail(s)) : Tail(s)[i] = e
    BY <1>6 DEF Contains
  <2>2. i + 1 \in 1..Len(s) /\ s[i + 1] = e /\ s[1] = e
    BY <1>1, <1>2, <1>6, <2>1
  <2>3. i + 1 = 1
    BY <1>1, <1>6, <2>2 DEF AtMostOnce
  <2> QED BY <2>3
<1> QED BY <1>3, <1>4, <1>5, <1>6

\* Taking an email out of a queue leaves the others, and brings none back.
LEMMA TakeOne ==
  ASSUME NEW S, NEW s \in Seq(S), NEW k \in 1..Len(s), NEW e
  PROVE  /\ RemoveAt(s, k) \in Seq(S)
         /\ Contains(RemoveAt(s, k), e) => Contains(s, e)
         /\ Contains(s, e) => Contains(RemoveAt(s, k), e) \/ s[k] = e
         /\ AtMostOnce(s, e) => AtMostOnce(RemoveAt(s, k), e)
<1> DEFINE u == SubSeq(s, 1, k - 1)
           v == SubSeq(s, k + 1, Len(s))
<1>1. /\ u \in Seq(S) /\ Len(u) = k - 1
      /\ \A i \in 1..(k - 1) : u[i] = s[i]
  OBVIOUS
<1>2. /\ v \in Seq(S) /\ Len(v) = Len(s) - k
      /\ \A i \in 1..(Len(s) - k) : v[i] = s[i + k]
  OBVIOUS
<1>3. RemoveAt(s, k) = u \o v
  BY DEF RemoveAt
<1> HIDE DEF u, v
<1>4. Contains(u \o v, e) <=> Contains(u, e) \/ Contains(v, e)
  BY <1>1, <1>2, ContainsBoth
<1>5. ASSUME Contains(u, e) \/ Contains(v, e) PROVE Contains(s, e)
  <2>1. ASSUME NEW i \in 1..Len(u), u[i] = e PROVE Contains(s, e)
    <3>1. i \in 1..Len(s) /\ s[i] = e
      BY <1>1, <2>1
    <3> QED BY <3>1 DEF Contains
  <2>2. ASSUME NEW i \in 1..Len(v), v[i] = e PROVE Contains(s, e)
    <3>1. i + k \in 1..Len(s) /\ s[i + k] = e
      BY <1>2, <2>2
    <3> QED BY <3>1 DEF Contains
  <2> QED BY <1>5, <2>1, <2>2 DEF Contains
<1>6. ASSUME Contains(s, e), s[k] # e PROVE Contains(u, e) \/ Contains(v, e)
  <2>1. PICK i \in 1..Len(s) : s[i] = e
    BY <1>6 DEF Contains
  <2>2. CASE i < k
    <3>1. i \in 1..Len(u) /\ u[i] = e
      BY <1>1, <2>1, <2>2
    <3> QED BY <3>1 DEF Contains
  <2>3. CASE i > k
    <3>1. i - k \in 1..Len(v) /\ v[i - k] = e
      BY <1>2, <2>1, <2>3
    <3> QED BY <3>1 DEF Contains
  <2> QED BY <1>6, <2>1, <2>2, <2>3
<1>7. ASSUME AtMostOnce(s, e) PROVE AtMostOnce(u \o v, e)
  <2>1. AtMostOnce(u, e)
    BY <1>1, <1>7 DEF AtMostOnce
  <2>2. AtMostOnce(v, e)
    <3> SUFFICES ASSUME NEW i \in 1..Len(v), NEW j \in 1..Len(v), v[i] = e, v[j] = e
                 PROVE  i = j
      BY DEF AtMostOnce
    <3>1. i + k \in 1..Len(s) /\ j + k \in 1..Len(s) /\ s[i + k] = e /\ s[j + k] = e
      BY <1>2
    <3>2. i + k = j + k
      BY <1>7, <3>1 DEF AtMostOnce
    <3> QED BY <1>2, <3>2
  <2>3. ASSUME Contains(u, e), Contains(v, e) PROVE FALSE
    <3>1. PICK i \in 1..Len(u) : u[i] = e
      BY <2>3 DEF Contains
    <3>2. PICK j \in 1..Len(v) : v[j] = e
      BY <2>3 DEF Contains
    <3>3. i \in 1..Len(s) /\ j + k \in 1..Len(s) /\ s[i] = e /\ s[j + k] = e
      BY <1>1, <1>2, <3>1, <3>2
    <3>4. i = j + k
      BY <1>7, <3>3 DEF AtMostOnce
    <3> QED BY <1>1, <1>2, <3>1, <3>2, <3>4
  <2> QED BY <1>1, <1>2, <2>1, <2>2, <2>3, OnceInBoth
<1> QED BY <1>1, <1>2, <1>3, <1>4, <1>5, <1>6, <1>7

\* What the broker keeps when every connection ends is what was in the queue, with the
\* worker's channel, or held by a worker that has not answered.
LEMMA KeptContains ==
  ASSUME TypeOK, NEW m \in Emails
  PROVE  /\ Kept \in Seq(Emails)
         /\ Contains(Kept, m) <=> AtBroker(m)
<1> USE DEF AtBroker
<1> DEFINE held == IF holding # Nothing /\ owed THEN <<holding>> ELSE <<>>
<1>1. held \in Seq(Emails) /\ inbox \in Seq(Emails) /\ ready \in Seq(Emails)
  BY DEF TypeOK
<1>2. Contains(held, m) <=> holding = m /\ owed
  BY ContainsOne, EmailQueueAssumption
<1>3. Kept = (held \o inbox) \o ready
  BY DEF Kept, Unanswered
<1> HIDE DEF held
<1>4. held \o inbox \in Seq(Emails)
  BY <1>1
<1>5. Contains(held \o inbox, m) <=> Contains(held, m) \/ Contains(inbox, m)
  BY <1>1, ContainsBoth
<1>6. Contains((held \o inbox) \o ready, m) <=> Contains(held \o inbox, m) \/ Contains(ready, m)
  BY <1>1, <1>4, ContainsBoth
<1> QED BY <1>1, <1>2, <1>3, <1>4, <1>5, <1>6

\* An email that is in one place is once in what the broker keeps.
LEMMA KeptOnce ==
  ASSUME TypeOK, NEW m \in Emails, InOnePlace(m)
  PROVE  AtMostOnce(Kept, m)
<1> DEFINE held == IF holding # Nothing /\ owed THEN <<holding>> ELSE <<>>
<1>1. held \in Seq(Emails) /\ inbox \in Seq(Emails) /\ ready \in Seq(Emails)
  BY DEF TypeOK
<1>2. AtMostOnce(held, m)
  BY DEF AtMostOnce
<1>3. Contains(held, m) <=> holding = m /\ owed
  BY ContainsOne, EmailQueueAssumption
<1>4. Kept = (held \o inbox) \o ready
  BY DEF Kept, Unanswered
<1> HIDE DEF held
<1>5. held \o inbox \in Seq(Emails) /\ AtMostOnce(held \o inbox, m)
  BY <1>1, <1>2, <1>3, OnceInBoth DEF InOnePlace
<1>6. Contains(held \o inbox, m) <=> Contains(held, m) \/ Contains(inbox, m)
  BY <1>1, ContainsBoth
<1>7. ~(Contains(held \o inbox, m) /\ Contains(ready, m))
  BY <1>3, <1>6 DEF InOnePlace
<1> QED BY <1>1, <1>4, <1>5, <1>7, OnceInBoth DEF InOnePlace

----------------------------------------------------------------------------
(* Type correctness, one step per action.                                  *)

LEMMA InitType == Init => TypeOK /\ NoneBeforeStart
<1> SUFFICES ASSUME Init PROVE TypeOK /\ NoneBeforeStart
  OBVIOUS
<1>1. ready \in Seq(Emails) /\ inbox \in Seq(Emails) /\ inbox = <<>>
  BY DEF Init
<1>2. pub \in [Emails -> {"new", "ensure", "check", "publish", "queued", "lost"}]
  BY DEF Init
<1>3. sent \in [Emails -> 0..2] /\ left \in 0..Breaks
  BY EmailQueueAssumption DEF Init
<1>4. up \in BOOLEAN /\ client # "open"
  BY DEF Init
<1> QED BY <1>1, <1>2, <1>3, <1>4 DEF Init, TypeOK, NoneBeforeStart

LEMMA NextType ==
  ASSUME TypeOK, NoneBeforeStart, [Next]_vars
  PROVE  TypeOK' /\ NoneBeforeStart'
<1> USE EmailQueueAssumption DEF broker, worker, start, history, Go
<1>1. CASE Booting
  <2>1. AfterRetry \in {"done", "retry"}
    BY DEF AfterRetry
  <2> QED BY <1>1, <2>1 DEF Booting, Connect, Start, Retry, StartAgain, AfterRetry, TypeOK,
                            NoneBeforeStart
<1>2. ASSUME NEW m \in Emails, Request(m) \/ Publishing(m)
      PROVE  TypeOK' /\ NoneBeforeStart'
  <2>1. CASE Request(m)
    BY <2>1 DEF Request, TypeOK, NoneBeforeStart
  <2>2. CASE Ensure(m)
    BY <2>2 DEF Ensure, TypeOK, NoneBeforeStart
  <2>3. CASE EnsureConnection(m)
    BY <2>3 DEF EnsureConnection, TypeOK, NoneBeforeStart
  <2>4. CASE Publish(m)
    <3>1. /\ pub' = [pub EXCEPT ![m] = "queued"] \/ pub' = [pub EXCEPT ![m] = "lost"]
          /\ flight' = flight \cup {m} \/ flight' = flight
      BY <2>4 DEF Publish
    <3>2. pub' \in [Emails -> {"new", "ensure", "check", "publish", "queued", "lost"}]
      BY <3>1 DEF TypeOK
    <3>3. flight' \subseteq Emails
      BY <3>1 DEF TypeOK
    <3>4. /\ UNCHANGED <<up, ready, stored, consumer, client, link, boot, left, sent, broken, dropped>>
          /\ UNCHANGED <<inbox, holding, step, owed>>
      BY <2>4 DEF Publish
    <3> QED BY <3>2, <3>3, <3>4 DEF TypeOK, NoneBeforeStart
  <2> QED BY <1>2, <2>1, <2>2, <2>3, <2>4 DEF Publishing
<1>3. ASSUME NEW m \in Emails, Accept(m) \/ Store(m)
       PROVE  TypeOK' /\ NoneBeforeStart'
  <2>1. CASE Accept(m)
    <3>1. ready' \in Seq(Emails) /\ flight' \subseteq Emails
      BY <2>1 DEF Accept, TypeOK
    <3> QED BY <2>1, <3>1 DEF Accept, TypeOK, NoneBeforeStart
  <2>2. CASE Store(m)
    BY <2>2 DEF Store, TypeOK, NoneBeforeStart
  <2> QED BY <1>3, <2>1, <2>2
<1>4. ASSUME NEW i \in DOMAIN ready, Forget(i)
       PROVE  TypeOK' /\ NoneBeforeStart'
  <2>1. i \in 1..Len(ready) /\ ready[i] \in Emails
    BY DEF TypeOK
  <2>2. ready' \in Seq(Emails)
    BY <1>4, <2>1, TakeOne DEF Forget, TypeOK
  <2> QED BY <1>4, <2>1, <2>2 DEF Forget, TypeOK, NoneBeforeStart
<1>5. CASE Deliver
  BY <1>5 DEF Deliver, TypeOK, NoneBeforeStart
<1>6. CASE Receive
  BY <1>6 DEF Receive, TypeOK, NoneBeforeStart
<1>7. CASE Send
  BY <1>7 DEF Send, Delivered, More, TypeOK, NoneBeforeStart
<1>8. CASE SendFails
  BY <1>8 DEF SendFails, Delivered, More, TypeOK, NoneBeforeStart
<1>9. CASE Answer
  <2>1. /\ holding' \in Emails \cup {Nothing}
        /\ ready' \in Seq(Emails)
        /\ stored' \subseteq Emails
    BY <1>9 DEF Answer, Settled, TypeOK
  <2> QED BY <1>9, <2>1 DEF Answer, TypeOK, NoneBeforeStart
<1>10. CASE Down
  <2>1. Kept \in Seq(Emails)
    BY DEF Kept, Unanswered, TypeOK
  <2>2. broken' \subseteq Emails /\ flight' \subseteq Emails /\ dropped' \subseteq Emails
    BY <1>10 DEF Down, Broken, TypeOK
  <2>3. ready' \in Seq(Emails) /\ inbox' \in Seq(Emails) /\ inbox' = <<>>
    BY <1>10, <2>1 DEF Down
  <2>4. client' \in {"none", "closed"} /\ consumer' \in {"none", "dead"}
    BY <1>10 DEF Down, TypeOK
  <2>5. left' \in 0..Breaks
    BY <1>10 DEF Down, TypeOK
  <2>6. NoneBeforeStart'
    BY <1>10 DEF Down, NoneBeforeStart
  <2> QED BY <1>10, <2>2, <2>3, <2>4, <2>5, <2>6 DEF Down, TypeOK
<1>11. CASE Up
  BY <1>11 DEF Up, TypeOK, NoneBeforeStart
<1>12. CASE Restart
  <2>1. Kept \in Seq(Emails)
    BY DEF Kept, Unanswered, TypeOK
  <2>2. broken' \subseteq Emails /\ flight' \subseteq Emails /\ dropped' \subseteq Emails
    BY <1>12 DEF Restart, Broken, TypeOK
  <2>3. pub' \in [Emails -> {"new", "ensure", "check", "publish", "queued", "lost"}]
    BY <1>12 DEF Restart, TypeOK
  <2>4. ready' \in Seq(Emails) /\ inbox' \in Seq(Emails) /\ inbox' = <<>>
    BY <1>12, <2>1 DEF Restart
  <2>5. left' \in 0..Breaks
    BY <1>12 DEF Restart, TypeOK
  <2> QED BY <1>12, <2>2, <2>3, <2>4, <2>5 DEF Restart, TypeOK, NoneBeforeStart
<1>13. CASE UNCHANGED vars
  BY <1>13 DEF vars, TypeOK, NoneBeforeStart
<1> QED BY <1>1, <1>2, <1>3, <1>4, <1>5, <1>6, <1>7, <1>8, <1>9, <1>10, <1>11, <1>12, <1>13
        DEF Next

----------------------------------------------------------------------------
(* Where the emails are, one lemma for the steps of each kind.             *)

\* What the invariant says of the places of the emails.
Placed ==
  /\ AckAfterSend
  /\ QueuedEmailsAreKept
  /\ UnpublishedNowhere
  /\ \A m \in Emails \ broken : InOnePlace(m) /\ SentOnce(m)

\* A step that moves no email: the start of the server, a request, a publisher that
\* looks for a client or gives up, the return of the broker.
LEMMA QuietStep ==
  ASSUME Placed, UNCHANGED <<flight, ready, stored, worker, history>>,
         \A m \in Emails : pub'[m] = "queued" <=> pub[m] = "queued"
  PROVE  Placed'
BY DEF Placed, AckAfterSend, QueuedEmailsAreKept, UnpublishedNowhere, InOnePlace, SentOnce,
       AtBroker, worker, history

LEMMA BootingStep ==
  ASSUME Placed, Booting \/ Up \/ UNCHANGED vars
  PROVE  Placed'
<1>1. UNCHANGED <<flight, ready, stored, worker, history, pub>>
  BY DEF Booting, Connect, Start, Retry, StartAgain, Up, vars, broker, worker, history
<1> QED BY <1>1, QuietStep

\* A publisher before it publishes.
LEMMA EnsureStep ==
  ASSUME TypeOK, Placed, NEW m \in Emails, Request(m) \/ Ensure(m) \/ EnsureConnection(m)
  PROVE  Placed'
<1>1. UNCHANGED <<flight, ready, stored, worker, history>>
  BY DEF Request, Ensure, EnsureConnection, broker
<1>2. PICK c \in {"ensure", "check", "publish", "lost"} : pub' = [pub EXCEPT ![m] = c]
  BY DEF Request, Ensure, EnsureConnection, Go
<1>3. pub[m] # "queued"
  BY DEF Request, Ensure, EnsureConnection
<1>4. \A n \in Emails : pub'[n] = "queued" <=> pub[n] = "queued"
  BY <1>2, <1>3 DEF TypeOK
<1> QED BY <1>1, <1>4, QuietStep

\* An email that was nowhere is written to the connection.
LEMMA PublishStep ==
  ASSUME TypeOK, Placed, NEW m \in Emails, Publish(m)
  PROVE  Placed'
<1>1. CASE client = "open"
  <2>1. /\ flight' = flight \cup {m}
        /\ pub' = [pub EXCEPT ![m] = "queued"]
        /\ pub[m] = "publish"
        /\ UNCHANGED <<ready, stored, inbox, holding, step, owed, sent, broken, dropped>>
    BY <1>1 DEF Publish, Go, worker, history
  <2>2. /\ ~Contains(ready, m) /\ ~Contains(inbox, m) /\ holding # m /\ sent[m] = 0
    BY <2>1 DEF Placed, UnpublishedNowhere
  <2>3. \A n \in Emails : pub'[n] = IF n = m THEN "queued" ELSE pub[n]
    BY <2>1 DEF TypeOK
  <2>4. AckAfterSend'
    BY <2>1 DEF Placed, AckAfterSend
  <2>5. QueuedEmailsAreKept'
    BY <2>1, <2>3 DEF Placed, QueuedEmailsAreKept, AtBroker
  <2>6. UnpublishedNowhere'
    BY <2>1, <2>3 DEF Placed, UnpublishedNowhere
  <2>7. ASSUME NEW n \in Emails \ broken PROVE InOnePlace(n)' /\ SentOnce(n)'
    BY <2>1, <2>2 DEF Placed, InOnePlace, SentOnce
  <2> QED BY <2>1, <2>4, <2>5, <2>6, <2>7 DEF Placed
<1>2. CASE client # "open"
  <2>1. /\ pub' = [pub EXCEPT ![m] = "lost"] /\ pub[m] = "publish"
        /\ UNCHANGED <<flight, ready, stored, worker, history>>
    BY <1>2 DEF Publish, Go
  <2>2. \A n \in Emails : pub'[n] = "queued" <=> pub[n] = "queued"
    BY <2>1 DEF TypeOK
  <2> QED BY <2>1, <2>2, QuietStep
<1> QED BY <1>1, <1>2

\* The broker takes an email that was on its way.
LEMMA AcceptStep ==
  ASSUME TypeOK, Placed, NEW m \in Emails, Accept(m)
  PROVE  Placed'
<1>1. /\ m \in flight /\ flight' = flight \ {m}
      /\ ready' = Append(ready, m)
      /\ UNCHANGED <<pub, stored, inbox, holding, step, owed, sent, broken, dropped>>
  BY DEF Accept, worker, history
<1>2. ready' = ready \o <<m>> /\ ready \in Seq(Emails) /\ <<m>> \in Seq(Emails)
  BY <1>1 DEF TypeOK
<1>3. \A n \in Emails : Contains(ready', n) <=> Contains(ready, n) \/ n = m
  BY <1>2, ContainsBoth, ContainsOne
<1>4. AckAfterSend'
  BY <1>1 DEF Placed, AckAfterSend
<1>5. QueuedEmailsAreKept'
  <2>1. \A n \in Emails : AtBroker(n) => AtBroker(n)'
    BY <1>1, <1>3 DEF AtBroker
  <2>2. AtBroker(m)'
    BY <1>3 DEF AtBroker
  <2> QED BY <1>1, <2>1, <2>2 DEF Placed, QueuedEmailsAreKept, TypeOK
<1>6. UnpublishedNowhere'
  BY <1>1, <1>3 DEF Placed, UnpublishedNowhere
<1>7. ASSUME NEW n \in Emails \ broken PROVE InOnePlace(n)' /\ SentOnce(n)'
  <2>1. InOnePlace(n) /\ SentOnce(n)
    BY DEF Placed
  <2>2. AtMostOnce(ready', n)
    <3>1. AtMostOnce(<<m>>, n)
      BY DEF AtMostOnce
    <3>2. ~(Contains(ready, n) /\ Contains(<<m>>, n))
      BY <1>1, <2>1, ContainsOne DEF InOnePlace
    <3> QED BY <1>2, <2>1, <3>1, <3>2, OnceInBoth DEF InOnePlace
  <2>3. InOnePlace(n)'
    BY <1>1, <1>3, <2>1, <2>2 DEF InOnePlace
  <2>4. SentOnce(n)'
    BY <1>1, <1>3, <2>1 DEF SentOnce
  <2> QED BY <2>3, <2>4
<1> QED BY <1>1, <1>4, <1>5, <1>6, <1>7 DEF Placed

\* It writes one to its disk.
LEMMA StoreStep ==
  ASSUME TypeOK, Placed, NEW m \in Emails, Store(m)
  PROVE  Placed'
<1>1. /\ AtBroker(m) /\ stored' = stored \cup {m}
      /\ UNCHANGED <<flight, ready, pub, inbox, holding, step, owed, sent, broken, dropped>>
  BY DEF Store, worker, history
<1>2. QueuedEmailsAreKept'
  BY <1>1 DEF Placed, QueuedEmailsAreKept, AtBroker
<1> QED BY <1>1, <1>2 DEF Placed, AckAfterSend, UnpublishedNowhere, InOnePlace, SentOnce

\* A broker that is down has lost an email it had not on its disk.
LEMMA ForgetStep ==
  ASSUME TypeOK, Placed, NEW i \in DOMAIN ready, Forget(i)
  PROVE  Placed'
<1>1. /\ ready[i] \notin stored
      /\ ready' = RemoveAt(ready, i) /\ dropped' = dropped \cup {ready[i]}
      /\ UNCHANGED <<flight, stored, pub, inbox, holding, step, owed, sent, broken>>
  BY DEF Forget, worker
<1>2. ready \in Seq(Emails) /\ i \in 1..Len(ready)
  BY DEF TypeOK
<1>3. \A n \in Emails :
        /\ Contains(ready', n) => Contains(ready, n)
        /\ Contains(ready, n) => Contains(ready', n) \/ ready[i] = n
        /\ AtMostOnce(ready, n) => AtMostOnce(ready', n)
  BY <1>1, <1>2, TakeOne
<1>4. AckAfterSend'
  BY <1>1 DEF Placed, AckAfterSend
<1>5. QueuedEmailsAreKept'
  <2>1. \A n \in Emails : AtBroker(n) => AtBroker(n)' \/ ready[i] = n
    BY <1>1, <1>3 DEF AtBroker
  <2> QED BY <1>1, <2>1 DEF Placed, QueuedEmailsAreKept, TypeOK
<1>6. UnpublishedNowhere'
  BY <1>1, <1>3 DEF Placed, UnpublishedNowhere
<1>7. ASSUME NEW n \in Emails \ broken PROVE InOnePlace(n)' /\ SentOnce(n)'
  BY <1>1, <1>3 DEF Placed, InOnePlace, SentOnce
<1> QED BY <1>1, <1>4, <1>5, <1>6, <1>7 DEF Placed

\* The broker delivers all it has.
LEMMA DeliverStep ==
  ASSUME TypeOK, Placed, Deliver
  PROVE  Placed'
<1>1. /\ inbox' = inbox \o ready /\ ready' = <<>>
      /\ UNCHANGED <<flight, stored, holding, step, owed, pub, sent, broken, dropped>>
  BY DEF Deliver, history
<1>2. inbox \in Seq(Emails) /\ ready \in Seq(Emails)
  BY DEF TypeOK
<1>3. \A n \in Emails : /\ ~Contains(ready', n)
                        /\ Contains(inbox', n) <=> Contains(inbox, n) \/ Contains(ready, n)
  BY <1>1, <1>2, ContainsBoth, ContainsOne
<1>4. AckAfterSend'
  BY <1>1 DEF Placed, AckAfterSend
<1>5. QueuedEmailsAreKept'
  BY <1>1, <1>3 DEF Placed, QueuedEmailsAreKept, AtBroker, TypeOK
<1>6. UnpublishedNowhere'
  BY <1>1, <1>3 DEF Placed, UnpublishedNowhere
<1>7. ASSUME NEW n \in Emails \ broken PROVE InOnePlace(n)' /\ SentOnce(n)'
  <2>1. InOnePlace(n) /\ SentOnce(n)
    BY DEF Placed
  <2>2. AtMostOnce(ready', n) /\ AtMostOnce(inbox', n)
    <3>1. AtMostOnce(ready', n)
      BY <1>1 DEF AtMostOnce
    <3> QED BY <1>1, <1>2, <2>1, <3>1, OnceInBoth DEF InOnePlace
  <2>3. InOnePlace(n)'
    BY <1>1, <1>3, <2>1, <2>2 DEF InOnePlace
  <2>4. SentOnce(n)'
    BY <1>1, <1>3, <2>1 DEF SentOnce
  <2> QED BY <2>3, <2>4
<1> QED BY <1>1, <1>4, <1>5, <1>6, <1>7 DEF Placed

\* The worker takes the next email up; it was not sent unless its answer may be lost.
LEMMA ReceiveStep ==
  ASSUME TypeOK, Placed, Receive
  PROVE  Placed'
<1>1. /\ inbox # <<>> /\ holding = Nothing
      /\ holding' = Head(inbox) /\ inbox' = Tail(inbox) /\ step' = "send" /\ owed' = TRUE
      /\ UNCHANGED <<flight, ready, stored, pub, sent, broken, dropped>>
  BY DEF Receive, broker, history
<1>2. inbox \in Seq(Emails)
  BY DEF TypeOK
<1>3. \A n \in Emails : Contains(inbox, n) <=> holding' = n \/ Contains(inbox', n)
  BY <1>1, <1>2, TakeFirst
<1>4. AckAfterSend'
  BY <1>1 DEF AckAfterSend
<1>5. QueuedEmailsAreKept'
  BY <1>1, <1>3, EmailQueueAssumption DEF Placed, QueuedEmailsAreKept, AtBroker, TypeOK
<1>6. UnpublishedNowhere'
  BY <1>1, <1>3 DEF Placed, UnpublishedNowhere
<1>7. ASSUME NEW n \in Emails \ broken PROVE InOnePlace(n)' /\ SentOnce(n)'
  <2>1. InOnePlace(n) /\ SentOnce(n)
    BY DEF Placed
  <2>2. AtMostOnce(inbox', n) /\ (holding' = n => ~Contains(inbox', n))
    BY <1>1, <1>2, <2>1, TakeFirst DEF InOnePlace
  <2>3. InOnePlace(n)'
    BY <1>1, <1>3, <2>1, <2>2 DEF InOnePlace
  <2>4. SentOnce(n)'
    BY <1>1, <1>3, <2>1 DEF SentOnce
  <2> QED BY <2>3, <2>4
<1> QED BY <1>1, <1>4, <1>5, <1>6, <1>7 DEF Placed

\* The email is sent, or is not.
LEMMA SendStep ==
  ASSUME TypeOK, Placed, Send \/ SendFails
  PROVE  Placed'
<1>1. CASE Send
  <2>1. /\ holding \in Emails /\ step = "send" /\ step' = "ack"
        /\ sent' = [sent EXCEPT ![holding] = More(@)]
        /\ UNCHANGED <<flight, ready, stored, inbox, holding, owed, pub, broken, dropped>>
    BY <1>1 DEF Send, Delivered, broker, TypeOK
  <2>2. \A n \in Emails : sent'[n] = IF n = holding THEN More(sent[n]) ELSE sent[n]
    BY <2>1 DEF TypeOK
  <2>3. \A n \in Emails : sent[n] \in 0..2 /\ More(sent[n]) \in 1..2
    BY DEF TypeOK, More
  <2>4. AckAfterSend'
    BY <2>1, <2>2, <2>3 DEF AckAfterSend
  <2>5. QueuedEmailsAreKept'
    BY <2>1, <2>2, <2>3 DEF Placed, QueuedEmailsAreKept, AtBroker
  <2>6. UnpublishedNowhere'
    BY <2>1, <2>2 DEF Placed, UnpublishedNowhere
  <2>7. ASSUME NEW n \in Emails \ broken PROVE InOnePlace(n)' /\ SentOnce(n)'
    <3>1. InOnePlace(n) /\ SentOnce(n)
      BY DEF Placed
    <3>2. InOnePlace(n)'
      BY <2>1, <3>1 DEF InOnePlace
    <3>3. CASE holding = n
      <4>1. sent[n] = 0
        BY <2>1, <2>3, <3>1, <3>3 DEF SentOnce
      <4>2. sent'[n] = 1
        BY <2>2, <3>3, <4>1 DEF More
      <4> QED BY <2>1, <3>1, <3>2, <3>3, <4>2 DEF SentOnce, InOnePlace
    <3>4. CASE holding # n
      BY <2>1, <2>2, <3>1, <3>2, <3>4 DEF SentOnce
    <3> QED BY <3>3, <3>4
  <2> QED BY <2>1, <2>4, <2>5, <2>6, <2>7 DEF Placed
<1>2. CASE SendFails
  <2>1. /\ holding \in Emails /\ step = "send" /\ step' = "nack"
        /\ UNCHANGED <<flight, ready, stored, inbox, holding, owed, pub, dropped>>
    BY <1>2 DEF SendFails, broker, TypeOK
  <2>2. \/ sent' = sent /\ broken' = broken
        \/ sent' = [sent EXCEPT ![holding] = More(@)] /\ broken' = broken \cup {holding}
    BY <1>2 DEF SendFails, Delivered
  <2>3. \A n \in Emails : /\ sent'[n] = sent[n] \/ (n = holding /\ n \in broken' /\ sent'[n] > 0)
                          /\ n \notin broken' => n \notin broken
    <3>1. \A n \in Emails : sent[n] \in 0..2 /\ More(sent[n]) \in 1..2
      BY DEF TypeOK, More
    <3> QED BY <2>1, <2>2, <3>1 DEF TypeOK
  <2>4. AckAfterSend'
    BY <2>1 DEF AckAfterSend
  <2>5. QueuedEmailsAreKept'
    BY <2>1, <2>3 DEF Placed, QueuedEmailsAreKept, AtBroker
  <2>6. UnpublishedNowhere'
    BY <2>1, <2>3 DEF Placed, UnpublishedNowhere
  <2>7. ASSUME NEW n \in Emails, n \notin broken' PROVE InOnePlace(n)' /\ SentOnce(n)'
    <3>1. InOnePlace(n) /\ SentOnce(n) /\ sent'[n] = sent[n]
      BY <2>3, <2>7 DEF Placed
    <3> QED BY <2>1, <3>1 DEF InOnePlace, SentOnce
  <2> QED BY <2>4, <2>5, <2>6, <2>7 DEF Placed
<1> QED BY <1>1, <1>2

\* The worker acknowledges an email it has sent, or gives one back.
LEMMA AnswerStep ==
  ASSUME TypeOK, Placed, Answer
  PROVE  Placed'
<1>1. /\ holding \in Emails /\ step \in {"ack", "nack"}
      /\ holding' = Nothing /\ step' = "send" /\ owed' = FALSE
      /\ ready' = IF owed /\ step = "nack" THEN <<holding>> \o ready ELSE ready
      /\ stored' = IF owed /\ step = "ack" THEN stored \ {holding} ELSE stored
      /\ UNCHANGED <<flight, inbox, pub, sent, broken, dropped>>
  BY DEF Answer, Settled, history, TypeOK
<1>2. ready \in Seq(Emails) /\ <<holding>> \in Seq(Emails)
  BY <1>1 DEF TypeOK
<1>3. \A n \in Emails : Contains(ready', n) <=>
                          Contains(ready, n) \/ (holding = n /\ owed /\ step = "nack")
  BY <1>1, <1>2, ContainsBoth, ContainsOne
<1>4. AckAfterSend'
  BY <1>1 DEF AckAfterSend
<1>5. QueuedEmailsAreKept'
  <2>1. ASSUME NEW n \in Emails, pub[n] = "queued", holding = n, owed, step = "ack"
        PROVE  sent[n] > 0
    BY <2>1, EmailQueueAssumption DEF Placed, AckAfterSend
  <2>2. ASSUME NEW n \in Emails, AtBroker(n), ~(holding = n /\ owed /\ step = "ack")
        PROVE  AtBroker(n)'
    BY <1>1, <1>3, <2>2 DEF AtBroker
  <2>3. \A n \in stored' : n \in stored /\ n \in Emails /\ ~(holding = n /\ owed /\ step = "ack")
    BY <1>1 DEF TypeOK
  <2>4. \A n \in stored' : AtBroker(n)'
    BY <2>2, <2>3 DEF Placed, QueuedEmailsAreKept
  <2>5. ASSUME NEW n \in Emails, pub'[n] = "queued"
        PROVE  n \in flight' \/ AtBroker(n)' \/ sent'[n] > 0 \/ n \in dropped'
    BY <1>1, <2>1, <2>2, <2>5 DEF Placed, QueuedEmailsAreKept
  <2> QED BY <2>4, <2>5 DEF QueuedEmailsAreKept
<1>6. UnpublishedNowhere'
  BY <1>1, <1>3, EmailQueueAssumption DEF Placed, UnpublishedNowhere
<1>7. ASSUME NEW n \in Emails \ broken PROVE InOnePlace(n)' /\ SentOnce(n)'
  <2>1. InOnePlace(n) /\ SentOnce(n)
    BY DEF Placed
  <2>2. holding' # n
    BY <1>1, EmailQueueAssumption
  <2>3. AtMostOnce(ready', n)
    <3>1. CASE owed /\ step = "nack"
      <4>1. AtMostOnce(<<holding>>, n)
        BY DEF AtMostOnce
      <4>2. ~(Contains(<<holding>>, n) /\ Contains(ready, n))
        BY <2>1, ContainsOne DEF InOnePlace
      <4> QED BY <1>1, <1>2, <2>1, <3>1, <4>1, <4>2, OnceInBoth DEF InOnePlace
    <3>2. CASE ~(owed /\ step = "nack")
      BY <1>1, <2>1, <3>2 DEF InOnePlace
    <3> QED BY <3>1, <3>2
  <2>4. InOnePlace(n)'
    BY <1>1, <1>3, <2>1, <2>2, <2>3 DEF InOnePlace
  <2>5. SentOnce(n)'
    BY <1>1, <1>3, <2>1, <2>2 DEF SentOnce
  <2> QED BY <2>4, <2>5
<1> QED BY <1>1, <1>4, <1>5, <1>6, <1>7 DEF Placed

\* Every connection ends: what has no answer goes back.  The worker goes on with its
\* email if only the broker went down.
LEMMA BreakStep ==
  ASSUME TypeOK, Placed, Down \/ Restart
  PROVE  Placed'
<1>1. /\ ready' = Kept /\ inbox' = <<>> /\ owed' = FALSE /\ sent' = sent /\ stored' = stored
      /\ flight' \subseteq flight /\ dropped' = dropped \cup (flight \ flight')
      /\ \/ holding' = holding /\ step' = step /\ broken' = Broken(TRUE)
         \/ holding' = Nothing /\ step' = "send" /\ broken' = Broken(FALSE)
  BY DEF Down, Restart
<1>2. \A n \in Emails : pub'[n] = "queued" <=> pub[n] = "queued"
  BY DEF Down, Restart
<1>3. \A n \in Emails :
        /\ ~Contains(inbox', n)
        /\ Contains(ready', n) <=> AtBroker(n)
  BY <1>1, KeptContains, ContainsOne
<1>4. AckAfterSend'
  BY <1>1 DEF Placed, AckAfterSend
<1>5. QueuedEmailsAreKept'
  <2>1. \A n \in Emails : AtBroker(n) => AtBroker(n)'
    BY <1>3 DEF AtBroker
  <2> QED BY <1>1, <1>2, <2>1 DEF Placed, QueuedEmailsAreKept, TypeOK
<1>6. UnpublishedNowhere'
  BY <1>1, <1>2, <1>3, EmailQueueAssumption DEF Placed, UnpublishedNowhere, AtBroker
<1>7. ASSUME NEW n \in Emails, n \notin broken' PROVE InOnePlace(n)' /\ SentOnce(n)'
  <2>1. n \notin broken /\ InOnePlace(n) /\ SentOnce(n)
    BY <1>1, <1>7 DEF Placed, Broken
  <2>2. holding' # n /\ (holding = n /\ owed => step # "ack")
    BY <1>1, <1>7, <2>1, EmailQueueAssumption DEF Broken, InOnePlace
  <2>3. AtMostOnce(ready', n) /\ AtMostOnce(inbox', n)
    <3>1. AtMostOnce(inbox', n)
      BY <1>1 DEF AtMostOnce
    <3> QED BY <1>1, <2>1, <3>1, KeptOnce
  <2>4. InOnePlace(n)'
    BY <1>1, <1>3, <2>1, <2>2, <2>3 DEF InOnePlace, AtBroker
  <2>5. SentOnce(n)'
    BY <1>1, <1>3, <2>1, <2>2 DEF SentOnce, AtBroker
  <2> QED BY <2>4, <2>5
<1> QED BY <1>4, <1>5, <1>6, <1>7 DEF Placed

----------------------------------------------------------------------------
(* The theorems.                                                           *)

LEMMA InitPlaced == Init => Placed
<1> SUFFICES ASSUME Init PROVE Placed
  OBVIOUS
<1>1. /\ ready = <<>> /\ inbox = <<>> /\ holding = Nothing /\ flight = {} /\ stored = {}
      /\ \A m \in Emails : pub[m] = "new" /\ sent[m] = 0
  BY DEF Init
<1>2. ASSUME NEW m \in Emails PROVE ~Contains(<<>>, m) /\ AtMostOnce(<<>>, m)
  <2>1. ~Contains(<<>>, m)
    BY ContainsOne
  <2>2. AtMostOnce(<<>>, m)
    BY DEF AtMostOnce
  <2> QED BY <2>1, <2>2
<1> QED BY <1>1, <1>2, EmailQueueAssumption
        DEF Placed, AckAfterSend, QueuedEmailsAreKept, UnpublishedNowhere, InOnePlace, SentOnce

LEMMA NextPlaced ==
  ASSUME TypeOK, Placed, [Next]_vars
  PROVE  Placed'
BY BootingStep, EnsureStep, PublishStep, AcceptStep, StoreStep, ForgetStep, DeliverStep,
   ReceiveStep, SendStep, AnswerStep, BreakStep
   DEF Next, Publishing

LEMMA Safety == Spec => []SafeInv
<1>1. Init => SafeInv
  BY InitType, InitPlaced DEF SafeInv, Placed
<1>2. SafeInv /\ [Next]_vars => SafeInv'
  BY NextType, NextPlaced DEF SafeInv, Placed
<1> QED BY <1>1, <1>2, PTL DEF Spec

\* Queues, worker, publishers and start keep their types; deliveries wait only with a
\* live consumer, and no client is open while the broker is down.
THEOREM TypeCorrect == Spec => []TypeOK
<1>1. SafeInv => TypeOK
  BY DEF SafeInv
<1> QED BY <1>1, Safety, PTL

\* However often the broker goes down or the server stops, what counts as queued is on
\* its way, in the queue, with the worker or sent, unless it was lost before it was on
\* the broker's disk; and what is on the disk is in the queue or with the worker.
THEOREM NoQueuedEmailIsLost == Spec => []QueuedEmailsAreKept
<1>1. SafeInv => QueuedEmailsAreKept
  BY DEF SafeInv
<1> QED BY <1>1, Safety, PTL

\* An email is in one place only and sent once, unless it was sent and its acknowledgement
\* did not reach the broker, or SMTP reported an error for it.
THEOREM NoEmailIsSentTwice == Spec => []EmailsAreSentOnce
<1>1. SafeInv => EmailsAreSentOnce
  <2> SUFFICES ASSUME SafeInv, NEW m \in Emails \ broken
               PROVE  /\ sent[m] <= 1
                      /\ sent[m] = 1 => /\ ~Contains(ready \o inbox, m)
                                        /\ holding = m => step = "ack"
    BY DEF EmailsAreSentOnce
  <2>1. Contains(ready \o inbox, m) <=> Contains(ready, m) \/ Contains(inbox, m)
    BY ContainsBoth DEF SafeInv, TypeOK
  <2> QED BY <2>1 DEF SafeInv, SentOnce
<1> QED BY <1>1, Safety, PTL
=============================================================================
