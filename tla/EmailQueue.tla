----------------------------- MODULE EmailQueue -----------------------------
(***************************************************************************)
(* Emails on their way: the goroutine that publishes one to RabbitMQ, the  *)
(* queue, and the worker that takes emails from it and sends them, with    *)
(* the start of the server, which must find the broker first.              *)
(*                                                                         *)
(* A handler of the authentication starts one goroutine per email and does *)
(* not wait for it.  The connections of the publishers and of the worker   *)
(* end together, when the broker goes down or the server stops; who reads  *)
(* a connection that was replaced meanwhile sees the new one.              *)
(*                                                                         *)
(* The publisher asks for no confirmation: what it hears is that the email *)
(* was written to its connection.  The broker takes it later, and has it   *)
(* on its disk later still.                                                *)
(***************************************************************************)
EXTENDS Naturals, Sequences, SequencesExt

CONSTANTS
  Emails,    \* the emails to send
  Bad,       \* those no SMTP server takes
  Breaks,    \* how often the broker goes down or the server stops, in all
  Nothing    \* what the worker holds between two emails

ASSUME EmailQueueAssumption ==
  /\ Bad \subseteq Emails
  /\ Breaks \in Nat
  /\ Nothing \notin Emails

VARIABLES
  up,        \* whether the broker is reachable
  flight,    \* emails written to a connection, which the broker has not taken
  ready,     \* the queue of the broker
  stored,    \* emails the broker has on its disk
  inbox,     \* emails delivered to the worker and not yet taken up
  holding,   \* the email the worker is at
  step,      \* what it does with it: send, ack or nack
  owed,      \* whether the broker still waits for its answer
  consumer,  \* the consumer: none yet, live, or dead with its channel
  client,    \* the publishing client: none, open or closed
  link,      \* the connection made for the worker to be started: open or not
  boot,      \* control point of the start
  pub,       \* control point of the publisher of each email
  left,      \* failures that may still come
  sent,      \* history: how often each email was sent, 2 standing for more
  broken,    \* history: the emails sent without an acknowledgement
  dropped    \* history: those lost on the way to the broker, or with it

vars == <<up, flight, ready, stored, inbox, holding, step, owed, consumer, client, link, boot, pub,
          left, sent, broken, dropped>>

TypeOK ==
  /\ up \in BOOLEAN
  /\ flight \subseteq Emails /\ stored \subseteq Emails
  /\ ready \in Seq(Emails) /\ inbox \in Seq(Emails)
  /\ holding \in Emails \cup {Nothing}
  /\ step \in {"send", "ack", "nack"}
  /\ owed \in BOOLEAN
  /\ consumer \in {"none", "live", "dead"}
  /\ client \in {"none", "open", "closed"}
  /\ link \in BOOLEAN
  /\ boot \in {"connect", "start", "retry", "again", "done"}
  /\ pub \in [Emails -> {"new", "ensure", "check", "publish", "queued", "lost"}]
  /\ left \in 0..Breaks
  /\ sent \in [Emails -> 0..2]
  /\ broken \subseteq Emails /\ dropped \subseteq Emails
  /\ inbox # <<>> => consumer = "live"
  /\ client = "open" => up

Init ==
  /\ up \in BOOLEAN
  /\ flight = {} /\ ready = <<>> /\ stored = {} /\ inbox = <<>>
  /\ holding = Nothing /\ step = "send" /\ owed = FALSE
  /\ consumer = "none" /\ client = "none" /\ link = FALSE
  /\ boot = "connect"
  /\ pub = [m \in Emails |-> "new"]
  /\ left = Breaks
  /\ sent = [m \in Emails |-> 0]
  /\ broken = {} /\ dropped = {}

broker  == <<up, flight, ready, stored>>
worker  == <<inbox, holding, step, owed>>
start   == <<boot, link>>
history == <<sent, broken, dropped>>

----------------------------------------------------------------------------
(* The start of the server.                                                *)

\* initRabbitMQWithRetry: the client is the publishers' too.  When no attempt finds
\* the broker the server goes on without.
Connect ==
  /\ boot = "connect"
  /\ \/ up /\ boot' = "start" /\ link' = TRUE /\ client' = "open"
     \/ ~up /\ boot' = "retry" /\ UNCHANGED <<link, client>>
  /\ UNCHANGED <<broker, worker, consumer, pub, left, history>>

\* EmailWorker.Start; after an error there is no worker, and no second attempt.
Start ==
  /\ boot = "start"
  /\ boot' = "done"
  /\ consumer' = IF link THEN "live" ELSE "none"
  /\ UNCHANGED <<broker, worker, client, link, pub, left, history>>

\* The goroutine that goes on looking for the broker, with a client of its own.
Retry ==
  /\ boot = "retry"
  /\ up
  /\ boot' = "again" /\ link' = TRUE
  /\ UNCHANGED <<broker, worker, consumer, client, pub, left, history>>

\* Wrong on purpose: the goroutine ends whether or not the worker started.
AfterRetry_Ends == "done"

AfterRetry == IF link THEN "done" ELSE "retry"

StartAgain ==
  /\ boot = "again"
  /\ boot' = AfterRetry
  /\ consumer' = IF link THEN "live" ELSE "none"
  /\ UNCHANGED <<broker, worker, client, link, pub, left, history>>

----------------------------------------------------------------------------
(* Publishing.                                                             *)

Go(m, c) == pub' = [pub EXCEPT ![m] = c]

\* A handler wants an email sent; none is served before the start is over.
Request(m) ==
  /\ boot \notin {"connect", "start"}
  /\ pub[m] = "new"
  /\ Go(m, "ensure")
  /\ UNCHANGED <<broker, worker, consumer, client, start, left, history>>

\* ensureRabbitMQ makes a new client if there is none with an open channel.  Without
\* any client the email is dropped.
Ensure(m) ==
  /\ pub[m] = "ensure"
  /\ client' = IF client # "open" /\ up THEN "open" ELSE client
  /\ Go(m, IF client' = "none" THEN "lost" ELSE "check")
  /\ UNCHANGED <<broker, worker, consumer, start, left, history>>

\* ensureConnection reconnects a client whose connection or channel is closed.
EnsureConnection(m) ==
  /\ pub[m] = "check"
  /\ client' = IF up THEN "open" ELSE client
  /\ Go(m, IF client' = "open" THEN "publish" ELSE "lost")
  /\ UNCHANGED <<broker, worker, consumer, start, left, history>>

\* Without an error the email counts as queued once it is written.  Nobody repeats one
\* that could not be published.
Publish(m) ==
  /\ pub[m] = "publish"
  /\ IF client = "open" THEN flight' = flight \cup {m} /\ Go(m, "queued")
                        ELSE UNCHANGED flight /\ Go(m, "lost")
  /\ UNCHANGED <<up, ready, stored, worker, consumer, client, start, left, history>>

----------------------------------------------------------------------------
(* The broker.                                                             *)

\* It takes an email off the connection.
Accept(m) ==
  /\ up /\ m \in flight
  /\ flight' = flight \ {m}
  /\ ready' = Append(ready, m)
  /\ UNCHANGED <<up, stored, worker, consumer, client, start, pub, left, history>>

\* An email that the broker has taken and that was not acknowledged.
AtBroker(m) == Contains(ready, m) \/ Contains(inbox, m) \/ (holding = m /\ owed)

\* It writes an email to its disk, some time after it took it.
Store(m) ==
  /\ up /\ AtBroker(m) /\ m \notin stored
  /\ stored' = stored \cup {m}
  /\ UNCHANGED <<up, flight, ready, worker, consumer, client, start, pub, left, history>>

\* A broker that went down has lost what was not on its disk, or some of it.
Forget(i) ==
  /\ ~up /\ ready[i] \notin stored
  /\ ready' = RemoveAt(ready, i)
  /\ dropped' = dropped \cup {ready[i]}
  /\ UNCHANGED <<up, flight, stored, worker, consumer, client, start, pub, left, sent, broken>>

----------------------------------------------------------------------------
(* The worker.                                                             *)

\* The broker delivers all it has, since no limit is set on the emails delivered ahead.
Deliver ==
  /\ up /\ consumer = "live" /\ ready # <<>>
  /\ inbox' = inbox \o ready
  /\ ready' = <<>>
  /\ UNCHANGED <<up, flight, stored, holding, step, owed, consumer, client, start, pub, left,
                 history>>

\* The loop over the deliveries.
Receive ==
  /\ consumer = "live" /\ holding = Nothing /\ inbox # <<>>
  /\ holding' = Head(inbox) /\ inbox' = Tail(inbox)
  /\ step' = "send" /\ owed' = TRUE
  /\ UNCHANGED <<broker, consumer, client, start, pub, left, history>>

More(n) == IF n = 2 THEN 2 ELSE n + 1

Delivered ==
  /\ holding \notin Bad
  /\ sent' = [sent EXCEPT ![holding] = More(@)]

\* processEmailMessage.
Send ==
  /\ holding # Nothing /\ step = "send"
  /\ Delivered /\ UNCHANGED broken
  /\ step' = "ack"
  /\ UNCHANGED <<broker, inbox, holding, owed, consumer, client, start, pub, left, dropped>>

\* SendMail returns an error: the SMTP server refuses the email or cannot be reached, or
\* it has taken the email and the connection breaks before the last reply.
SendFails ==
  /\ holding # Nothing /\ step = "send"
  /\ \/ UNCHANGED <<sent, broken>>
     \/ Delivered /\ broken' = broken \cup {holding}
  /\ step' = "nack"
  /\ UNCHANGED <<broker, inbox, holding, owed, consumer, client, start, pub, left, dropped>>

\* Wrong on purpose: an email that fails is tried again at once; one that was sent is
\* given back too.
Settled_InPlace(m, ok) == IF ok THEN <<Nothing, ready>> ELSE <<m, ready>>
Settled_GivenBack(m, ok) == <<Nothing, <<m>> \o ready>>

\* What the worker holds after its answer, and the queue: an email that failed goes
\* back to its place, any number of times.
Settled(m, ok) == IF ok THEN <<Nothing, ready>> ELSE <<Nothing, <<m>> \o ready>>

\* The answer; it goes nowhere when the channel is closed.  The broker deletes an email
\* that is acknowledged.
Answer ==
  /\ holding # Nothing /\ step \in {"ack", "nack"}
  /\ LET s == IF owed THEN Settled(holding, step = "ack") ELSE <<Nothing, ready>> IN
       holding' = s[1] /\ ready' = s[2]
  /\ stored' = IF owed /\ step = "ack" THEN stored \ {holding} ELSE stored
  /\ step' = "send"
  /\ owed' = (holding' # Nothing)
  /\ UNCHANGED <<up, flight, inbox, consumer, client, start, pub, left, history>>

----------------------------------------------------------------------------
(* Failures.                                                               *)

\* Wrong on purpose: gives back an answered email, or none at all, as well.
Unanswered_All == <<holding>> \o inbox

\* What the broker has delivered and got no answer for goes back to its place.
Unanswered == (IF holding # Nothing /\ owed THEN <<holding>> ELSE <<>>) \o inbox

\* Wrong on purpose: the worker's channel acknowledges by itself.
Kept_AutoAck == ready

\* The queue and the emails are durable; what a crash takes of them is Forget.
Kept == Unanswered \o ready

\* The worker had sent m, or goes on to send it, and cannot answer any more.
Broken(goesOn) ==
  broken \cup {m \in Emails : holding = m /\ owed /\ (goesOn \/ step = "ack")}

\* The broker goes down: every connection closes, with what the broker had not taken
\* off it.  The worker finishes the email it is at; deliveries it has not taken up are
\* dropped, its loop ends, and nobody starts it again.
Down ==
  /\ up /\ left > 0
  /\ left' = left - 1
  /\ up' = FALSE
  /\ ready' = Kept /\ inbox' = <<>> /\ owed' = FALSE
  /\ flight' = {} /\ dropped' = dropped \cup flight
  /\ broken' = Broken(TRUE)
  /\ consumer' = IF consumer = "live" THEN "dead" ELSE consumer
  /\ client' = IF client = "open" THEN "closed" ELSE client
  /\ link' = FALSE
  /\ UNCHANGED <<stored, holding, step, boot, pub, sent>>

Up ==
  /\ ~up
  /\ up' = TRUE
  /\ UNCHANGED <<flight, ready, stored, worker, consumer, client, start, pub, left, history>>

\* The server stops and is started again; the broker still gets some of what was written.
Restart ==
  /\ left > 0
  /\ left' = left - 1
  /\ ready' = Kept /\ inbox' = <<>> /\ holding' = Nothing /\ step' = "send" /\ owed' = FALSE
  /\ \E f \in SUBSET flight : flight' = f /\ dropped' = dropped \cup (flight \ f)
  /\ broken' = Broken(FALSE)
  /\ consumer' = "none" /\ client' = "none" /\ link' = FALSE /\ boot' = "connect"
  /\ pub' = [m \in Emails |-> IF pub[m] \in {"ensure", "check", "publish"} THEN "lost" ELSE pub[m]]
  /\ UNCHANGED <<up, stored, sent>>

----------------------------------------------------------------------------
Booting == Connect \/ Start \/ Retry \/ StartAgain

Publishing(m) == Ensure(m) \/ EnsureConnection(m) \/ Publish(m)

Next ==
  \/ Booting
  \/ \E m \in Emails : Request(m) \/ Publishing(m)
  \/ \E m \in Emails : Accept(m) \/ Store(m)
  \/ \E i \in DOMAIN ready : Forget(i)
  \/ Deliver \/ Receive \/ Send \/ SendFails \/ Answer
  \/ Down \/ Up \/ Restart

Spec == Init /\ [][Next]_vars

\* Goroutines go on, the broker comes back, takes what it is sent and delivers, SendMail
\* returns, and an email that SMTP takes in principle does not fail for ever.
Fairness ==
  /\ WF_vars(Booting)
  /\ \A m \in Emails : WF_vars(Publishing(m))
  /\ \A m \in Emails : WF_vars(Accept(m))
  /\ WF_vars(Up) /\ WF_vars(Deliver) /\ WF_vars(Receive)
  /\ WF_vars(Send \/ SendFails) /\ WF_vars(Answer)
  /\ \A m \in Emails : SF_vars(Send /\ holding = m)

FairSpec == Spec /\ Fairness
----------------------------------------------------------------------------
(* Safety, whenever the broker goes down or the server stops.              *)

\* An email that counts as queued is on its way, with the broker or sent, unless the
\* broker never had it on its disk: then it can be lost.  One on the disk is never lost,
\* since the worker acknowledges only after it has sent.
QueuedEmailsAreKept ==
  /\ \A m \in Emails : pub[m] = "queued" =>
       m \in flight \/ AtBroker(m) \/ sent[m] > 0 \/ m \in dropped
  /\ \A m \in stored : AtBroker(m)

\* An email is in one place only, and sent once, unless it was sent and the broker got no
\* acknowledgement: the worker or its channel ended first, or SMTP's own reply was lost.
\* Then it comes again.
EmailsAreSentOnce ==
  \A m \in Emails \ broken :
    /\ sent[m] <= 1
    /\ sent[m] = 1 => ~Contains(ready \o inbox, m) /\ (holding = m => step = "ack")

(* Liveness.                                                               *)

\* The worker that went when the broker did, or did not start in time: nothing starts
\* another one.
WorkerIsGone == boot = "done" /\ consumer # "live"

\* As long as there is a worker, an email that counts as queued is sent if the broker does
\* not lose it, although others fail and come back for ever.
BadEmailsBlockNobody ==
  \A m \in Emails \ Bad :
    pub[m] = "queued" ~> sent[m] > 0 \/ m \in dropped \/ WorkerIsGone

\* A server that did not find the broker at its start gets its worker later, also when
\* the broker goes down again meanwhile.
WorkerStartsLater == boot = "retry" ~> consumer # "none" \/ boot = "connect"

=============================================================================
