-------------------------------- MODULE Hub --------------------------------
(***************************************************************************)
(* The WebSocket hub of internal/websocket: one hub goroutine (Hub.Run),   *)
(* and for every connection a read pump and a write pump.  They share the  *)
(* connection's bounded `send` channel and the hub's bounded `broadcast`   *)
(* channel; register and unregister are unbuffered, so a sender waits      *)
(* until the hub takes its request.                                        *)
(*                                                                         *)
(* A step of Run is one select case.  The fan-out loop of the broadcast    *)
(* case handles every client independently, and the pumps of one client    *)
(* do not touch the channel of another, so the loop is one atomic action:  *)
(* a pump step that falls inside the loop commutes to before or after it.  *)
(***************************************************************************)
EXTENDS Naturals, Sequences, FiniteSets

CONSTANTS
  Users,         \* user ids
  Clients,       \* connection objects (*Client); each is used once
  Owner,         \* Owner[c]: the UserID of connection c
  BroadcastCap,  \* capacity of hub.broadcast (256 in the code)
  SendCap,       \* capacity of client.send   (256 in the code)
  All            \* the empty UserID of a message for everybody

ASSUME HubAssumption ==
  /\ Owner \in [Clients -> Users]
  /\ BroadcastCap \in Nat \ {0}
  /\ SendCap \in Nat \ {0}
  /\ All \notin Users

VARIABLES
  online,     \* the keys of hub.clients
  conns,      \* conns[u]: the set hub.clients[u] ({} too when u is no key)
  broadcast,  \* the hub's inbound channel
  send,       \* send[c]: buffered content of c.send
  closed,     \* closed[c]: close(c.send) has been called
  reader,     \* control point of the goroutine that runs ServeWS and readPump
  writer,     \* control point of the goroutine that runs writePump
  link,       \* link[c]: the network connection is "open" or "broken"
  announced,  \* announced[u]: argument of the last broadcastPresence(u, _)
  dropped,    \* users whose last presence message found the channel full
  view,       \* view[c][u]: last presence of u that c's peer has been sent
  crashed     \* the goroutine that panicked, or "none"

vars == <<online, conns, broadcast, send, closed, reader, writer, link,
          announced, dropped, view, crashed>>

Notification(u) == [kind |-> "notification", to |-> u]
Event           == [kind |-> "broadcast", to |-> All]
Presence(u, on) == [kind |-> "user_presence", to |-> All, user |-> u, online |-> on]
Pong            == [kind |-> "pong"]

Message ==
  {Notification(u) : u \in Users} \cup {Event}
    \cup {Presence(u, on) : u \in Users, on \in BOOLEAN}

Reader == {"idle", "registering", "registered", "reading", "ponging", "leaving", "done"}
Writer == {"off", "running", "done"}

TypeOK ==
  /\ online \in SUBSET Users
  /\ conns \in [Users -> SUBSET Clients]
  /\ broadcast \in Seq(Message)
  /\ Len(broadcast) <= BroadcastCap
  /\ send \in [Clients -> Seq(Message \cup {Pong})]
  /\ \A c \in Clients : Len(send[c]) <= SendCap
  /\ closed \in [Clients -> BOOLEAN]
  /\ reader \in [Clients -> Reader]
  /\ writer \in [Clients -> Writer]
  /\ link \in [Clients -> {"open", "broken"}]
  /\ announced \in [Users -> BOOLEAN]
  /\ dropped \in SUBSET Users
  /\ view \in [Clients -> [Users -> {"unknown", "on", "off"}]]
  /\ crashed \in {"none", "hub", "reader"}

Init ==
  /\ online = {}
  /\ conns = [u \in Users |-> {}]
  /\ broadcast = <<>>
  /\ send = [c \in Clients |-> <<>>]
  /\ closed = [c \in Clients |-> FALSE]
  /\ reader = [c \in Clients |-> "idle"]
  /\ writer = [c \in Clients |-> "off"]
  /\ link = [c \in Clients |-> "open"]
  /\ announced = [u \in Users |-> FALSE]
  /\ dropped = {}
  /\ view = [c \in Clients |-> [u \in Users |-> "unknown"]]
  /\ crashed = "none"

Running == crashed = "none"

----------------------------------------------------------------------------
(* Helpers shared by the steps.                                            *)

\* Wrong on purpose: the send ignores the capacity; the send waits for room.
Offer_Unbounded(m) == broadcast' = Append(broadcast, m)
Offer_Blocking(m)  == Len(broadcast) < BroadcastCap /\ broadcast' = Append(broadcast, m)

\* BroadcastToUser, BroadcastToAll: the message is dropped if the channel is full.
Offer(m) ==
  broadcast' = IF Len(broadcast) < BroadcastCap THEN Append(broadcast, m)
                                                ELSE broadcast

\* broadcastPresence, with what the properties remember of it.
Announce(u, on) ==
  /\ Offer(Presence(u, on))
  /\ announced' = [announced EXCEPT ![u] = on]
  /\ dropped' = IF Len(broadcast) < BroadcastCap THEN dropped \ {u}
                                                 ELSE dropped \cup {u}

\* The client is in the inner map of its user; it is the only one there.
Registered_Unchecked(c) == TRUE
Registered(c) == c \in conns[Owner[c]]

LastConnection_AnyOf(c) == Registered(c)
LastConnection(c) == conns[Owner[c]] = {c}

\* What the messages in s say last about u; `before` if they do not mention u.
LastPresence(s, u, before) ==
  LET about == {i \in DOMAIN s : s[i].kind = "user_presence" /\ s[i].user = u}
      last  == CHOOSE i \in about : \A j \in about : j <= i
  IN  IF about = {} THEN before ELSE IF s[last].online THEN "on" ELSE "off"

----------------------------------------------------------------------------
(* The connection: ServeWS and the two pumps.                              *)

\* ServeWS upgrades the request and sends the new client to hub.register.
Connect(c) ==
  /\ Running
  /\ reader[c] = "idle"
  /\ reader' = [reader EXCEPT ![c] = "registering"]
  /\ UNCHANGED <<online, conns, broadcast, send, closed, writer, link,
                 announced, dropped, view, crashed>>

\* go client.Start(): the write pump starts, then the read pump.
Start(c) ==
  /\ Running
  /\ reader[c] = "registered"
  /\ reader' = [reader EXCEPT ![c] = "reading"]
  /\ writer' = [writer EXCEPT ![c] = "running"]
  /\ UNCHANGED <<online, conns, broadcast, send, closed, link, announced,
                 dropped, view, crashed>>

\* The peer goes away or stops answering pings.
PeerGone(c) ==
  /\ Running
  /\ reader[c] \in Reader \ {"idle", "done"}
  /\ link[c] = "open"
  /\ link' = [link EXCEPT ![c] = "broken"]
  /\ UNCHANGED <<online, conns, broadcast, send, closed, reader, writer,
                 announced, dropped, view, crashed>>

\* Wrong on purpose: the deferred function closes the connection only.
ReadError_NoUnregister(c) ==
  /\ Running
  /\ reader[c] = "reading"
  /\ reader' = [reader EXCEPT ![c] = "done"]
  /\ link' = [link EXCEPT ![c] = "broken"]
  /\ UNCHANGED <<online, conns, broadcast, send, closed, writer, announced,
                 dropped, view, crashed>>

\* ReadMessage fails and the deferred function blocks on hub.unregister.  The
\* failure may also be a close frame or an oversized message on an open link.
ReadError(c) ==
  /\ Running
  /\ reader[c] = "reading"
  /\ reader' = [reader EXCEPT ![c] = "leaving"]
  /\ UNCHANGED <<online, conns, broadcast, send, closed, writer, link,
                 announced, dropped, view, crashed>>

\* The peer sends {"type": "ping"}.
ReadPing(c) ==
  /\ Running
  /\ reader[c] = "reading"
  /\ link[c] = "open"
  /\ reader' = [reader EXCEPT ![c] = "ponging"]
  /\ UNCHANGED <<online, conns, broadcast, send, closed, writer, link,
                 announced, dropped, view, crashed>>

\* c.send <- pong: a blocking send, and a panic once the channel is closed.
SendPong(c) ==
  /\ Running
  /\ reader[c] = "ponging"
  /\ \/ /\ closed[c]
        /\ crashed' = "reader"
        /\ UNCHANGED <<send, reader>>
     \/ /\ ~closed[c]
        /\ Len(send[c]) < SendCap
        /\ send' = [send EXCEPT ![c] = Append(@, Pong)]
        /\ reader' = [reader EXCEPT ![c] = "reading"]
        /\ UNCHANGED crashed
  /\ UNCHANGED <<online, conns, broadcast, closed, writer, link, announced,
                 dropped, view>>

\* writePump receives a message and drains what is queued behind it into one
\* frame.  On a broken link the frame may still be accepted locally and lost.
WriteBatch(c) ==
  /\ Running
  /\ writer[c] = "running"
  /\ send[c] # <<>>
  /\ send' = [send EXCEPT ![c] = <<>>]
  /\ view' = IF link[c] = "open"
               THEN [view EXCEPT ![c] =
                       [u \in Users |-> LastPresence(send[c], u, view[c][u])]]
               ELSE view
  /\ UNCHANGED <<online, conns, broadcast, closed, reader, writer, link,
                 announced, dropped, crashed>>

\* A write (of a ping, of the first message or of the whole batch) fails: the
\* pump returns and closes the connection, but does not unregister the client.
WriteError(c) ==
  /\ Running
  /\ writer[c] = "running"
  /\ link[c] = "broken"
  /\ writer' = [writer EXCEPT ![c] = "done"]
  /\ \E rest \in {send[c], <<>>} \cup (IF send[c] = <<>> THEN {} ELSE {Tail(send[c])}) :
       send' = [send EXCEPT ![c] = rest]
  /\ UNCHANGED <<online, conns, broadcast, closed, reader, link, announced,
                 dropped, view, crashed>>

\* The drained channel turns out to be closed: writePump closes the connection.
WriterSeesClose(c) ==
  /\ Running
  /\ writer[c] = "running"
  /\ closed[c]
  /\ send[c] = <<>>
  /\ writer' = [writer EXCEPT ![c] = "done"]
  /\ link' = [link EXCEPT ![c] = "broken"]
  /\ UNCHANGED <<online, conns, broadcast, send, closed, reader, announced,
                 dropped, view, crashed>>

----------------------------------------------------------------------------
(* The callers of the hub.                                                 *)

\* A service or handler notifies one user, or everybody.
Notify ==
  /\ Running
  /\ \E m \in {Notification(u) : u \in Users} \cup {Event} : Offer(m)
  /\ UNCHANGED <<online, conns, send, closed, reader, writer, link, announced,
                 dropped, view, crashed>>

----------------------------------------------------------------------------
(* The hub goroutine.                                                      *)

HubRegister(c) ==
  LET u == Owner[c] IN
  /\ Running
  /\ reader[c] = "registering"
  /\ reader' = [reader EXCEPT ![c] = "registered"]
  /\ online' = online \cup {u}
  /\ conns' = [conns EXCEPT ![u] = @ \cup {c}]
  /\ IF conns[u] = {} THEN Announce(u, TRUE)
                      ELSE UNCHANGED <<broadcast, announced, dropped>>
  /\ UNCHANGED <<send, closed, writer, link, view, crashed>>

\* The unregister case, then the conn.Close() that ends readPump.
HubUnregister(c) ==
  LET u == Owner[c] IN
  /\ Running
  /\ reader[c] = "leaving"
  /\ reader' = [reader EXCEPT ![c] = "done"]
  /\ link' = [link EXCEPT ![c] = "broken"]
  /\ conns' = [conns EXCEPT ![u] = @ \ {c}]
  /\ IF Registered(c)
       THEN /\ closed' = [closed EXCEPT ![c] = TRUE]
            /\ crashed' = IF closed[c] THEN "hub" ELSE crashed
       ELSE UNCHANGED <<closed, crashed>>
  /\ IF LastConnection(c)
       THEN /\ online' = online \ {u}
            /\ Announce(u, FALSE)
       ELSE UNCHANGED <<online, broadcast, announced, dropped>>
  /\ UNCHANGED <<send, writer, view>>

\* The clients a message is meant for, those whose buffer has room for it, and
\* the slow ones that lose their registration instead.
Targets_Everyone(m) == UNION {conns[u] : u \in Users}
Targets(m) == IF m.to = All THEN UNION {conns[u] : u \in Users} ELSE conns[m.to]
Reached(m) == {c \in Targets(m) : Len(send[c]) < SendCap}

Evicted_Skip(m) == {}
Evicted(m) == Targets(m) \ Reached(m)

\* The select in the loop body.  An evicted client loses its channel and its
\* place in the inner map; the key of its user stays in the outer map and no
\* presence change is announced.  A closed channel in the map would panic.
FanOut(m) ==
  /\ send' = [c \in Clients |-> IF c \in Reached(m) THEN Append(send[c], m) ELSE send[c]]
  /\ closed' = [c \in Clients |-> closed[c] \/ c \in Evicted(m)]
  /\ conns' = [u \in Users |-> conns[u] \ Evicted(m)]
  /\ crashed' = IF \E c \in Targets(m) : closed[c] THEN "hub" ELSE crashed

HubBroadcast ==
  /\ Running
  /\ broadcast # <<>>
  /\ broadcast' = Tail(broadcast)
  /\ FanOut(Head(broadcast))
  /\ UNCHANGED <<online, reader, writer, link, announced, dropped, view>>

----------------------------------------------------------------------------
Pumps(c) ==
  \/ Connect(c) \/ Start(c) \/ PeerGone(c) \/ ReadError(c) \/ ReadPing(c)
  \/ SendPong(c) \/ WriteBatch(c) \/ WriteError(c) \/ WriterSeesClose(c)

Run ==
  \/ \E c \in Clients : HubRegister(c) \/ HubUnregister(c)
  \/ HubBroadcast

Next == Run \/ Notify \/ \E c \in Clients : Pumps(c)

Spec == Init /\ [][Next]_vars

\* Go's select chooses among the ready cases at random and waiting senders are
\* served in order, so a case that stays ready is eventually taken; goroutines
\* that can run do.  A broken link fails the next read, and the next ping tick
\* of the write pump.  Peers and callers of the hub promise nothing.
Fairness ==
  /\ WF_vars(HubBroadcast)
  /\ \A c \in Clients :
       /\ WF_vars(HubRegister(c))
       /\ WF_vars(HubUnregister(c))
       /\ WF_vars(Start(c))
       /\ WF_vars(SendPong(c))
       /\ WF_vars(WriteBatch(c))
       /\ WF_vars(WriterSeesClose(c))
       /\ WF_vars(link[c] = "broken" /\ ReadError(c))
       /\ WF_vars(WriteError(c))

FairSpec == Spec /\ Fairness

----------------------------------------------------------------------------
(* Safety.                                                                 *)

\* The hub goroutine never sends on a closed channel and never closes one twice,
\* whatever the order of evictions (hub.go, broadcast case) and disconnects
\* (hub.go, unregister case): either would end the process.
HubNeverPanics == crashed # "hub"

\* The user list the admin page loads (GetOnlineUserIDs) and the presence events
\* that were announced afterwards (broadcastPresence) tell the same story, and
\* nobody with a registered connection is missing from either.
OnlineListMatchesAnnouncements ==
  /\ online = {u \in Users : announced[u]}
  /\ \A u \in Users : conns[u] # {} => u \in online

\* A notification for one user is never queued on the connection of another.
NotificationsStayPrivate ==
  \A c \in Clients : \A i \in DOMAIN send[c] :
    send[c][i].kind = "notification" => send[c][i].to = Owner[c]

\* Presence reaches a registered client in the order it was announced: once the
\* messages under way are delivered, what its peer was told last about a user
\* is what the hub announced last, unless that very message was dropped because
\* the broadcast channel was full.
PresenceConverges ==
  \A c \in Clients, u \in Users :
    Registered(c) /\ link[c] = "open" /\ u \notin dropped =>
      LastPresence(send[c] \o broadcast, u, view[c][u]) \in
        {"unknown", IF announced[u] THEN "on" ELSE "off"}

\* A ping is answered with a pong (readPump): it never ends the process.
PingsAreAnswered == crashed # "reader"

----------------------------------------------------------------------------
(* Liveness, as long as the process lives.                                 *)

Crashed == ~Running

\* A pong waits for room in a buffer that no write pump drains any more.
PongStuck(c) == reader[c] = "ponging" /\ writer[c] = "done"

\* The hub serves every connection request: neither a client that is too slow
\* nor its own announcement into a full broadcast channel ever makes it wait.
RegistrationIsServed ==
  \A c \in Clients : reader[c] = "registering" ~> (Registered(c) \/ Crashed)

\* A connection whose link broke leaves the registry, unless its read pump hangs
\* on a pong that nobody will drain.
BrokenLinkIsUnregistered ==
  \A c \in Clients :
    (link[c] = "broken" /\ Registered(c)) ~> (~Registered(c) \/ PongStuck(c) \/ Crashed)
=============================================================================
