----------------------------- MODULE HubProofs -----------------------------
(***************************************************************************)
(* Proofs about Hub, for any users, connections and channel capacities.    *)
(***************************************************************************)
EXTENDS Hub, WellFoundedInduction, TLAPS

\* A registered connection belongs to the user it is filed under, its channel
\* is open and its goroutine is between ServeWS and the end of readPump.
RegistryOK ==
  \A u \in Users : \A c \in conns[u] :
    /\ Owner[c] = u
    /\ ~closed[c]
    /\ reader[c] \in {"registered", "reading", "ponging", "leaving"}

\* A connection the hub has not seen yet has an open channel.
UnseenOpen ==
  \A c \in Clients : reader[c] \in {"idle", "registering"} => ~closed[c]

SafeInv ==
  /\ TypeOK
  /\ RegistryOK
  /\ UnseenOpen
  /\ HubNeverPanics
  /\ OnlineListMatchesAnnouncements

----------------------------------------------------------------------------
(* Facts about the helpers.                                                *)

\* The three ways of building a broadcast message give a Message.
LEMMA MessageTyping ==
  /\ \A u \in Users : Notification(u) \in Message
  /\ Event \in Message
  /\ \A u \in Users, on \in BOOLEAN : Presence(u, on) \in Message
BY DEF Message

\* Offering a message keeps the broadcast channel typed and within its capacity.
LEMMA OfferTyping ==
  ASSUME NEW m \in Message, broadcast \in Seq(Message),
         Len(broadcast) <= BroadcastCap, Offer(m)
  PROVE  broadcast' \in Seq(Message) /\ Len(broadcast') <= BroadcastCap
<1>1. CASE Len(broadcast) < BroadcastCap
  BY <1>1, HubAssumption DEF Offer
<1>2. CASE ~(Len(broadcast) < BroadcastCap)
  BY <1>2 DEF Offer
<1> QED BY <1>1, <1>2

\* A presence announcement keeps the variables it writes typed.
LEMMA AnnounceTyping ==
  ASSUME TypeOK, NEW u \in Users, NEW on \in BOOLEAN, Announce(u, on)
  PROVE  /\ broadcast' \in Seq(Message) /\ Len(broadcast') <= BroadcastCap
         /\ announced' \in [Users -> BOOLEAN]
         /\ dropped' \in SUBSET Users
<1>1. Presence(u, on) \in Message
  BY MessageTyping
<1>2. Offer(Presence(u, on))
  BY DEF Announce
<1>3. broadcast' \in Seq(Message) /\ Len(broadcast') <= BroadcastCap
  BY <1>1, <1>2, OfferTyping DEF TypeOK
<1> QED BY <1>3 DEF TypeOK, Announce

\* Taking the first element of a channel keeps it typed and within its capacity.
LEMMA TailTyping ==
  ASSUME NEW S, NEW q \in Seq(S), q # <<>>, NEW cap \in Nat, Len(q) <= cap
  PROVE  Tail(q) \in Seq(S) /\ Len(Tail(q)) <= cap
OBVIOUS

\* What LastPresence returns is a value a view can hold.
LEMMA LastPresenceTyping ==
  ASSUME NEW s, NEW u, NEW before \in {"unknown", "on", "off"}
  PROVE  LastPresence(s, u, before) \in {"unknown", "on", "off"}
BY DEF LastPresence

----------------------------------------------------------------------------
(* Type correctness, one step per action.                                  *)

LEMMA InitType == Init => TypeOK
BY HubAssumption DEF Init, TypeOK, Reader, Writer

LEMMA PumpsType ==
  ASSUME TypeOK, NEW c \in Clients, Pumps(c)
  PROVE  TypeOK'
<1> USE HubAssumption
<1>1. CASE Connect(c)
  BY <1>1 DEF TypeOK, Connect, Reader
<1>2. CASE Start(c)
  BY <1>2 DEF TypeOK, Start, Reader, Writer
<1>3. CASE PeerGone(c)
  BY <1>3 DEF TypeOK, PeerGone
<1>4. CASE ReadError(c)
  BY <1>4 DEF TypeOK, ReadError, Reader
<1>5. CASE ReadPing(c)
  BY <1>5 DEF TypeOK, ReadPing, Reader
<1>6. CASE SendPong(c)
  <2>1. CASE closed[c]
    BY <1>6, <2>1 DEF TypeOK, SendPong
  <2>2. CASE ~closed[c]
    <3>1. Append(send[c], Pong) \in Seq(Message \cup {Pong})
      BY DEF TypeOK
    <3>2. /\ send' = [send EXCEPT ![c] = Append(send[c], Pong)]
          /\ Len(send[c]) < SendCap
      BY <1>6, <2>2 DEF SendPong
    <3>3. Len(Append(send[c], Pong)) = Len(send[c]) + 1 /\ Len(send[c]) \in Nat
      BY DEF TypeOK
    <3>4. /\ send' \in [Clients -> Seq(Message \cup {Pong})]
          /\ \A d \in Clients : Len(send'[d]) <= SendCap
      BY <3>1, <3>2, <3>3 DEF TypeOK
    <3>5. reader' = [reader EXCEPT ![c] = "reading"]
      BY <1>6, <2>2 DEF SendPong
    <3>6. reader' \in [Clients -> Reader]
      BY <3>5 DEF TypeOK, Reader
    <3>7. UNCHANGED <<online, conns, broadcast, closed, writer, link,
                      announced, dropped, view, crashed>>
      BY <1>6, <2>2 DEF SendPong
    <3> QED BY <3>4, <3>6, <3>7 DEF TypeOK
  <2> QED BY <2>1, <2>2
<1>7. CASE WriteBatch(c)
  <2>1. view' \in [Clients -> [Users -> {"unknown", "on", "off"}]]
    <3>1. CASE link[c] = "open"
      <4> DEFINE seen == [u \in Users |-> LastPresence(send[c], u, view[c][u])]
      <4>1. ASSUME NEW u \in Users
            PROVE  LastPresence(send[c], u, view[c][u]) \in {"unknown", "on", "off"}
        <5>1. view[c][u] \in {"unknown", "on", "off"}
          BY DEF TypeOK
        <5> QED BY <5>1, LastPresenceTyping
      <4>2. seen \in [Users -> {"unknown", "on", "off"}]
        BY <4>1
      <4>3. view' = [view EXCEPT ![c] = seen]
        BY <1>7, <3>1 DEF WriteBatch
      <4> HIDE DEF seen
      <4> QED BY <4>2, <4>3 DEF TypeOK
    <3>2. CASE link[c] # "open"
      BY <1>7, <3>2 DEF TypeOK, WriteBatch
    <3> QED BY <3>1, <3>2
  <2>2. /\ send' \in [Clients -> Seq(Message \cup {Pong})]
        /\ \A d \in Clients : Len(send'[d]) <= SendCap
    BY <1>7 DEF TypeOK, WriteBatch
  <2> QED BY <1>7, <2>1, <2>2 DEF TypeOK, WriteBatch
<1>8. CASE WriteError(c)
  <2>1. PICK rest \in {send[c], <<>>} \cup (IF send[c] = <<>> THEN {} ELSE {Tail(send[c])}) :
          send' = [send EXCEPT ![c] = rest]
    BY <1>8 DEF WriteError
  <2>2. rest \in Seq(Message \cup {Pong}) /\ Len(rest) <= SendCap
    <3>1. send[c] \in Seq(Message \cup {Pong}) /\ Len(send[c]) <= SendCap
      BY DEF TypeOK
    <3>2. <<>> \in Seq(Message \cup {Pong}) /\ Len(<<>>) <= SendCap
      OBVIOUS
    <3>3. CASE rest \in {send[c], <<>>}
      BY <3>1, <3>2, <3>3
    <3>4. CASE send[c] # <<>> /\ rest = Tail(send[c])
      BY <3>1, <3>4, TailTyping
    <3> QED BY <2>1, <3>3, <3>4
  <2> QED BY <1>8, <2>1, <2>2 DEF TypeOK, WriteError, Writer
<1>9. CASE WriterSeesClose(c)
  BY <1>9 DEF TypeOK, WriterSeesClose, Writer
<1> QED BY <1>1, <1>2, <1>3, <1>4, <1>5, <1>6, <1>7, <1>8, <1>9 DEF Pumps

LEMMA RegisterType ==
  ASSUME TypeOK, NEW c \in Clients, HubRegister(c)
  PROVE  TypeOK'
<1> USE HubAssumption
<1> DEFINE u == Owner[c]
<1>1. u \in Users
  OBVIOUS
<1>2. /\ broadcast' \in Seq(Message) /\ Len(broadcast') <= BroadcastCap
      /\ announced' \in [Users -> BOOLEAN]
      /\ dropped' \in SUBSET Users
  <2>1. CASE conns[u] = {}
    <3>1. Announce(u, TRUE)
      BY <2>1 DEF HubRegister
    <3> QED BY <1>1, <3>1, AnnounceTyping
  <2>2. CASE conns[u] # {}
    BY <2>2 DEF TypeOK, HubRegister
  <2> QED BY <2>1, <2>2
<1> QED BY <1>1, <1>2 DEF TypeOK, HubRegister, Reader

LEMMA UnregisterType ==
  ASSUME TypeOK, NEW c \in Clients, HubUnregister(c)
  PROVE  TypeOK'
<1> USE HubAssumption
<1> DEFINE u == Owner[c]
<1>1. u \in Users
  OBVIOUS
<1>2. /\ broadcast' \in Seq(Message) /\ Len(broadcast') <= BroadcastCap
      /\ announced' \in [Users -> BOOLEAN]
      /\ dropped' \in SUBSET Users
      /\ online' \in SUBSET Users
  <2>1. CASE conns[u] = {c}
    <3>1. Announce(u, FALSE) /\ online' = online \ {u}
      BY <2>1 DEF HubUnregister, Registered, LastConnection
    <3>2. online' \in SUBSET Users
      BY <3>1 DEF TypeOK
    <3> HIDE DEF u
    <3> QED BY <1>1, <3>1, <3>2, AnnounceTyping
  <2>2. CASE conns[u] # {c}
    BY <2>2 DEF TypeOK, HubUnregister, Registered, LastConnection
  <2> QED BY <2>1, <2>2
<1>3. closed' \in [Clients -> BOOLEAN] /\ crashed' \in {"none", "hub", "reader"}
  BY DEF TypeOK, HubUnregister, Registered, LastConnection
<1> QED BY <1>1, <1>2, <1>3 DEF TypeOK, HubUnregister, Registered, LastConnection, Reader

LEMMA BroadcastType ==
  ASSUME TypeOK, HubBroadcast
  PROVE  TypeOK'
<1> USE HubAssumption
<1> DEFINE m == Head(broadcast)
<1>1. m \in Message /\ broadcast' \in Seq(Message) /\ Len(broadcast') <= BroadcastCap
  BY DEF TypeOK, HubBroadcast, FanOut
<1>2. /\ send' \in [Clients -> Seq(Message \cup {Pong})]
      /\ \A c \in Clients : Len(send'[c]) <= SendCap
  <2>1. send' = [c \in Clients |-> IF c \in Reached(m)
                                     THEN Append(send[c], m) ELSE send[c]]
    BY DEF HubBroadcast, FanOut
  <2>2. ASSUME NEW c \in Clients
        PROVE  send'[c] \in Seq(Message \cup {Pong}) /\ Len(send'[c]) <= SendCap
    <3>1. CASE c \in Reached(m)
      <4>1. Len(send[c]) < SendCap
        BY <3>1 DEF Reached, TypeOK
      <4> QED BY <1>1, <2>1, <3>1, <4>1 DEF TypeOK
    <3>2. CASE ~(c \in Reached(m))
      BY <2>1, <3>2 DEF TypeOK
    <3> QED BY <3>1, <3>2
  <2> QED BY <2>1, <2>2
<1> QED BY <1>1, <1>2 DEF TypeOK, HubBroadcast, FanOut

LEMMA NotifyType ==
  ASSUME TypeOK, Notify
  PROVE  TypeOK'
<1>1. PICK m \in {Notification(u) : u \in Users} \cup {Event} : Offer(m)
  BY DEF Notify
<1>2. broadcast' \in Seq(Message) /\ Len(broadcast') <= BroadcastCap
  BY <1>1, MessageTyping, OfferTyping DEF TypeOK
<1> QED BY <1>2 DEF TypeOK, Notify

LEMMA NextType == TypeOK /\ [Next]_vars => TypeOK'
<1> SUFFICES ASSUME TypeOK, [Next]_vars
             PROVE  TypeOK'
  OBVIOUS
<1>1. CASE UNCHANGED vars
  BY <1>1 DEF vars, TypeOK
<1> QED
  BY <1>1, PumpsType, RegisterType, UnregisterType, BroadcastType, NotifyType
  DEF Next, Run

\* Every state of the hub and of its connections is well typed; in particular
\* neither the broadcast channel nor a send channel ever exceeds its capacity.
THEOREM TypeCorrect == Spec => []TypeOK
BY InitType, NextType, PTL DEF Spec

----------------------------------------------------------------------------
(* The registry invariant.                                                 *)

\* A pump step changes no registration, closes no channel and announces nothing,
\* and the read pump of a registered connection stays between Start and the
\* unregister request.
LEMMA PumpsSafe ==
  ASSUME SafeInv, NEW c \in Clients, Pumps(c)
  PROVE  RegistryOK' /\ UnseenOpen' /\ HubNeverPanics' /\ OnlineListMatchesAnnouncements'
<1>1. UNCHANGED <<online, conns, closed, announced>> /\ crashed' # "hub"
  BY DEF Pumps, Connect, Start, PeerGone, ReadError, ReadPing, SendPong, WriteBatch,
         WriteError, WriterSeesClose, SafeInv, HubNeverPanics
<1>2. \A d \in Clients :
        \/ reader'[d] = reader[d]
        \/ reader[d] = "idle" /\ reader'[d] = "registering"
        \/ /\ reader[d] \in {"registered", "reading", "ponging"}
           /\ reader'[d] \in {"reading", "ponging", "leaving"}
  <2>1. \/ UNCHANGED reader
        \/ reader[c] = "idle" /\ reader' = [reader EXCEPT ![c] = "registering"]
        \/ /\ reader[c] \in {"registered", "reading", "ponging"}
           /\ \E r \in {"reading", "ponging", "leaving"} : reader' = [reader EXCEPT ![c] = r]
    BY DEF Pumps, Connect, Start, PeerGone, ReadError, ReadPing, SendPong,
           WriteBatch, WriteError, WriterSeesClose
  <2> QED BY <2>1 DEF SafeInv, TypeOK
<1>3. RegistryOK'
  BY <1>1, <1>2 DEF SafeInv, RegistryOK, TypeOK
<1>4. UnseenOpen'
  BY <1>1, <1>2 DEF SafeInv, UnseenOpen
<1>5. OnlineListMatchesAnnouncements'
  BY <1>1 DEF SafeInv, OnlineListMatchesAnnouncements
<1> QED BY <1>1, <1>3, <1>4, <1>5 DEF HubNeverPanics

LEMMA RegisterSafe ==
  ASSUME SafeInv, NEW c \in Clients, HubRegister(c)
  PROVE  RegistryOK' /\ UnseenOpen' /\ HubNeverPanics' /\ OnlineListMatchesAnnouncements'
<1> USE HubAssumption
<1> DEFINE u == Owner[c]
<1>1. /\ u \in Users
      /\ online' = online \cup {u}
      /\ conns' = [conns EXCEPT ![u] = @ \cup {c}]
      /\ reader[c] = "registering"
      /\ reader' = [reader EXCEPT ![c] = "registered"]
      /\ UNCHANGED <<closed, crashed>>
  BY DEF HubRegister
<1>2. ~closed[c]
  BY <1>1 DEF SafeInv, UnseenOpen
<1>3. RegistryOK'
  BY <1>1, <1>2 DEF SafeInv, RegistryOK, TypeOK
<1>4. UnseenOpen'
  BY <1>1 DEF SafeInv, UnseenOpen, TypeOK
<1>5. announced' = [announced EXCEPT ![u] = TRUE]
  <2>1. CASE conns[u] = {}
    BY <2>1 DEF HubRegister, Announce
  <2>2. CASE conns[u] # {}
    <3>1. announced[u] /\ UNCHANGED announced
      BY <1>1, <2>2 DEF HubRegister, SafeInv, OnlineListMatchesAnnouncements
    <3> QED BY <1>1, <3>1 DEF SafeInv, TypeOK
  <2> QED BY <2>1, <2>2
<1>6. OnlineListMatchesAnnouncements'
  <2>1. online' = {v \in Users : announced'[v]}
    BY <1>1, <1>5 DEF SafeInv, OnlineListMatchesAnnouncements, TypeOK
  <2>2. \A v \in Users : conns'[v] # {} => v \in online'
    BY <1>1 DEF SafeInv, OnlineListMatchesAnnouncements, TypeOK
  <2> QED BY <2>1, <2>2 DEF OnlineListMatchesAnnouncements
<1> QED BY <1>1, <1>3, <1>4, <1>6 DEF SafeInv, HubNeverPanics

LEMMA UnregisterSafe ==
  ASSUME SafeInv, NEW c \in Clients, HubUnregister(c)
  PROVE  RegistryOK' /\ UnseenOpen' /\ HubNeverPanics' /\ OnlineListMatchesAnnouncements'
<1> USE HubAssumption
<1> DEFINE u == Owner[c]
<1>1. /\ u \in Users
      /\ conns' = [conns EXCEPT ![u] = @ \ {c}]
      /\ reader[c] = "leaving"
      /\ reader' = [reader EXCEPT ![c] = "done"]
      /\ closed' \in {closed, [closed EXCEPT ![c] = TRUE]}
  BY DEF HubUnregister, Registered, LastConnection
<1>2. \A v \in Users : c \notin conns'[v]
  BY <1>1 DEF SafeInv, RegistryOK, TypeOK
<1>3. RegistryOK'
  <2>1. ASSUME NEW v \in Users, NEW d \in conns'[v]
        PROVE  d \in conns[v] /\ d # c /\ d \in Clients
    BY <1>1, <1>2, <2>1 DEF SafeInv, TypeOK
  <2> QED BY <1>1, <2>1 DEF SafeInv, RegistryOK, TypeOK
<1>4. UnseenOpen'
  BY <1>1 DEF SafeInv, UnseenOpen, TypeOK
<1>5. HubNeverPanics'
  BY <1>1 DEF HubUnregister, Registered, LastConnection, SafeInv, RegistryOK, HubNeverPanics
<1>6. OnlineListMatchesAnnouncements'
  <2>1. CASE conns[u] = {c}
    <3>1. online' = online \ {u} /\ announced' = [announced EXCEPT ![u] = FALSE]
      BY <2>1 DEF HubUnregister, Registered, LastConnection, Announce
    <3>2. conns'[u] = {} /\ \A v \in Users : conns'[v] \subseteq conns[v]
      BY <1>1, <2>1 DEF SafeInv, TypeOK
    <3>3. online' = {v \in Users : announced'[v]}
      BY <1>1, <3>1 DEF SafeInv, OnlineListMatchesAnnouncements, TypeOK
    <3>4. ASSUME NEW v \in Users, conns'[v] # {}
          PROVE  v \in online'
      <4>1. v # u /\ conns[v] # {}
        BY <3>2, <3>4
      <4> QED BY <3>1, <4>1 DEF SafeInv, OnlineListMatchesAnnouncements
    <3> QED BY <3>3, <3>4 DEF OnlineListMatchesAnnouncements
  <2>2. CASE conns[u] # {c}
    <3>1. UNCHANGED <<online, announced>>
      BY <2>2 DEF HubUnregister, Registered, LastConnection
    <3>2. \A v \in Users : conns'[v] \subseteq conns[v]
      BY <1>1 DEF SafeInv, TypeOK
    <3> QED BY <3>1, <3>2 DEF SafeInv, OnlineListMatchesAnnouncements
  <2> QED BY <2>1, <2>2
<1> QED BY <1>3, <1>4, <1>5, <1>6

LEMMA BroadcastSafe ==
  ASSUME SafeInv, HubBroadcast
  PROVE  RegistryOK' /\ UnseenOpen' /\ HubNeverPanics' /\ OnlineListMatchesAnnouncements'
<1> DEFINE m == Head(broadcast)
<1>1. m \in Message
  BY DEF SafeInv, TypeOK, HubBroadcast, FanOut
<1>2. \A c \in Targets(m) : \E u \in Users : c \in conns[u]
  BY <1>1 DEF Targets, Message, Notification, Event, Presence
<1>3. /\ conns' = [u \in Users |-> conns[u] \ Evicted(m)]
      /\ closed' = [c \in Clients |-> closed[c] \/ c \in Evicted(m)]
      /\ crashed' = IF \E c \in Targets(m) : closed[c] THEN "hub" ELSE crashed
      /\ UNCHANGED <<online, announced, reader>>
  BY DEF HubBroadcast, FanOut
<1> HIDE DEF m
<1>4. Evicted(m) \subseteq Targets(m)
  BY DEF Evicted
<1>5. RegistryOK'
  <2>1. ASSUME NEW u \in Users, NEW c \in conns'[u]
        PROVE  c \in conns[u] /\ c \notin Evicted(m) /\ c \in Clients
    BY <1>3, <2>1 DEF SafeInv, TypeOK
  <2> QED BY <1>3, <2>1 DEF SafeInv, RegistryOK
<1>6. UnseenOpen'
  <2>1. \A c \in Evicted(m) : reader[c] \notin {"idle", "registering"}
    BY <1>2, <1>4 DEF SafeInv, RegistryOK
  <2> QED BY <1>3, <2>1 DEF SafeInv, UnseenOpen
<1>7. HubNeverPanics'
  BY <1>2, <1>3 DEF SafeInv, RegistryOK, HubNeverPanics
<1>8. OnlineListMatchesAnnouncements'
  <2>1. \A u \in Users : conns'[u] \subseteq conns[u]
    BY <1>3
  <2> QED BY <1>3, <2>1 DEF SafeInv, OnlineListMatchesAnnouncements
<1> QED BY <1>5, <1>6, <1>7, <1>8

LEMMA SafeInvInit == Init => SafeInv
BY InitType
DEF Init, SafeInv, RegistryOK, UnseenOpen, HubNeverPanics, OnlineListMatchesAnnouncements

LEMMA SafeInvNext == SafeInv /\ [Next]_vars => SafeInv'
<1> SUFFICES ASSUME SafeInv, [Next]_vars
             PROVE  SafeInv'
  OBVIOUS
<1>1. TypeOK'
  BY NextType DEF SafeInv
<1>2. CASE UNCHANGED <<online, conns, closed, reader, announced, crashed>>
  BY <1>1, <1>2
  DEF SafeInv, RegistryOK, UnseenOpen, HubNeverPanics, OnlineListMatchesAnnouncements
<1>3. CASE \E c \in Clients : Pumps(c)
  BY <1>1, <1>3, PumpsSafe DEF SafeInv
<1>4. CASE Run
  BY <1>1, <1>4, RegisterSafe, UnregisterSafe, BroadcastSafe DEF Run, SafeInv
<1>5. CASE Notify
  BY <1>2, <1>5 DEF Notify
<1>6. CASE UNCHANGED vars
  BY <1>2, <1>6 DEF vars
<1> QED BY <1>3, <1>4, <1>5, <1>6 DEF Next

LEMMA SafeInvHolds == Spec => []SafeInv
BY SafeInvInit, SafeInvNext, PTL DEF Spec

\* The hub goroutine never sends on a closed channel and never closes a channel
\* twice, however evictions, disconnects and registrations interleave.
THEOREM HubSurvives == Spec => []HubNeverPanics
BY SafeInvHolds, PTL DEF SafeInv

\* The online list and the announced presence always agree, and cover everybody
\* who has a registered connection.
THEOREM OnlineListAgrees == Spec => []OnlineListMatchesAnnouncements
BY SafeInvHolds, PTL DEF SafeInv
----------------------------------------------------------------------------
(* A notification stays on the connections of its user.                    *)

\* A message whose addressee matters only on the connections of that addressee.
Proper(c, m) == m.kind = "notification" => m.to = Owner[c]

LEMMA PrivateByProper ==
  NotificationsStayPrivate <=>
    \A c \in Clients : \A i \in DOMAIN send[c] : Proper(c, send[c][i])
BY DEF NotificationsStayPrivate, Proper

\* What is appended to a proper queue has to be proper itself.
LEMMA ProperAppend ==
  ASSUME NEW S, NEW s \in Seq(S), NEW m \in S, NEW c, Proper(c, m),
         \A i \in DOMAIN s : Proper(c, s[i])
  PROVE  \A i \in DOMAIN Append(s, m) : Proper(c, Append(s, m)[i])
<1>1. TAKE i \in DOMAIN Append(s, m)
<1>2. i \in 1..(Len(s) + 1)
  BY <1>1
<1>3. CASE i = Len(s) + 1
  BY <1>3
<1>4. CASE i # Len(s) + 1
  <2>1. i \in DOMAIN s /\ Append(s, m)[i] = s[i]
    BY <1>2, <1>4
  <2> QED BY <2>1
<1> QED BY <1>3, <1>4

\* What is left of a proper queue behind its first message is proper.
LEMMA ProperTail ==
  ASSUME NEW S, NEW s \in Seq(S), s # <<>>, NEW c,
         \A i \in DOMAIN s : Proper(c, s[i])
  PROVE  \A i \in DOMAIN Tail(s) : Proper(c, Tail(s)[i])
<1>1. TAKE i \in DOMAIN Tail(s)
<1>2. i + 1 \in DOMAIN s /\ Tail(s)[i] = s[i + 1]
  BY <1>1
<1> QED BY <1>2

\* The pumps queue nothing but pongs.
LEMMA PumpsPrivate ==
  ASSUME SafeInv, NotificationsStayPrivate, NEW c \in Clients, Pumps(c)
  PROVE  NotificationsStayPrivate'
<1>1. \A d \in Clients : \A i \in DOMAIN send[d] : Proper(d, send[d][i])
  BY PrivateByProper
<1>2. send[c] \in Seq(Message \cup {Pong}) /\ send \in [Clients -> Seq(Message \cup {Pong})]
  BY DEF SafeInv, TypeOK
<1>3. \/ UNCHANGED send
      \/ send' = [send EXCEPT ![c] = Append(send[c], Pong)]
      \/ send' = [send EXCEPT ![c] = <<>>]
      \/ send[c] # <<>> /\ send' = [send EXCEPT ![c] = Tail(send[c])]
  <2>1. CASE SendPong(c)
    BY <2>1 DEF SendPong
  <2>2. CASE WriteBatch(c)
    BY <2>2 DEF WriteBatch
  <2>3. CASE WriteError(c)
    <3>1. PICK rest \in {send[c], <<>>} \cup (IF send[c] = <<>> THEN {} ELSE {Tail(send[c])}) :
            send' = [send EXCEPT ![c] = rest]
      BY <2>3 DEF WriteError
    <3> QED BY <1>2, <3>1
  <2> QED BY <2>1, <2>2, <2>3
      DEF Pumps, Connect, Start, PeerGone, ReadError, ReadPing, WriterSeesClose
<1>4. \A i \in DOMAIN send'[c] : Proper(c, send'[c][i])
  <2>1. CASE UNCHANGED send
    BY <1>1, <2>1
  <2>2. CASE send' = [send EXCEPT ![c] = Append(send[c], Pong)]
    <3>1. send'[c] = Append(send[c], Pong)
      BY <1>2, <2>2
    <3>2. Proper(c, Pong) /\ Pong \in Message \cup {Pong}
      BY DEF Proper, Pong
    <3>3. \A i \in DOMAIN Append(send[c], Pong) : Proper(c, Append(send[c], Pong)[i])
      BY <1>1, <1>2, <3>2, ProperAppend
    <3> QED BY <3>1, <3>3
  <2>3. CASE send' = [send EXCEPT ![c] = <<>>]
    BY <1>2, <2>3
  <2>4. CASE send[c] # <<>> /\ send' = [send EXCEPT ![c] = Tail(send[c])]
    <3>1. send'[c] = Tail(send[c])
      BY <1>2, <2>4
    <3>2. \A i \in DOMAIN Tail(send[c]) : Proper(c, Tail(send[c])[i])
      BY <1>1, <1>2, <2>4, ProperTail
    <3> QED BY <3>1, <3>2
  <2> QED BY <1>3, <2>1, <2>2, <2>3, <2>4
<1>5. \A d \in Clients \ {c} : send'[d] = send[d]
  BY <1>2, <1>3
<1>6. \A d \in Clients : \A i \in DOMAIN send'[d] : Proper(d, send'[d][i])
  BY <1>1, <1>4, <1>5
<1> QED BY <1>6 DEF NotificationsStayPrivate, Proper

\* The hub queues a notification only on connections filed under its addressee.
LEMMA BroadcastPrivate ==
  ASSUME SafeInv, NotificationsStayPrivate, HubBroadcast
  PROVE  NotificationsStayPrivate'
<1> DEFINE m == Head(broadcast)
<1>1. m \in Message
  BY DEF SafeInv, TypeOK, HubBroadcast, FanOut
<1>2. send' = [c \in Clients |-> IF c \in Reached(m) THEN Append(send[c], m) ELSE send[c]]
  BY DEF HubBroadcast, FanOut
<1> HIDE DEF m
<1>3. ASSUME NEW c \in Reached(m) PROVE Proper(c, m)
  <2>1. CASE m.kind = "notification"
    <3>1. PICK u \in Users : m = Notification(u)
      BY <1>1, <2>1 DEF Message, Notification, Event, Presence
    <3>2. m.to = u /\ m.to # All
      BY <3>1, HubAssumption DEF Notification
    <3>3. c \in conns[u]
      BY <1>3, <3>2 DEF Reached, Targets
    <3> QED BY <3>2, <3>3 DEF Proper, SafeInv, RegistryOK
  <2>2. CASE m.kind # "notification"
    BY <2>2 DEF Proper
  <2> QED BY <2>1, <2>2
<1>4. ASSUME NEW c \in Clients
      PROVE  \A i \in DOMAIN send'[c] : Proper(c, send'[c][i])
  <2>1. \A i \in DOMAIN send[c] : Proper(c, send[c][i])
    BY PrivateByProper
  <2>2. CASE c \in Reached(m)
    <3>1. send'[c] = Append(send[c], m)
      BY <1>2, <2>2
    <3>2. send[c] \in Seq(Message \cup {Pong}) /\ m \in Message \cup {Pong}
      BY <1>1 DEF SafeInv, TypeOK
    <3>3. \A i \in DOMAIN Append(send[c], m) : Proper(c, Append(send[c], m)[i])
      BY <1>3, <2>1, <2>2, <3>2, ProperAppend
    <3> QED BY <3>1, <3>3
  <2>3. CASE c \notin Reached(m)
    BY <1>2, <2>1, <2>3
  <2> QED BY <2>2, <2>3
<1> QED BY <1>4 DEF NotificationsStayPrivate, Proper

LEMMA PrivateStep ==
  SafeInv /\ NotificationsStayPrivate /\ [Next]_vars => NotificationsStayPrivate'
<1> SUFFICES ASSUME SafeInv, NotificationsStayPrivate, [Next]_vars
             PROVE  NotificationsStayPrivate'
  OBVIOUS
<1>1. CASE UNCHANGED send
  BY <1>1 DEF NotificationsStayPrivate
<1>2. CASE \E c \in Clients : Pumps(c)
  BY <1>2, PumpsPrivate
<1>3. CASE Run
  BY <1>1, <1>3, BroadcastPrivate DEF Run, HubRegister, HubUnregister
<1>4. CASE Notify \/ UNCHANGED vars
  BY <1>1, <1>4 DEF Notify, vars
<1> QED BY <1>2, <1>3, <1>4 DEF Next

\* No connection ever queues a notification that is meant for another user, however
\* registrations, evictions and broadcasts interleave (hub.go, BroadcastToUser).
THEOREM NotificationsArePrivate == Spec => []NotificationsStayPrivate
<1>1. Init => NotificationsStayPrivate
  BY DEF Init, NotificationsStayPrivate
<1> QED BY <1>1, PrivateStep, SafeInvHolds, PTL DEF Spec
----------------------------------------------------------------------------
(* What LastPresence says of a queue, and of one queue behind another.     *)

Less == {ss \in Nat \X Nat : ss[1] < ss[2]}

LEMMA LessWellFounded == IsWellFoundedOn(Less, Nat)
BY NatLessThanWellFounded, Zenon DEF OpToRel, Less

\* A set of positions of a queue that is not empty has a last one.
LEMMA LastIndex ==
  ASSUME NEW n \in Nat, NEW I, I \subseteq 1..n, I # {}
  PROVE  \E x \in I : \A y \in I : y <= x
<1> DEFINE T == {n - i : i \in I}
<1>1. T \subseteq Nat
  OBVIOUS
<1>2. T # {}
  <2>1. PICK i \in I : TRUE
    OBVIOUS
  <2> QED BY <2>1
<1> HIDE DEF T
<1>3. PICK x \in T : \A y \in T : ~ (<<y, x>> \in Less)
  BY <1>1, <1>2, LessWellFounded, WFMin, Zenon
<1>4. \A y \in T : ~(y < x)
  BY <1>1, <1>3 DEF Less
<1>5. PICK i \in I : x = n - i
  BY DEF T
<1>6. ASSUME NEW j \in I PROVE j <= i
  <2>1. n - j \in T
    BY DEF T
  <2>2. ~(n - j < n - i)
    BY <1>4, <1>5, <2>1
  <2>3. i \in 1..n /\ j \in 1..n
    OBVIOUS
  <2> QED BY <2>2, <2>3
<1> QED BY <1>6

\* The positions of the messages about u, and the last of them.
Concerns(m, u) == m.kind = "user_presence" /\ m.user = u
About(s, u)    == {i \in DOMAIN s : Concerns(s[i], u)}
Latest(s, u, i) == i \in About(s, u) /\ \A j \in About(s, u) : j <= i
Shown(on)      == IF on THEN "on" ELSE "off"

LEMMA NothingSaid ==
  ASSUME NEW s, NEW u, NEW b, About(s, u) = {}
  PROVE  LastPresence(s, u, b) = b
BY DEF LastPresence, About, Concerns

LEMMA LatestSaid ==
  ASSUME NEW S, NEW s \in Seq(S), NEW u, NEW b, NEW i, Latest(s, u, i)
  PROVE  LastPresence(s, u, b) = Shown(s[i].online)
<1> DEFINE last == CHOOSE k \in About(s, u) : \A j \in About(s, u) : j <= k
<1>1. About(s, u) # {}
  BY DEF Latest
<1>2. LastPresence(s, u, b) = Shown(s[last].online)
  BY <1>1 DEF LastPresence, About, Concerns, Shown
<1>3. last \in About(s, u) /\ \A j \in About(s, u) : j <= last
  BY DEF Latest
<1> HIDE DEF last
<1>4. last = i
  <2>1. last \in Nat /\ i \in Nat
    BY <1>3 DEF Latest, About
  <2> QED BY <1>3, <2>1 DEF Latest
<1> QED BY <1>2, <1>4

LEMMA SomethingSaid ==
  ASSUME NEW S, NEW s \in Seq(S), NEW u, About(s, u) # {}
  PROVE  \E i \in Nat : Latest(s, u, i)
<1>1. About(s, u) \subseteq 1..Len(s) /\ Len(s) \in Nat
  BY DEF About
<1>2. PICK i \in About(s, u) : \A j \in About(s, u) : j <= i
  BY <1>1, LastIndex
<1> QED BY <1>1, <1>2 DEF Latest

\* Two queues one behind the other say what the second says after the first.
LEMMA SaidBehind ==
  ASSUME NEW S, NEW s \in Seq(S), NEW t \in Seq(S), NEW u, NEW b
  PROVE  LastPresence(s \o t, u, b) = LastPresence(t, u, LastPresence(s, u, b))
<1> DEFINE n == Len(s)
<1>1. /\ s \o t \in Seq(S) /\ n \in Nat /\ Len(t) \in Nat
      /\ DOMAIN s = 1..n /\ DOMAIN t = 1..Len(t)
      /\ DOMAIN (s \o t) = 1..(n + Len(t))
  OBVIOUS
<1>2. /\ \A i \in 1..n : (s \o t)[i] = s[i]
      /\ \A i \in 1..Len(t) : (s \o t)[n + i] = t[i]
      /\ \A i \in 1..(n + Len(t)) : i \notin 1..n => (s \o t)[i] = t[i - n]
  BY <1>1
<1> HIDE DEF n
<1>3. \A i \in 1..n : i \in About(s \o t, u) <=> i \in About(s, u)
  BY <1>1, <1>2 DEF About
<1>4. \A i \in 1..(n + Len(t)) : i \notin 1..n =>
        (i \in About(s \o t, u) <=> i - n \in About(t, u))
  BY <1>1, <1>2 DEF About
<1>5. About(s \o t, u) \subseteq 1..(n + Len(t)) /\ About(s, u) \subseteq 1..n
        /\ About(t, u) \subseteq 1..Len(t)
  BY <1>1 DEF About
<1>6. CASE About(t, u) # {}
  <2>1. PICK i \in Nat : Latest(t, u, i)
    BY <1>6, SomethingSaid
  <2>2. i \in 1..Len(t)
    BY <1>5, <2>1 DEF Latest
  <2>3. n + i \in About(s \o t, u)
    <3>1. n + i \in 1..(n + Len(t)) /\ n + i \notin 1..n /\ (n + i) - n = i
      BY <1>1, <2>2
    <3> QED BY <1>4, <2>1, <3>1 DEF Latest
  <2>4. ASSUME NEW j \in About(s \o t, u) PROVE j <= n + i
    <3>1. CASE j \in 1..n
      BY <1>1, <2>2, <3>1
    <3>2. CASE j \notin 1..n
      <4>1. j - n \in About(t, u) /\ j \in 1..(n + Len(t))
        BY <1>4, <1>5, <3>2
      <4>2. j - n <= i
        BY <2>1, <4>1 DEF Latest
      <4> QED BY <1>1, <2>2, <4>1, <4>2
    <3> QED BY <3>1, <3>2
  <2>5. Latest(s \o t, u, n + i)
    BY <2>3, <2>4 DEF Latest
  <2>6. LastPresence(s \o t, u, b) = Shown((s \o t)[n + i].online)
    BY <1>1, <2>5, LatestSaid
  <2>7. LastPresence(t, u, LastPresence(s, u, b)) = Shown(t[i].online)
    BY <2>1, LatestSaid
  <2> QED BY <1>2, <2>2, <2>6, <2>7
<1>7. CASE About(t, u) = {}
  <2>1. LastPresence(t, u, LastPresence(s, u, b)) = LastPresence(s, u, b)
    BY <1>7, NothingSaid
  <2>2. About(s \o t, u) = About(s, u)
    <3>1. \A i \in About(s \o t, u) : i \in 1..n
      BY <1>4, <1>5, <1>7
    <3>2. 1..n \subseteq 1..(n + Len(t))
      BY <1>1
    <3> QED BY <1>3, <1>5, <3>1
  <2>3. CASE About(s, u) = {}
    BY <2>1, <2>2, <2>3, NothingSaid
  <2>4. CASE About(s, u) # {}
    <3>1. PICK i \in Nat : Latest(s, u, i)
      BY <2>4, SomethingSaid
    <3>2. Latest(s \o t, u, i) /\ i \in 1..n
      BY <1>5, <2>2, <3>1 DEF Latest
    <3>3. LastPresence(s \o t, u, b) = Shown((s \o t)[i].online)
      BY <1>1, <3>2, LatestSaid
    <3>4. LastPresence(s, u, b) = Shown(s[i].online)
      BY <3>1, LatestSaid
    <3> QED BY <1>2, <2>1, <3>2, <3>3, <3>4
  <2> QED BY <2>3, <2>4
<1> QED BY <1>6, <1>7

\* What one message says, and what an empty queue says.
LEMMA SaidByOne ==
  ASSUME NEW S, NEW m \in S, NEW u, NEW b
  PROVE  LastPresence(<<m>>, u, b) = IF Concerns(m, u) THEN Shown(m.online) ELSE b
<1>1. <<m>> \in Seq(S) /\ DOMAIN <<m>> = {1} /\ <<m>>[1] = m
  OBVIOUS
<1>2. CASE Concerns(m, u)
  <2>1. Latest(<<m>>, u, 1)
    BY <1>1, <1>2 DEF Latest, About
  <2>2. LastPresence(<<m>>, u, b) = Shown(<<m>>[1].online)
    BY <1>1, <2>1, LatestSaid
  <2> QED BY <1>1, <1>2, <2>2
<1>3. CASE ~Concerns(m, u)
  <2>1. About(<<m>>, u) = {}
    BY <1>1, <1>3 DEF About
  <2> QED BY <1>3, <2>1, NothingSaid
<1> QED BY <1>2, <1>3

LEMMA SaidByNone ==
  ASSUME NEW u, NEW b
  PROVE  LastPresence(<<>>, u, b) = b
<1>1. About(<<>>, u) = {}
  BY DEF About
<1> QED BY <1>1, NothingSaid

LEMMA SaidWithOneMore ==
  ASSUME NEW S, NEW s \in Seq(S), NEW m \in S, NEW u, NEW b
  PROVE  LastPresence(Append(s, m), u, b) =
           IF Concerns(m, u) THEN Shown(m.online) ELSE LastPresence(s, u, b)
<1> DEFINE t == <<m>>
<1>1. Append(s, m) = s \o t /\ t \in Seq(S)
  OBVIOUS
<1>2. \A x : LastPresence(t, u, x) = IF Concerns(m, u) THEN Shown(m.online) ELSE x
  BY SaidByOne
<1> HIDE DEF t
<1>3. LastPresence(s \o t, u, b) = LastPresence(t, u, LastPresence(s, u, b))
  BY <1>1, SaidBehind
<1> QED BY <1>1, <1>2, <1>3

\* A queue either says nothing of u or says the same whatever was known before.
LEMMA SaidOrNot ==
  ASSUME NEW S, NEW s \in Seq(S), NEW u
  PROVE  \/ \A b : LastPresence(s, u, b) = b
         \/ \A a, b : LastPresence(s, u, a) = LastPresence(s, u, b)
<1>1. CASE About(s, u) = {}
  BY <1>1, NothingSaid
<1>2. CASE About(s, u) # {}
  <2>1. PICK i \in Nat : Latest(s, u, i)
    BY <1>2, SomethingSaid
  <2>2. \A b : LastPresence(s, u, b) = Shown(s[i].online)
    BY <2>1, LatestSaid
  <2> QED BY <2>2
<1> QED BY <1>1, <1>2
----------------------------------------------------------------------------
(* The presence a connection is told.                                      *)

\* What the hub announced last about u.
Truth(u) == Shown(announced[u])

\* What the peer of c is going to believe of u: what it was told, then what is
\* queued on its connection, then what the hub has still to distribute.
Believed(c, u) == LastPresence(broadcast, u, LastPresence(send[c], u, view[c][u]))

\* A connection that is not registered yet was told nothing and queues nothing.
FreshUntold ==
  \A c \in Clients : reader[c] \in {"idle", "registering"} =>
    /\ send[c] = <<>>
    /\ writer[c] = "off"
    /\ \A u \in Users : view[c][u] = "unknown"

\* The broadcast channel ends with the last announcement or has forgotten it.
WireAgrees ==
  \A u \in Users : u \notin dropped => LastPresence(broadcast, u, "unknown") \in {"unknown", Truth(u)}

\* PresenceConverges, by what each connection is going to believe.
BeliefsAgree ==
  \A c \in Clients, u \in Users :
    Registered(c) /\ link[c] = "open" /\ u \notin dropped =>
      Believed(c, u) \in {"unknown", Truth(u)}

PresenceInv == FreshUntold /\ WireAgrees /\ BeliefsAgree

\* The queues are sequences, and a message under way may be queued anywhere.
LEMMA Queues ==
  ASSUME TypeOK
  PROVE  /\ broadcast \in Seq(Message \cup {Pong})
         /\ \A c \in Clients : send[c] \in Seq(Message \cup {Pong})
         /\ send \in [Clients -> Seq(Message \cup {Pong})]
         /\ view \in [Clients -> [Users -> {"unknown", "on", "off"}]]
<1>1. broadcast \in Seq(Message) /\ Message \subseteq Message \cup {Pong}
  BY DEF TypeOK
<1>2. broadcast \in Seq(Message \cup {Pong})
  BY <1>1
<1> QED BY <1>2 DEF TypeOK

LEMMA BelievedIsSaid ==
  ASSUME TypeOK, NEW c \in Clients, NEW u \in Users
  PROVE  LastPresence(send[c] \o broadcast, u, view[c][u]) = Believed(c, u)
BY Queues, SaidBehind DEF Believed

LEMMA ConvergesByBelief ==
  ASSUME TypeOK
  PROVE  PresenceConverges <=> BeliefsAgree
BY BelievedIsSaid DEF PresenceConverges, BeliefsAgree, Truth, Shown

\* A message that is no announcement changes nobody's belief.
LEMMA Unconcerned ==
  /\ \A u \in Users : \A v : ~Concerns(Notification(u), v)
  /\ \A v : ~Concerns(Event, v)
  /\ \A v : ~Concerns(Pong, v)
BY DEF Concerns, Notification, Event, Pong

LEMMA AnnouncementConcerns ==
  ASSUME NEW u, NEW on, NEW v
  PROVE  /\ Concerns(Presence(u, on), v) <=> v = u
         /\ Presence(u, on).online = on
BY DEF Concerns, Presence

\* An announcement that finds room is the last word on its user and says nothing of
\* the others; without room the user is noted in `dropped` and nothing else changes.
LEMMA AnnounceSaid ==
  ASSUME TypeOK, NEW w \in Users, NEW on \in BOOLEAN, Announce(w, on),
         NEW u \in Users, u \notin dropped', NEW b
  PROVE  \/ u = w /\ LastPresence(broadcast', u, b) = Truth(u)'
         \/ /\ u # w /\ u \notin dropped /\ Truth(u)' = Truth(u)
            /\ LastPresence(broadcast', u, b) = LastPresence(broadcast, u, b)
<1>1. announced' = [announced EXCEPT ![w] = on] /\ announced \in [Users -> BOOLEAN]
  BY DEF Announce, TypeOK
<1>2. CASE Len(broadcast) < BroadcastCap
  <2>1. broadcast' = Append(broadcast, Presence(w, on)) /\ dropped' = dropped \ {w}
    BY <1>2 DEF Announce, Offer
  <2>2. Presence(w, on) \in Message \cup {Pong} /\ broadcast \in Seq(Message \cup {Pong})
    BY MessageTyping, Queues
  <2>3. LastPresence(broadcast', u, b) =
          IF Concerns(Presence(w, on), u) THEN Shown(Presence(w, on).online)
                                          ELSE LastPresence(broadcast, u, b)
    BY <2>1, <2>2, SaidWithOneMore
  <2>4. CASE u = w
    <3>1. LastPresence(broadcast', u, b) = Shown(on)
      BY <2>3, <2>4, AnnouncementConcerns
    <3>2. announced'[u] = on
      BY <1>1, <2>4
    <3> QED BY <2>4, <3>1, <3>2 DEF Truth
  <2>5. CASE u # w
    <3>1. LastPresence(broadcast', u, b) = LastPresence(broadcast, u, b)
      BY <2>3, <2>5, AnnouncementConcerns
    <3>2. announced'[u] = announced[u] /\ u \notin dropped
      BY <1>1, <2>1, <2>5
    <3> QED BY <2>5, <3>1, <3>2 DEF Truth
  <2> QED BY <2>4, <2>5
<1>3. CASE ~(Len(broadcast) < BroadcastCap)
  <2>1. broadcast' = broadcast /\ dropped' = dropped \cup {w}
    BY <1>3 DEF Announce, Offer
  <2>2. u # w /\ u \notin dropped
    BY <2>1
  <2>3. announced'[u] = announced[u]
    BY <1>1, <2>2
  <2> QED BY <2>1, <2>2, <2>3 DEF Truth
<1> QED BY <1>2, <1>3

----------------------------------------------------------------------------
(* The steps preserve it.                                                  *)

\* A step that leaves the channels, the views and the announcements alone and
\* registers nobody preserves the invariant.
LEMMA Unheard ==
  ASSUME SafeInv, PresenceInv,
         UNCHANGED <<broadcast, send, view, announced, dropped>>,
         \A c \in Clients : Registered(c)' /\ link'[c] = "open" =>
                              Registered(c) /\ link[c] = "open",
         \A c \in Clients : reader'[c] \in {"idle", "registering"} =>
                              /\ reader[c] \in {"idle", "registering"}
                              /\ writer'[c] = writer[c]
  PROVE  PresenceInv'
<1>1. FreshUntold'
  BY DEF PresenceInv, FreshUntold
<1>2. WireAgrees'
  BY DEF PresenceInv, WireAgrees, Truth
<1>3. BeliefsAgree'
  BY DEF PresenceInv, BeliefsAgree, Believed, Truth
<1> QED BY <1>1, <1>2, <1>3 DEF PresenceInv

\* A pump step that touches no channel.
LEMMA QuietPumps ==
  ASSUME SafeInv, PresenceInv, NEW c \in Clients,
         Connect(c) \/ Start(c) \/ PeerGone(c) \/ ReadError(c) \/ ReadPing(c)
           \/ WriterSeesClose(c)
  PROVE  PresenceInv'
<1>1. UNCHANGED <<conns, broadcast, send, view, announced, dropped>>
  BY DEF Connect, Start, PeerGone, ReadError, ReadPing, WriterSeesClose
<1>2. \A d \in Clients : link'[d] = "open" => link[d] = "open"
  BY DEF Connect, Start, PeerGone, ReadError, ReadPing, WriterSeesClose, SafeInv, TypeOK
<1>3. ASSUME NEW d \in Clients, reader'[d] \in {"idle", "registering"}
      PROVE  reader[d] \in {"idle", "registering"} /\ writer'[d] = writer[d]
  <2>1. CASE WriterSeesClose(c)
    <3>1. reader[d] \in {"idle", "registering"} /\ writer[c] = "running"
      BY <1>3, <2>1 DEF WriterSeesClose
    <3>2. d # c
      BY <3>1 DEF PresenceInv, FreshUntold
    <3> QED BY <2>1, <3>1, <3>2 DEF WriterSeesClose, SafeInv, TypeOK
  <2>2. CASE Start(c)
    <3>1. d # c
      BY <1>3, <2>2 DEF Start, SafeInv, TypeOK
    <3> QED BY <1>3, <2>2, <3>1 DEF Start, SafeInv, TypeOK
  <2>3. CASE Connect(c)
    BY <1>3, <2>3 DEF Connect, SafeInv, TypeOK
  <2>4. CASE PeerGone(c) \/ ReadError(c) \/ ReadPing(c)
    BY <1>3, <2>4 DEF PeerGone, ReadError, ReadPing, SafeInv, TypeOK
  <2> QED BY <2>1, <2>2, <2>3, <2>4
<1>4. \A d \in Clients : Registered(d)' => Registered(d)
  BY <1>1 DEF Registered
<1> QED BY <1>1, <1>2, <1>3, <1>4, Unheard
\* A step that changes what one connection c queues or was told, not its belief.
LEMMA OneConnection ==
  ASSUME SafeInv, PresenceInv, NEW c \in Clients,
         UNCHANGED <<conns, broadcast, link, announced, dropped>>,
         \A d \in Clients \ {c} : /\ send'[d] = send[d] /\ view'[d] = view[d]
                                  /\ reader'[d] = reader[d] /\ writer'[d] = writer[d],
         reader'[c] \notin {"idle", "registering"},
         link[c] = "open" => \A u \in Users : Believed(c, u)' = Believed(c, u)
  PROVE  PresenceInv'
<1>1. FreshUntold'
  BY DEF PresenceInv, FreshUntold
<1>2. WireAgrees'
  BY DEF PresenceInv, WireAgrees, Truth
<1>3. ASSUME NEW d \in Clients, NEW u \in Users,
             Registered(d)', link'[d] = "open", u \notin dropped'
      PROVE  Believed(d, u)' \in {"unknown", Truth(u)'}
  <2>1. Believed(d, u)' = Believed(d, u)
    <3>1. CASE d = c
      BY <1>3, <3>1
    <3>2. CASE d # c
      BY <3>2 DEF Believed
    <3> QED BY <3>1, <3>2
  <2>2. Believed(d, u) \in {"unknown", Truth(u)}
    BY <1>3 DEF PresenceInv, BeliefsAgree, Registered
  <2> QED BY <2>1, <2>2 DEF Truth
<1>4. BeliefsAgree'
  BY <1>3 DEF BeliefsAgree
<1> QED BY <1>1, <1>2, <1>4 DEF PresenceInv

LEMMA SendPongPresence ==
  ASSUME SafeInv, PresenceInv, NEW c \in Clients, SendPong(c)
  PROVE  PresenceInv'
<1>1. UNCHANGED <<conns, broadcast, link, writer, announced, dropped, view>>
  BY DEF SendPong
<1>2. CASE closed[c]
  <2>1. UNCHANGED <<send, reader>>
    BY <1>2 DEF SendPong
  <2> QED BY <1>1, <2>1, Unheard DEF Registered
<1>3. CASE ~closed[c]
  <2>1. send' = [send EXCEPT ![c] = Append(send[c], Pong)]
    BY <1>3 DEF SendPong
  <2>2. reader' = [reader EXCEPT ![c] = "reading"]
    BY <1>3 DEF SendPong
  <2>3. send \in [Clients -> Seq(Message \cup {Pong})] /\ reader \in [Clients -> Reader]
    BY Queues DEF SafeInv, TypeOK
  <2>4. send'[c] = Append(send[c], Pong) /\ reader'[c] = "reading"
    BY <2>1, <2>2, <2>3
  <2>5. \A d \in Clients \ {c} : send'[d] = send[d] /\ reader'[d] = reader[d]
    BY <2>1, <2>2, <2>3
  <2>6. ASSUME NEW u \in Users PROVE Believed(c, u)' = Believed(c, u)
    <3>1. LastPresence(Append(send[c], Pong), u, view[c][u])
            = LastPresence(send[c], u, view[c][u])
      <4>1. Pong \in Message \cup {Pong} /\ ~Concerns(Pong, u)
        BY Unconcerned
      <4> QED BY <2>3, <4>1, SaidWithOneMore
    <3> QED BY <1>1, <2>4, <3>1 DEF Believed
  <2> QED BY <1>1, <2>4, <2>5, <2>6, OneConnection
<1> QED BY <1>2, <1>3

\* A batch that reaches the peer moves what was queued into what it was told.
LEMMA WriteBatchPresence ==
  ASSUME SafeInv, PresenceInv, NEW c \in Clients, WriteBatch(c)
  PROVE  PresenceInv'
<1>1. /\ UNCHANGED <<conns, broadcast, link, writer, reader, announced, dropped>>
      /\ writer[c] = "running"
      /\ send' = [send EXCEPT ![c] = <<>>]
  BY DEF WriteBatch
<1>2. reader[c] \notin {"idle", "registering"}
  BY <1>1 DEF PresenceInv, FreshUntold
<1>3. /\ send \in [Clients -> Seq(Message \cup {Pong})]
      /\ view \in [Clients -> [Users -> {"unknown", "on", "off"}]]
  BY Queues DEF SafeInv
<1>4. send'[c] = <<>> /\ \A d \in Clients \ {c} : send'[d] = send[d]
  BY <1>1, <1>3
<1>5. CASE link[c] = "open"
  <2> DEFINE told == [u \in Users |-> LastPresence(send[c], u, view[c][u])]
  <2>1. view' = [view EXCEPT ![c] = told]
    BY <1>5 DEF WriteBatch
  <2>2. \A u \in Users : told[u] = LastPresence(send[c], u, view[c][u])
    OBVIOUS
  <2> HIDE DEF told
  <2>3. view'[c] = told /\ \A d \in Clients \ {c} : view'[d] = view[d]
    BY <1>3, <2>1
  <2>4. ASSUME NEW u \in Users PROVE Believed(c, u)' = Believed(c, u)
    <3>1. LastPresence(send'[c], u, view'[c][u]) = view'[c][u]
      BY <1>4, SaidByNone
    <3>2. view'[c][u] = LastPresence(send[c], u, view[c][u])
      BY <2>2, <2>3
    <3> QED BY <1>1, <3>1, <3>2 DEF Believed
  <2> QED BY <1>1, <1>2, <1>4, <2>3, <2>4, OneConnection
<1>6. CASE link[c] # "open"
  <2>1. view' = view
    BY <1>6 DEF WriteBatch
  <2> QED BY <1>1, <1>2, <1>4, <1>6, <2>1, OneConnection
<1> QED BY <1>5, <1>6

\* A failed write loses queued announcements, but only behind a broken link.
LEMMA WriteErrorPresence ==
  ASSUME SafeInv, PresenceInv, NEW c \in Clients, WriteError(c)
  PROVE  PresenceInv'
<1>1. /\ UNCHANGED <<conns, broadcast, link, reader, announced, dropped, view>>
      /\ writer[c] = "running" /\ link[c] = "broken"
      /\ writer' = [writer EXCEPT ![c] = "done"]
  BY DEF WriteError
<1>2. reader[c] \notin {"idle", "registering"}
  BY <1>1 DEF PresenceInv, FreshUntold
<1>3. PICK rest \in {send[c], <<>>} \cup (IF send[c] = <<>> THEN {} ELSE {Tail(send[c])}) :
        send' = [send EXCEPT ![c] = rest]
  BY DEF WriteError
<1>4. \A d \in Clients \ {c} : send'[d] = send[d] /\ writer'[d] = writer[d]
  BY <1>1, <1>3, Queues DEF SafeInv, TypeOK
<1> QED BY <1>1, <1>2, <1>4, OneConnection

\* Notifications and events say nothing about presence.
LEMMA NotifyPresence ==
  ASSUME SafeInv, PresenceInv, Notify
  PROVE  PresenceInv'
<1>1. PICK m \in {Notification(u) : u \in Users} \cup {Event} : Offer(m)
  BY DEF Notify
<1>2. UNCHANGED <<conns, send, reader, writer, link, announced, dropped, view>>
  BY DEF Notify
<1>3. ASSUME NEW u \in Users, NEW b
      PROVE  LastPresence(broadcast', u, b) = LastPresence(broadcast, u, b)
  <2>1. m \in Message \cup {Pong} /\ ~Concerns(m, u)
    BY <1>1, MessageTyping, Unconcerned
  <2>2. broadcast \in Seq(Message \cup {Pong})
    BY Queues DEF SafeInv
  <2>3. LastPresence(Append(broadcast, m), u, b) = LastPresence(broadcast, u, b)
    BY <2>1, <2>2, SaidWithOneMore
  <2> QED BY <1>1, <2>3 DEF Offer
<1>4. FreshUntold'
  BY <1>2 DEF PresenceInv, FreshUntold
<1>5. WireAgrees'
  BY <1>2, <1>3 DEF PresenceInv, WireAgrees, Truth
<1>6. BeliefsAgree'
  BY <1>2, <1>3 DEF PresenceInv, BeliefsAgree, Believed, Truth, Registered
<1> QED BY <1>4, <1>5, <1>6 DEF PresenceInv

\* A registration or a disconnect, with or without an announcement.
LEMMA AnnouncingStep ==
  ASSUME SafeInv, PresenceInv, NEW w \in Users, NEW on \in BOOLEAN,
         Announce(w, on) \/ UNCHANGED <<broadcast, announced, dropped>>,
         UNCHANGED <<send, view, writer>>,
         \A c \in Clients : Registered(c)' /\ link'[c] = "open" =>
            \/ Registered(c) /\ link[c] = "open"
            \/ reader[c] \in {"idle", "registering"},
         \A c \in Clients : reader'[c] \in {"idle", "registering"} =>
                              reader[c] \in {"idle", "registering"}
  PROVE  PresenceInv'
<1>1. TypeOK
  BY DEF SafeInv
<1>2. ASSUME NEW u \in Users, u \notin dropped'
      PROVE  \/ \A b : LastPresence(broadcast', u, b) = Truth(u)'
             \/ /\ u \notin dropped /\ Truth(u)' = Truth(u)
                /\ \A b : LastPresence(broadcast', u, b) = LastPresence(broadcast, u, b)
  <2>1. CASE Announce(w, on)
    BY <1>1, <1>2, <2>1, AnnounceSaid
  <2>2. CASE UNCHANGED <<broadcast, announced, dropped>>
    BY <1>2, <2>2 DEF Truth
  <2> QED BY <2>1, <2>2
<1>3. FreshUntold'
  BY DEF PresenceInv, FreshUntold
<1>4. WireAgrees'
  <2>1. ASSUME NEW u \in Users, u \notin dropped'
        PROVE  LastPresence(broadcast', u, "unknown") \in {"unknown", Truth(u)'}
    BY <1>2, <2>1 DEF PresenceInv, WireAgrees
  <2> QED BY <2>1 DEF WireAgrees
<1>5. ASSUME NEW c \in Clients, NEW u \in Users,
             Registered(c)', link'[c] = "open", u \notin dropped'
      PROVE  Believed(c, u)' \in {"unknown", Truth(u)'}
  <2>1. CASE reader[c] \in {"idle", "registering"}
    <3>1. send'[c] = <<>> /\ view'[c][u] = "unknown"
      BY <2>1 DEF PresenceInv, FreshUntold
    <3>2. LastPresence(send'[c], u, view'[c][u]) = "unknown"
      BY <3>1, SaidByNone
    <3> QED BY <1>4, <1>5, <3>2 DEF WireAgrees, Believed
  <2>2. CASE Registered(c) /\ link[c] = "open"
    <3>1. u \notin dropped => Believed(c, u) \in {"unknown", Truth(u)}
      BY <2>2 DEF PresenceInv, BeliefsAgree
    <3> QED BY <1>2, <1>5, <3>1 DEF Believed
  <2> QED BY <1>5, <2>1, <2>2
<1>6. BeliefsAgree'
  BY <1>5 DEF BeliefsAgree
<1> QED BY <1>3, <1>4, <1>6 DEF PresenceInv

LEMMA RegisterPresence ==
  ASSUME SafeInv, PresenceInv, NEW c \in Clients, HubRegister(c)
  PROVE  PresenceInv'
<1>1. Owner[c] \in Users /\ TRUE \in BOOLEAN
  BY HubAssumption
<1>2. Announce(Owner[c], TRUE) \/ UNCHANGED <<broadcast, announced, dropped>>
  BY DEF HubRegister
<1>3. /\ reader[c] = "registering"
      /\ reader' = [reader EXCEPT ![c] = "registered"]
      /\ conns' = [conns EXCEPT ![Owner[c]] = @ \cup {c}]
      /\ UNCHANGED <<send, view, writer, link>>
  BY DEF HubRegister
<1>4. \A d \in Clients : Registered(d)' => Registered(d) \/ d = c
  BY <1>3, HubAssumption DEF Registered, SafeInv, TypeOK
<1>5. \A d \in Clients : reader'[d] \in {"idle", "registering"} =>
                           reader[d] \in {"idle", "registering"}
  BY <1>3 DEF SafeInv, TypeOK
<1> QED BY <1>1, <1>2, <1>3, <1>4, <1>5, AnnouncingStep

LEMMA UnregisterPresence ==
  ASSUME SafeInv, PresenceInv, NEW c \in Clients, HubUnregister(c)
  PROVE  PresenceInv'
<1>1. Owner[c] \in Users /\ FALSE \in BOOLEAN
  BY HubAssumption
<1>2. Announce(Owner[c], FALSE) \/ UNCHANGED <<broadcast, announced, dropped>>
  BY DEF HubUnregister, LastConnection, Registered
<1>3. /\ reader' = [reader EXCEPT ![c] = "done"]
      /\ link' = [link EXCEPT ![c] = "broken"]
      /\ conns' = [conns EXCEPT ![Owner[c]] = @ \ {c}]
      /\ UNCHANGED <<send, view, writer>>
  BY DEF HubUnregister, LastConnection, Registered
<1>4. \A d \in Clients : Registered(d)' => Registered(d)
  BY <1>3, HubAssumption DEF Registered, SafeInv, TypeOK
<1>5. \A d \in Clients : link'[d] = "open" => link[d] = "open"
  BY <1>3 DEF SafeInv, TypeOK
<1>6. \A d \in Clients : reader'[d] \in {"idle", "registering"} =>
                           reader[d] \in {"idle", "registering"}
  BY <1>3 DEF SafeInv, TypeOK
<1> QED BY <1>1, <1>2, <1>3, <1>4, <1>5, <1>6, AnnouncingStep

\* The head of the broadcast channel moves behind what its targets have queued; a
\* registered connection that does not get it is not concerned by it.
LEMMA BroadcastPresence ==
  ASSUME SafeInv, PresenceInv, HubBroadcast
  PROVE  PresenceInv'
<1> DEFINE m == Head(broadcast)
           t == Tail(broadcast)
           M == Message \cup {Pong}
<1>1. /\ m \in Message /\ t \in Seq(M) /\ broadcast \in Seq(M)
      /\ broadcast = <<m>> \o t /\ <<m>> \in Seq(M)
  <2>1. broadcast \in Seq(Message) /\ broadcast # <<>>
    BY DEF SafeInv, TypeOK, HubBroadcast
  <2>2. m \in Message /\ t \in Seq(Message) /\ broadcast = <<m>> \o t
    BY <2>1
  <2> QED BY <2>1, <2>2
<1>2. /\ send' = [c \in Clients |-> IF c \in Reached(m) THEN Append(send[c], m) ELSE send[c]]
      /\ conns' = [u \in Users |-> conns[u] \ Evicted(m)]
      /\ broadcast' = t
      /\ UNCHANGED <<reader, writer, link, announced, dropped, view>>
  BY DEF HubBroadcast, FanOut
<1>3. ASSUME NEW u \in Users, NEW b
      PROVE  LastPresence(broadcast, u, b)
               = LastPresence(t, u, IF Concerns(m, u) THEN Shown(m.online) ELSE b)
  <2> DEFINE one == <<m>>
  <2>1. LastPresence(one, u, b) = IF Concerns(m, u) THEN Shown(m.online) ELSE b
    BY <1>1, SaidByOne
  <2>2. one \in Seq(M) /\ broadcast = one \o t
    BY <1>1
  <2> HIDE DEF one, m, t, M
  <2>3. LastPresence(one \o t, u, b) = LastPresence(t, u, LastPresence(one, u, b))
    BY <1>1, <2>2, SaidBehind
  <2> QED BY <2>1, <2>2, <2>3
<1>4. /\ send \in [Clients -> Seq(M)] /\ m \in M
  BY <1>1, Queues DEF SafeInv
<1> HIDE DEF m, t, M
<1>5. FreshUntold'
  <2>1. ASSUME NEW c \in Clients, reader[c] \in {"idle", "registering"}
        PROVE  c \notin Reached(m)
    <3>1. \A u \in Users : c \notin conns[u]
      BY <2>1 DEF SafeInv, RegistryOK
    <3>2. m.to # All => m.to \in Users
      BY <1>1 DEF Message, Notification, Event, Presence
    <3> QED BY <3>1, <3>2 DEF Reached, Targets
  <2> QED BY <1>2, <2>1 DEF PresenceInv, FreshUntold
<1>6. WireAgrees'
  <2>1. ASSUME NEW u \in Users, u \notin dropped
        PROVE  LastPresence(t, u, "unknown") \in {"unknown", Truth(u)}
    <3> DEFINE first == IF Concerns(m, u) THEN Shown(m.online) ELSE "unknown"
    <3>1. LastPresence(t, u, first) \in {"unknown", Truth(u)}
      BY <1>3, <2>1 DEF PresenceInv, WireAgrees
    <3>2. CASE \A b : LastPresence(t, u, b) = b
      BY <3>2
    <3>3. CASE \A a, b : LastPresence(t, u, a) = LastPresence(t, u, b)
      <4>1. LastPresence(t, u, "unknown") = LastPresence(t, u, first)
        BY <3>3
      <4> QED BY <3>1, <4>1
    <3> QED BY <1>1, <3>2, <3>3, SaidOrNot
  <2> QED BY <1>2, <2>1 DEF WireAgrees, Truth
<1>7. ASSUME NEW c \in Clients, NEW u \in Users,
             Registered(c)', link'[c] = "open", u \notin dropped'
      PROVE  Believed(c, u)' \in {"unknown", Truth(u)'}
  <2>1. Registered(c) /\ c \notin Evicted(m)
    BY <1>2, <1>7, HubAssumption DEF Registered
  <2>2. Believed(c, u) \in {"unknown", Truth(u)}
    BY <1>2, <1>7, <2>1 DEF PresenceInv, BeliefsAgree
  <2> DEFINE queued == LastPresence(send[c], u, view[c][u])
  <2>3. Believed(c, u) = LastPresence(t, u, IF Concerns(m, u) THEN Shown(m.online) ELSE queued)
    BY <1>3 DEF Believed
  <2>4. LastPresence(send'[c], u, view[c][u])
          = IF Concerns(m, u) THEN Shown(m.online) ELSE queued
    <3>1. CASE c \in Reached(m)
      <4>1. send'[c] = Append(send[c], m)
        BY <1>2, <3>1
      <4> QED BY <1>4, <4>1, SaidWithOneMore
    <3>2. CASE c \notin Reached(m)
      <4>1. send'[c] = send[c]
        BY <1>2, <3>2
      <4>2. ~Concerns(m, u)
        <5>1. c \notin Targets(m)
          BY <2>1, <3>2 DEF Evicted
        <5>2. m.to # All
          BY <2>1, <5>1, HubAssumption DEF Targets, Registered
        <5> QED BY <1>1, <5>2 DEF Message, Notification, Event, Presence, Concerns
      <4> QED BY <4>1, <4>2
    <3> QED BY <3>1, <3>2
  <2>5. Believed(c, u)' = Believed(c, u)
    BY <1>2, <2>3, <2>4 DEF Believed
  <2> QED BY <1>2, <2>2, <2>5 DEF Truth
<1>8. BeliefsAgree'
  BY <1>7 DEF BeliefsAgree
<1> QED BY <1>5, <1>6, <1>8 DEF PresenceInv

LEMMA PresenceStep ==
  SafeInv /\ PresenceInv /\ [Next]_vars => PresenceInv'
<1> SUFFICES ASSUME SafeInv, PresenceInv, [Next]_vars
             PROVE  PresenceInv'
  OBVIOUS
<1>1. CASE \E c \in Clients : Pumps(c)
  BY <1>1, QuietPumps, SendPongPresence, WriteBatchPresence, WriteErrorPresence DEF Pumps
<1>2. CASE Run
  BY <1>2, RegisterPresence, UnregisterPresence, BroadcastPresence DEF Run
<1>3. CASE Notify
  BY <1>3, NotifyPresence
<1>4. CASE UNCHANGED vars
  BY <1>4, Unheard DEF vars, Registered
<1> QED BY <1>1, <1>2, <1>3, <1>4 DEF Next

\* Every registered connection ends up believing of every user what the hub announced
\* last, whatever is queued where, unless that announcement found the broadcast
\* channel full (hub.go, broadcastPresence and the broadcast case).
THEOREM PresenceArrives == Spec => []PresenceConverges
<1>1. Init => PresenceInv
  <2> SUFFICES ASSUME Init PROVE PresenceInv
    OBVIOUS
  <2>1. FreshUntold
    BY DEF Init, FreshUntold
  <2>2. WireAgrees
    BY SaidByNone DEF Init, WireAgrees
  <2>3. BeliefsAgree
    BY HubAssumption DEF Init, BeliefsAgree, Registered
  <2> QED BY <2>1, <2>2, <2>3 DEF PresenceInv
<1>2. SafeInv /\ PresenceInv => PresenceConverges
  BY ConvergesByBelief DEF SafeInv, PresenceInv
<1> QED BY <1>1, <1>2, PresenceStep, SafeInvHolds, PTL DEF Spec
=============================================================================
