--------------------------- MODULE MessageProofs ---------------------------
(***************************************************************************)
(* Proof, under every fault, that a client gets notifications of its own   *)
(* user only (OwnInv, OnlyOwn).                                            *)
(***************************************************************************)
EXTENDS ServerInvariants, WebSocketHandlerProofs

LEMMA WhatIsCarried ==
    /\ Carried(Nothing) = {}
    /\ \A S : Carried(List(S)) = S
    /\ \A n : Carried(New(n)) = {n}
    /\ \A f : Carried(Conf(f)) = {}
BY DEF Carried, Nothing, List, New, Conf

\* no request brings a notification back to before its creation
LEMMA RequestKeepsBorn ==
    ASSUME HandlerInv,
           \/ \E S : Repo!SetReadStatus(S) \/ Repo!Remove(S)
           \/ \E n \in Notes : Repo!Create(n)
           \/ UNCHANGED status
    PROVE  Born \subseteq Born'
BY DEF HandlerInv, HandlerTypeOK, Repo!StatusTypeOK, Repo!SetReadStatus, Repo!Remove,
   Repo!Create, Born

LEMMA EventKeepsBorn ==
    ASSUME HandlerInv, NEW c \in Conns, ClientEvent(c)
    PROVE  Born \subseteq Born'
<1>1. ASSUME NEW u, NEW a, NEW g, NEW n,
             \/ MarkAsRead(u) \/ MarkAppAsRead(u, a) \/ MarkGroupAsRead(u, a, g)
             \/ MarkNotificationAsRead(u, n)
             \/ DeleteNotifications(u) \/ DeleteAppNotifications(u, a)
             \/ DeleteGroupNotifications(u, a, g) \/ DeleteNotification(u, n)
             \/ UNCHANGED status
      PROVE  Born \subseteq Born'
  <2>1. (\E S : Repo!SetReadStatus(S) \/ Repo!Remove(S)) \/ UNCHANGED status
    BY <1>1 DEF MarkAsRead, MarkAppAsRead, MarkGroupAsRead, MarkNotificationAsRead,
       DeleteNotifications, DeleteAppNotifications, DeleteGroupNotifications, DeleteNotification,
       Repo!MarkAsRead, Repo!MarkAppAsRead, Repo!MarkGroupAsRead, Repo!MarkNotificationAsRead,
       Repo!DeleteNotifications, Repo!DeleteAppNotifications, Repo!DeleteGroupNotifications,
       Repo!DeleteNotification, RequestFails
  <2> QED BY <2>1, RequestKeepsBorn
<1> QED BY <1>1 DEF ClientEvent, MarkAsReadAction, MarkAppReadAction,
        MarkGroupAsReadAction, MarkNotificationAsReadAction, DeleteNotificationsAction,
        DeleteAppNotificationsAction, DeleteGroupNotificationAction, DeleteNotificationAction,
        ReloadNotifications, ListAfter, SetNotificationStatusAction

LEMMA SameClients ==
    ASSUME OnlyOwn, Born \subseteq Born', UNCHANGED <<view, received>>
    PROVE  OnlyOwn'
BY DEF OnlyOwn, OwnNotes

\* a goroutine keeps or drops its message, and starts to send nothing
LEMMA SameMessage ==
    ASSUME NEW p \in Procs, MessageOwn(p), Born \subseteq Born',
           payload'[p] = payload[p] \/ payload'[p] = Nothing,
           Sending(p)' => Sending(p) /\ user'[p] = user[p]
    PROVE  MessageOwn(p)'
<1>1. CASE payload'[p] = payload[p]
  BY <1>1 DEF MessageOwn, OwnNotes
<1>2. CASE payload'[p] = Nothing
  BY <1>2, WhatIsCarried DEF MessageOwn
<1> QED BY <1>1, <1>2

\* what is put on the wire in one step reaches connections of the right user
LEMMA DeliverOwn ==
    ASSUME OnlyOwn, NEW S, NEW m, Deliver(S, m), Born \subseteq Born',
           view \in [Conns -> SUBSET Notes], received \in [Conns -> SUBSET Notes],
           \A c \in S \intersect Conns : Carried(m) \subseteq OwnNotes(Owner[c])
    PROVE  OnlyOwn'
<1> SUFFICES ASSUME NEW c \in Conns
             PROVE  view'[c] \union received'[c] \subseteq OwnNotes(Owner[c])'
  BY DEF OnlyOwn
<1>1. view[c] \union received[c] \subseteq OwnNotes(Owner[c])'
  BY DEF OnlyOwn, OwnNotes
<1>2. CASE c \in S
  <2>1. Carried(m) \subseteq OwnNotes(Owner[c])'
    BY <1>2 DEF OwnNotes
  <2>2. view'[c] = Shows(c, m) /\ received'[c] = received[c] \union Carried(m)
    BY <1>2 DEF Deliver
  <2>3. Shows(c, m) \subseteq view[c] \union Carried(m)
    BY DEF Shows, Carried
  <2> QED BY <1>1, <2>1, <2>2, <2>3
<1>3. CASE c \notin S
  BY <1>1, <1>3 DEF Deliver
<1> QED BY <1>2, <1>3

LEMMA StoreStepOwn ==
    ASSUME HandlerInv, OwnInv, NEW p \in Procs, StoreStep(p)
    PROVE  OwnInv'
<1> USE DEF HandlerInv, IInv, TypeOK
<1>1. Continue(p) /\ Deliver(Written(p), payload[p]) /\ PayloadGiven(p) /\ Born' = Born
  BY DEF StoreStep, dbVars, Born
<1>2. ASSUME NEW c \in Written(p) \intersect Conns
      PROVE  Carried(payload[p]) \subseteq OwnNotes(Owner[c])
  <2>1. Sending(p) /\ c \in todo[p]
    BY <1>1, <1>2 DEF Continue, StoreAppend, StoreSet, RemoveFilter, RemoveDel, SendInfo,
       SendWrite, SendBack, Return, SendReturn, sendVars, Written, Sending
  <2>2. Owner[c] = user[p]
    BY <2>1 DEF SendInv
  <2> QED BY <2>1, <2>2 DEF OwnInv, MessageOwn
<1>3. OnlyOwn'
  BY <1>1, <1>2, DeliverOwn DEF OwnInv, HandlerTypeOK
<1>4. \A q \in Procs \ {p} : pc'[q] = pc[q] /\ user'[q] = user[q]
  BY <1>1 DEF Continue, StoreAppend, StoreSet, RemoveFilter, RemoveDel, SendInfo, SendWrite,
     SendBack, Return, SendReturn, Goto, sendVars
<1>5. Sending(p)' => Sending(p) /\ user'[p] = user[p]
  BY <1>1 DEF Continue, StoreAppend, StoreSet, RemoveFilter, RemoveDel, SendInfo, SendWrite,
     SendBack, Return, SendReturn, Goto, sendVars, Sending
<1>6. \A q \in Procs : payload'[q] = payload[q] \/ payload'[q] = Nothing
  BY <1>1 DEF PayloadGiven, HandlerTypeOK
<1> QED BY <1>1, <1>3, <1>4, <1>5, <1>6, SameMessage DEF OwnInv, Sending

\* sendToUser takes the message over
LEMMA SendToUserOwn ==
    ASSUME HandlerInv, OwnInv, UNCHANGED <<view, received, status>>,
           NEW p \in Procs, NEW u, NEW f, SendToUser(p, u, f), PayloadGiven(p),
           Carried(payload[p]) \subseteq OwnNotes(u)
    PROVE  OwnInv'
<1> USE DEF HandlerInv, IInv, TypeOK, HandlerTypeOK
<1>1. Born' = Born /\ OnlyOwn'
  BY SameClients DEF Born, OwnInv
<1>2. /\ \A q \in Procs \ {p} : pc'[q] = pc[q] /\ user'[q] = user[q] /\ payload'[q] = payload[q]
      /\ payload'[p] = payload[p] \/ payload'[p] = Nothing
      /\ Sending(p)' => u = user'[p]
  BY DEF SendToUser, PayloadGiven, Goto, Sending
<1>3. \A q \in Procs \ {p} : MessageOwn(q)'
  BY <1>1, <1>2, SameMessage DEF OwnInv, Sending
<1>4. MessageOwn(p)'
  <2>1. Carried(payload'[p]) \subseteq Carried(payload[p])
    BY <1>2, WhatIsCarried
  <2> QED BY <1>1, <1>2, <2>1 DEF OwnInv, MessageOwn, OwnNotes
<1> QED BY <1>1, <1>3, <1>4 DEF OwnInv

\* every goroutine keeps or drops its message, and what the clients have stays
LEMMA SameMessages ==
    ASSUME OwnInv, Born \subseteq Born', UNCHANGED <<view, received>>,
           \A p \in Procs : payload'[p] = payload[p] \/ payload'[p] = Nothing,
           \A p \in Procs : Sending(p)' => Sending(p) /\ user'[p] = user[p]
    PROVE  OwnInv'
BY SameClients, SameMessage DEF OwnInv

LEMMA PrepareOwn ==
    ASSUME HandlerInv, OwnInv, UNCHANGED <<vars, status, view, received>>, NEW c \in Conns,
           \/ SendAllNotificationsToClient(c)
           \/ SendEmptyNotificationListToClient(c)
           \/ SendConfigurationsToClient(c)
    PROVE  OwnInv'
<1> USE Goroutines DEF HandlerInv, HandlerTypeOK, IInv, TypeOK, vars, procVars, sendVars
<1>1. Born' = Born /\ UNCHANGED <<pc, user>>
  BY DEF Born
<1>2. Unread(Owner[c]) \subseteq OwnNotes(Owner[c])
  BY DEF Unread, Repo!FindAll, Repo!OfUser, Repo!Stored, OwnNotes, Born
<1>3. Carried(payload'[Serve(c)]) \subseteq OwnNotes(Owner[c])
      /\ \A q \in Procs \ {Serve(c)} : payload'[q] = payload[q]
  <2>1. CASE SendAllNotificationsToClient(c)
    <3>1. \A result \in FindAll(Owner[c]) : ~result.err => result.notes = Unread(Owner[c])
      BY DEF FindAll, Unread
    <3>2. UNCHANGED payload
          \/ payload' = [payload EXCEPT ![Serve(c)] = List(Unread(Owner[c]))]
      BY <2>1, <3>1 DEF SendAllNotificationsToClient, SkipMessage, Prepare
    <3> QED BY <1>2, <3>2, WhatIsCarried DEF OwnInv, MessageOwn
  <2>2. CASE SendEmptyNotificationListToClient(c)
    BY <2>2, WhatIsCarried DEF SendEmptyNotificationListToClient, Prepare
  <2>3. CASE SendConfigurationsToClient(c)
    <3>1. UNCHANGED payload \/ \E f : payload' = [payload EXCEPT ![Serve(c)] = Conf(f)]
      BY <2>3 DEF SendConfigurationsToClient, SkipMessage, Prepare
    <3> QED BY <3>1, WhatIsCarried DEF OwnInv, MessageOwn
  <2> QED BY <2>1, <2>2, <2>3
<1>4. ~Sending(Serve(c))
  BY DEF SendAllNotificationsToClient, SendEmptyNotificationListToClient,
     SendConfigurationsToClient, Due, Sending
<1>5. MessageOwn(Serve(c))'
  <2>1. ~Sending(Serve(c))'
    BY <1>1, <1>4 DEF Sending
  <2>2. ASSUME NEW d \in Conns, Serve(c) = Serve(d)
        PROVE  Carried(payload[Serve(c)])' \subseteq OwnNotes(Owner[d])'
    BY <1>1, <1>3, <2>2 DEF OwnNotes
  <2> QED BY <2>1, <2>2 DEF MessageOwn
<1>6. \A q \in Procs \ {Serve(c)} : MessageOwn(q)'
  BY <1>1, <1>3, SameMessage DEF OwnInv, Sending
<1> QED BY <1>1, <1>5, <1>6, SameClients DEF OwnInv

LEMMA ServeStepOwn ==
    ASSUME HandlerInv, OwnInv, NEW c \in Conns,
           ServeStep(c) \/ Upgrade(c) \/ ReadError(c) \/ PingFails(c) \/ ServePanics(c)
    PROVE  OwnInv'
<1> USE Goroutines DEF HandlerInv, HandlerTypeOK, IInv, TypeOK, vars, procVars, sendVars,
        connVars, clientVars, dbVars
<1>1. CASE \/ SendAllNotificationsToClient(c)
           \/ SendEmptyNotificationListToClient(c)
           \/ SendConfigurationsToClient(c)
  BY <1>1, PrepareOwn DEF SendAllNotificationsToClient, SendEmptyNotificationListToClient,
     SendConfigurationsToClient
<1>2. CASE SendPrepared(c)
  <2>1. PICK f : SendToUser(Serve(c), Owner[c], f) /\ PayloadGiven(Serve(c))
    BY <1>2 DEF SendPrepared
  <2> QED BY <1>2, <2>1, SendToUserOwn DEF SendPrepared, OwnInv, MessageOwn
<1>3. CASE \/ FindConfiguration(c) \/ CreateDefault(c) \/ StoreReturned(c) \/ StartReading(c)
           \/ UpdateInfo(c) \/ ReadLoopEnds(c) \/ Upgrade(c)
  <2>1. UNCHANGED <<view, received, status, payload, pc, user>>
    BY <1>3 DEF FindConfiguration, CreateDefault, StoreReturned, StartReading, UpdateInfo,
       UpdateClientInfo, ReadLoopEnds, Upgrade, Close, Break
  <2> QED BY <2>1, SameMessages DEF Born, Sending
<1>4. CASE Store(c) \/ ReadError(c) \/ PingFails(c)
  <2>1. UNCHANGED <<view, received, status, payload, user>>
    BY <1>4 DEF Store, StoreClient, ReadError, PingFails, RemoveConnection
  <2>2. \A p \in Procs : pc'[p] = pc[p] \/ pc'[p] \in {"storeLock", "removeLock"}
    BY <1>4 DEF Store, StoreClient, ReadError, PingFails, RemoveConnection, Goto
  <2> QED BY <2>1, <2>2, SameMessages DEF Born, Sending
<1>5. CASE ServePanics(c)
  <2>1. UNCHANGED <<view, received, status>>
    BY <1>5 DEF ServePanics
  <2>2. \A p \in Procs : /\ pc'[p] = "idle" \/ (pc'[p] = pc[p] /\ user'[p] = user[p])
                         /\ payload'[p] = payload[p] \/ payload'[p] = Nothing
    BY <1>5 DEF ServePanics, SendPanics, SendReturn, Goto, PayloadGiven
  <2> QED BY <2>1, <2>2, SameMessages DEF Born, Sending
<1> QED BY <1>1, <1>2, <1>3, <1>4, <1>5 DEF ServeStep

LEMMA EventOwn ==
    ASSUME HandlerInv, OwnInv, NEW c \in Conns, ClientEvent(c)
    PROVE  OwnInv'
<1>1. UNCHANGED <<view, received, payload>>
  BY DEF ClientEvent, MarkAsReadAction, MarkAppReadAction, MarkGroupAsReadAction,
     MarkNotificationAsReadAction, DeleteNotificationsAction, DeleteAppNotificationsAction,
     DeleteGroupNotificationAction, DeleteNotificationAction, ReloadNotifications, ListAfter,
     SetNotificationStatusAction, Event, clientVars
<1> QED BY <1>1, EventLeavesStore, EventKeepsBorn, SameMessages
        DEF Sending, vars, procVars, sendVars

LEMMA CreatorOwn ==
    ASSUME HandlerInv, OwnInv, NEW p \in Creators,
           \/ PushCreated(p) \/ CreatorPanics(p)
           \/ \E n \in Notes : CreateNotification(p, n)
    PROVE  OwnInv'
<1> USE Goroutines DEF HandlerInv, HandlerTypeOK, IInv, TypeOK, vars, procVars, sendVars,
        clientVars, dbVars
<1>1. CASE PushCreated(p)
  <2>1. PICK n \in Notes : payload[p] = New(n)
    BY <1>1 DEF PushCreated, CreatorInv
  <2>2. SendToUser(p, Doc[n].userId, "check") /\ PayloadGiven(p)
    BY <1>1, <2>1 DEF PushCreated, New
  <2>3. Carried(payload[p]) \subseteq OwnNotes(Doc[n].userId)
    BY <2>1, WhatIsCarried DEF OwnInv, MessageOwn, OwnNotes
  <2> QED BY <1>1, <2>2, <2>3, SendToUserOwn DEF PushCreated
<1>2. CASE CreatorPanics(p)
  <2>1. UNCHANGED <<view, received, status>>
    BY <1>2 DEF CreatorPanics
  <2>2. \A q \in Procs : /\ pc'[q] = "idle" \/ (pc'[q] = pc[q] /\ user'[q] = user[q])
                         /\ payload'[q] = payload[q] \/ payload'[q] = Nothing
    BY <1>2 DEF CreatorPanics, SendPanics, SendReturn, Goto, PayloadGiven
  <2> QED BY <2>1, <2>2, SameMessages DEF Born, Sending
<1>3. CASE \E n \in Notes : CreateNotification(p, n)
  <2>1. PICK n \in Notes : CreateNotification(p, n)
    BY <1>3
  <2>2. /\ UNCHANGED <<view, received, pc, user>> /\ pc[p] = "idle"
        /\ \A q \in Procs \ {p} : payload'[q] = payload[q]
        /\ \/ UNCHANGED payload
           \/ payload'[p] = New(n) /\ status' = [status EXCEPT ![n] = "unread"]
    BY <2>1 DEF CreateNotification, Create, Repo!Create
  <2>3. Born \subseteq Born'
    <3>1. Repo!Create(n) \/ UNCHANGED status
      BY <2>1 DEF CreateNotification, Create
    <3> QED BY <3>1, RequestKeepsBorn
  <2>4. ~Sending(p)' /\ \A c \in Conns : p # Serve(c)
    BY <2>2 DEF Sending
  <2>5. MessageOwn(p)'
    <3>1. CASE UNCHANGED payload
      BY <2>2, <2>3, <3>1, SameMessage DEF OwnInv, Sending
    <3>2. CASE payload'[p] = New(n) /\ status' = [status EXCEPT ![n] = "unread"]
      <4>1. n \in Born'
        BY <3>2 DEF Born, Repo!StatusTypeOK
      <4> QED BY <2>4, <3>2, <4>1, WhatIsCarried DEF MessageOwn
    <3> QED BY <2>2, <3>1, <3>2
  <2>6. \A q \in Procs \ {p} : MessageOwn(q)'
    BY <2>2, <2>3, SameMessage DEF OwnInv, Sending
  <2> QED BY <2>2, <2>3, <2>5, <2>6, SameClients DEF OwnInv
<1> QED BY <1>1, <1>2, <1>3

LEMMA RedialOwn ==
    ASSUME HandlerInv, OwnInv, NEW c \in Conns, Redial(c)
    PROVE  OwnInv'
<1>1. UNCHANGED <<status, payload, pc, user>>
  BY DEF Redial, Renew, procVars, sendVars, dbVars
<1>2. Born' = Born /\ \A p \in Procs : MessageOwn(p)'
  BY <1>1, SameMessage DEF OwnInv, Born, Sending
<1>3. \A d \in Conns : view'[d] \subseteq view[d] /\ received'[d] \subseteq received[d]
  BY DEF Redial, NewClient, HandlerInv, HandlerTypeOK
<1> QED BY <1>2, <1>3 DEF OwnInv, OnlyOwn, OwnNotes

LEMMA RestartOwn == ProcessDies => OwnInv'
BY WhatIsCarried, Goroutines DEF ProcessDies, Crash, OwnInv, OnlyOwn, MessageOwn, Sending

LEMMA OtherOwn ==
    ASSUME HandlerInv, OwnInv,
           \/ \E c \in Conns : ConnectionBreaks(c) \/ PeerStalls(c)
           \/ \E p, q \in Procs : SendersCollide(p, q)
           \/ OtherReplicaStores \/ OtherReplicaRequests \/ Rest \/ UNCHANGED hvars
    PROVE  OwnInv'
<1> USE DEF hvars, vars, procVars, sendVars, connVars, clientVars, dbVars
<1>1. CASE \E p, q \in Procs : SendersCollide(p, q)
  <2>1. PICK p \in Procs, q \in Procs : SendersCollide(p, q)
    BY <1>1
  <2>2. UNCHANGED <<view, received, status>>
        /\ \A r \in Procs : /\ pc'[r] = "idle" \/ (pc'[r] = pc[r] /\ user'[r] = user[r])
                            /\ payload'[r] = payload[r] \/ payload'[r] = Nothing
    BY <2>1 DEF SendersCollide, SendBackTorn, HandlerInv, HandlerTypeOK, IInv, TypeOK
  <2> QED BY <2>2, SameMessages DEF Born, Sending
<1>2. CASE ~ \E p, q \in Procs : SendersCollide(p, q)
  <2>1. UNCHANGED <<view, received, payload, pc, user>>
    BY <1>2 DEF ConnectionBreaks, PeerStalls, OtherReplicaStores, OtherReplicaRequests, Rest,
       Break, OtherReplica
  <2>2. \/ \E S : Repo!SetReadStatus(S) \/ Repo!Remove(S)
        \/ \E n \in Notes : Repo!Create(n)
        \/ UNCHANGED status
    BY <1>2 DEF ConnectionBreaks, PeerStalls, OtherReplicaStores, OtherReplicaRequests, Rest,
       Create, MarkNotificationAsRead, DeleteNotification, MarkAsRead, DeleteNotifications,
       RequestFails, Repo!MarkNotificationAsRead, Repo!DeleteNotification, Repo!MarkAsRead,
       Repo!DeleteNotifications
  <2> QED BY <2>1, <2>2, RequestKeepsBorn, SameMessages DEF Sending
<1> QED BY <1>1, <1>2

LEMMA NextOwnInv == HandlerInv /\ OwnInv /\ [HandlerNext]_hvars => OwnInv'
<1> SUFFICES ASSUME HandlerInv, OwnInv, [HandlerNext]_hvars PROVE OwnInv'
  OBVIOUS
<1>1. CASE ServerRestarts \/ \E c \in Conns : PingPanics(c)
  BY <1>1, RestartOwn DEF ServerRestarts, PingPanics
<1> QED BY <1>1, StoreStepOwn, ServeStepOwn, EventOwn, CreatorOwn, RedialOwn, OtherOwn
        DEF HandlerNext

(***************************************************************************)
(* OnlyOwnHolds: no order of handlers, creators, senders, removals,        *)
(* redials, crashes, torn lists and failures lets a notification of one    *)
(* user reach a client of another, or one that has not been stored reach   *)
(* anybody (client_store.go:253-321, notification_service_impl.go).        *)
(***************************************************************************)
THEOREM OnlyOwnHolds == HandlerSpec => []OnlyOwn
<1>1. HandlerInit => OwnInv
  BY WhatIsCarried, Goroutines DEF HandlerInit, Init, ProcInit, OwnInv, OnlyOwn, MessageOwn,
     Sending
<1>2. HandlerInv /\ OwnInv /\ [HandlerNext]_hvars => OwnInv'
  BY NextOwnInv
<1>3. OwnInv => OnlyOwn
  BY DEF OwnInv
<1> QED BY <1>1, <1>2, <1>3, HandlerInvariance, PTL DEF HandlerSpec
=============================================================================
