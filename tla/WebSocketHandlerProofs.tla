----------------------- MODULE WebSocketHandlerProofs -----------------------
(***************************************************************************)
(* Proofs about WebSocketHandler.  First, every step of the server is a    *)
(* step of the client store (or leaves it alone), so that what is proved   *)
(* in ClientStoreProofs for arbitrary callers holds in the server.  Then   *)
(* the inductive invariant HandlerInv, and with it that a connection that  *)
(* was registered and has been closed is in no list.                       *)
(***************************************************************************)
EXTENDS WebSocketHandler, ClientStoreProofs

-----------------------------------------------------------------------------
(***************************************************************************)
(* The goroutines of the connections are different from one another and    *)
(* from the creators.                                                      *)
(***************************************************************************)
LEMMA Goroutines ==
    /\ \A c \in Conns : Serve(c) \in Procs /\ Ping(c) \in Procs
    /\ \A p \in Creators : p \in Procs
    /\ \A c, d \in Conns : Serve(c) = Serve(d) => c = d
    /\ \A c, d \in Conns : Serve(c) # Ping(d)
    /\ \A c \in Conns : Serve(c) \notin Creators /\ Ping(c) \notin Creators
BY ProcsAssumption, CreatorsAssumption DEF Serve, Ping

LEMMA SameFlags == ConfigRepo!Flags = Flags
BY DEF Flags, ConfigRepo!Flags

LEMMA FindResults ==
    ASSUME ConfigRepo!ConfigTypeOK, NEW c \in Conns
    PROVE  \A result \in FindByAppAndUser(Owner[c]) : result = "error" \/ result \in Flags
BY SameFlags, OwnerAssumption
DEF ConfigRepo!ConfigTypeOK, FindByAppAndUser, ConfigRepo!FindByAppAndUser

LEMMA AgendaMembers ==
    /\ <<>> \in Agendas /\ <<"all">> \in Agendas
    /\ <<"all", "config">> \in Agendas /\ <<"empty", "config">> \in Agendas
BY DEF Agendas

LEMMA AgendaTail ==
    ASSUME NEW a \in Agendas, a # <<>>
    PROVE  Tail(a) \in Agendas
<1>1. Tail(<<"all">>) = <<>> /\ Tail(<<"config">>) = <<>>
  OBVIOUS
<1>2. Tail(<<"all", "config">>) = <<"config">> /\ Tail(<<"empty", "config">>) = <<"config">>
  OBVIOUS
<1> QED BY <1>1, <1>2 DEF Agendas

-----------------------------------------------------------------------------
(***************************************************************************)
(* What a step of the handler does to the store.                           *)
(***************************************************************************)
LEMMA ServeStepIsStoreStep ==
    ASSUME HandlerInv, NEW c \in Conns, ServeStep(c)
    PROVE  [Next]_vars
<1> USE Goroutines
<1>1. CASE FindConfiguration(c) \/ StartReading(c)
  BY <1>1 DEF FindConfiguration, StartReading
<1>2. CASE CreateDefault(c) \/ StoreReturned(c) \/ ReadLoopEnds(c)
  BY <1>2 DEF CreateDefault, StoreReturned, ReadLoopEnds, Close, Next
<1>3. CASE Store(c)
  <2>1. info[c] \in Flags
    BY DEF HandlerInv, HandlerTypeOK
  <2> QED BY <1>3, <2>1 DEF Store, Next, Call
<1>4. CASE \/ SendAllNotificationsToClient(c)
           \/ SendEmptyNotificationListToClient(c)
           \/ SendConfigurationsToClient(c)
  BY <1>4 DEF SendAllNotificationsToClient, SendEmptyNotificationListToClient,
     SendConfigurationsToClient
<1>5. CASE SendPrepared(c)
  <2>1. \E f \in {"bypass", "check"} : SendToUser(Serve(c), Owner[c], f)
    BY <1>5 DEF SendPrepared
  <2> QED BY <2>1, OwnerAssumption DEF Next, Call
<1>6. CASE UpdateInfo(c)
  <2>1. info[c] \in Flags /\ Owner[c] \in Users
    BY OwnerAssumption DEF HandlerInv, HandlerTypeOK
  <2> QED BY <1>6, <2>1 DEF UpdateInfo, Next
<1> QED BY <1>1, <1>2, <1>3, <1>4, <1>5, <1>6 DEF ServeStep

LEMMA EventLeavesStore ==
    ASSUME NEW c \in Conns, ClientEvent(c)
    PROVE  UNCHANGED vars
BY DEF ClientEvent, MarkAsReadAction, MarkAppReadAction, MarkGroupAsReadAction,
   MarkNotificationAsReadAction, DeleteNotificationsAction, DeleteAppNotificationsAction,
   DeleteGroupNotificationAction, DeleteNotificationAction, ReloadNotifications, ListAfter,
   SetNotificationStatusAction, Event

LEMMA CreatorIsStoreStep ==
    ASSUME HandlerInv, NEW p \in Creators,
           \/ PushCreated(p)
           \/ \E n \in Notes : CreateNotification(p, n)
           \/ CreatorPanics(p)
    PROVE  [Next]_vars
<1> USE Goroutines
<1>1. CASE PushCreated(p)
  <2>1. PICK n \in Notes : payload[p] = New(n)
    BY <1>1 DEF HandlerInv, CreatorInv, PushCreated
  <2>2. Doc[payload[p].note].userId \in Users
    BY <2>1, DocAssumption DEF New
  <2> QED BY <1>1, <2>2 DEF PushCreated, Next, Call
<1>2. CASE \E n \in Notes : CreateNotification(p, n)
  BY <1>2 DEF CreateNotification
<1>3. CASE CreatorPanics(p)
  BY <1>3 DEF CreatorPanics, Next
<1> QED BY <1>1, <1>2, <1>3

LEMMA HandlerStepIsStoreStep == HandlerInv /\ [HandlerNext]_hvars => [Next]_vars
<1> SUFFICES ASSUME HandlerInv, [HandlerNext]_hvars PROVE [Next]_vars
  OBVIOUS
<1> USE Goroutines
<1>1. ASSUME NEW p \in Procs, StoreStep(p) PROVE Next
  BY <1>1 DEF StoreStep, Next
<1>2. ASSUME NEW c \in Conns, Upgrade(c) \/ ServeStep(c) \/ ClientEvent(c) PROVE [Next]_vars
  BY <1>2, ServeStepIsStoreStep, EventLeavesStore DEF Upgrade
<1>3. ASSUME NEW c \in Conns, ReadError(c) \/ PingFails(c) PROVE Next
  BY <1>3 DEF ReadError, PingFails, Next, Call
<1>4. ASSUME NEW c \in Conns, ServePanics(c) PROVE Next
  BY <1>4 DEF ServePanics, Next
<1>5. ASSUME NEW p \in Procs, NEW q \in Procs, SendersCollide(p, q) PROVE Next
  BY <1>5 DEF SendersCollide, Next
<1>6. ASSUME NEW c \in Conns, ConnectionBreaks(c) \/ Redial(c) PROVE Next
  BY <1>6 DEF ConnectionBreaks, Redial, Next
<1>7. CASE ServerRestarts \/ \E c \in Conns : PingPanics(c)
  BY <1>7 DEF ServerRestarts, PingPanics, ProcessDies, Next
<1>8. ASSUME NEW c \in Conns, PeerStalls(c) PROVE UNCHANGED vars
  BY <1>8 DEF PeerStalls
<1>9. CASE OtherReplicaStores \/ OtherReplicaRequests
  BY <1>9 DEF OtherReplicaStores, OtherReplicaRequests, Next
<1>10. CASE Rest \/ UNCHANGED hvars
  BY <1>10 DEF Rest, hvars
<1> QED BY <1>1, <1>2, <1>3, <1>4, <1>5, <1>6, <1>7, <1>8, <1>9, <1>10, CreatorIsStoreStep
        DEF HandlerNext

-----------------------------------------------------------------------------
(***************************************************************************)
(* The types of the handler's own variables.                               *)
(***************************************************************************)
ServerTypes ==
    /\ stage \in [Conns -> Stages]
    /\ info \in [Conns -> Flags]
    /\ agenda \in [Conns -> Agendas]
    /\ budget \in [Conns -> 0 .. MaxEvents]
    /\ pinging \in [Conns -> BOOLEAN]
PayloadTypes == payload \in [Procs -> Messages]
ClientTypes ==
    /\ view \in [Conns -> SUBSET Notes]
    /\ received \in [Conns -> SUBSET Notes]
    /\ shown \in [Conns -> Flags \union {"none"}]
    /\ stalled \subseteq Conns
DatabaseTypes == Repo!StatusTypeOK /\ ConfigRepo!ConfigTypeOK

OwnTypes == ServerTypes /\ PayloadTypes /\ ClientTypes /\ DatabaseTypes

LEMMA TypesSplit == HandlerTypeOK <=> TypeOK /\ OwnTypes
BY DEF HandlerTypeOK, OwnTypes, ServerTypes, PayloadTypes, ClientTypes, DatabaseTypes

LEMMA MessageTypes ==
    /\ Nothing \in Messages
    /\ \A u : \A result \in FindAll(u) : ~result.err => List(result.notes) \in Messages
    /\ List({}) \in Messages
    /\ \A n \in Notes : New(n) \in Messages
    /\ \A f \in Flags : Conf(f) \in Messages
BY DEF Messages, FindAll, Repo!FindAll, Repo!OfUser

LEMMA DeliverTypes ==
    ASSUME ClientTypes, NEW S, NEW m \in Messages, Deliver(S, m)
    PROVE  ClientTypes'
<1>1. ASSUME NEW c \in Conns
      PROVE  /\ Shows(c, m) \in SUBSET Notes
             /\ Carried(m) \in SUBSET Notes
             /\ m.kind = "listConfigurations" => m.flag \in Flags
  <2>1. CASE m = Nothing
    BY <2>1 DEF ClientTypes, Shows, Carried, Nothing
  <2>2. CASE \E N \in SUBSET Notes : m = List(N)
    BY <2>2 DEF ClientTypes, Shows, Carried, List
  <2>3. CASE \E n \in Notes : m = New(n)
    BY <2>3 DEF ClientTypes, Shows, Carried, New
  <2>4. CASE \E f \in Flags : m = Conf(f)
    BY <2>4 DEF ClientTypes, Shows, Carried, Conf
  <2> QED BY <2>1, <2>2, <2>3, <2>4 DEF Messages
<1> QED BY <1>1 DEF Deliver, ClientTypes

LEMMA PayloadGivenTypes ==
    ASSUME PayloadTypes, NEW p \in Procs, PayloadGiven(p)
    PROVE  PayloadTypes'
BY MessageTypes DEF PayloadTypes, PayloadGiven

LEMMA StoreStepTypes ==
    ASSUME OwnTypes, NEW p \in Procs, StoreStep(p)
    PROVE  OwnTypes'
<1>1. payload[p] \in Messages
  BY DEF OwnTypes, PayloadTypes
<1>2. ClientTypes'
  BY <1>1, DeliverTypes DEF OwnTypes, StoreStep
<1>3. PayloadTypes'
  BY PayloadGivenTypes DEF OwnTypes, StoreStep
<1>4. ServerTypes' /\ DatabaseTypes'
  BY DEF OwnTypes, StoreStep, ServerTypes, DatabaseTypes, Repo!StatusTypeOK, ConfigRepo!ConfigTypeOK,
     serverVars, dbVars
<1> QED BY <1>2, <1>3, <1>4 DEF OwnTypes

LEMMA PrepareTypes ==
    ASSUME PayloadTypes, agenda \in [Conns -> Agendas], NEW c \in Conns,
           \/ \E m \in Messages : Prepare(c, m)
           \/ agenda[c] # <<>> /\ SkipMessage(c)
    PROVE  PayloadTypes' /\ agenda' \in [Conns -> Agendas]
<1>1. CASE \E m \in Messages : Prepare(c, m)
  BY <1>1, Goroutines DEF PayloadTypes, Prepare
<1>2. CASE agenda[c] # <<>> /\ SkipMessage(c)
  BY <1>2, AgendaTail DEF PayloadTypes, SkipMessage
<1> QED BY <1>1, <1>2

LEMMA ServeStepTypes ==
    ASSUME OwnTypes, NEW c \in Conns, ServeStep(c)
    PROVE  OwnTypes'
<1> USE OwnerAssumption
    DEF OwnTypes, ServerTypes, PayloadTypes, ClientTypes, DatabaseTypes, Repo!StatusTypeOK,
        ConfigRepo!ConfigTypeOK, clientVars, dbVars, To
<1>1. CASE FindConfiguration(c)
  BY <1>1 DEF FindConfiguration, Stages, Flags
<1>2. CASE CreateDefault(c)
  BY <1>2, SameFlags DEF CreateDefault, CreateConfiguration, ConfigRepo!CreateConfiguration,
     Stages, Flags
<1>3. CASE Store(c)
  BY <1>3 DEF Store, Stages
<1>4. CASE StoreReturned(c)
  <2>1. agenda' \in [Conns -> Agendas]
    BY <1>4, AgendaMembers DEF StoreReturned
  <2>2. stage' \in [Conns -> Stages]
    BY <1>4 DEF StoreReturned, Stages
  <2> QED BY <1>4, <2>1, <2>2 DEF StoreReturned
<1>5. CASE \/ SendAllNotificationsToClient(c)
           \/ SendEmptyNotificationListToClient(c)
           \/ SendConfigurationsToClient(c)
  <2>1. (\E m \in Messages : Prepare(c, m)) \/ (agenda[c] # <<>> /\ SkipMessage(c))
    <3>1. CASE SendAllNotificationsToClient(c)
      BY <3>1, MessageTypes DEF SendAllNotificationsToClient, Due
    <3>2. CASE SendEmptyNotificationListToClient(c)
      BY <3>2, MessageTypes DEF SendEmptyNotificationListToClient
    <3>3. CASE SendConfigurationsToClient(c)
      <4>1. \A result \in FindByAppAndUser(Owner[c]) : result = "error" \/ result \in Flags
        BY FindResults
      <4> QED BY <3>3, <4>1, MessageTypes DEF SendConfigurationsToClient, Due
    <3> QED BY <1>5, <3>1, <3>2, <3>3
  <2>2. UNCHANGED <<stage, info, budget, pinging, clientVars, dbVars>>
    BY <1>5 DEF SendAllNotificationsToClient, SendEmptyNotificationListToClient,
       SendConfigurationsToClient
  <2>3. PayloadTypes' /\ agenda' \in [Conns -> Agendas]
    BY <2>1, PrepareTypes
  <2> QED BY <2>2, <2>3
<1>6. CASE SendPrepared(c)
  <2>1. PayloadTypes'
    BY <1>6, PayloadGivenTypes, Goroutines DEF SendPrepared
  <2>2. agenda' \in [Conns -> Agendas]
    BY <1>6, AgendaTail DEF SendPrepared
  <2> QED BY <1>6, <2>1, <2>2 DEF SendPrepared
<1>7. CASE StartReading(c)
  BY <1>7 DEF StartReading, Stages
<1>8. CASE UpdateInfo(c)
  <2>1. agenda' \in [Conns -> Agendas]
    BY <1>8, AgendaMembers DEF UpdateInfo
  <2>2. stage' \in [Conns -> Stages]
    BY <1>8 DEF UpdateInfo, Stages
  <2> QED BY <1>8, <2>1, <2>2 DEF UpdateInfo
<1>9. CASE ReadLoopEnds(c)
  BY <1>9 DEF ReadLoopEnds, Stages
<1> QED BY <1>1, <1>2, <1>3, <1>4, <1>5, <1>6, <1>7, <1>8, <1>9 DEF ServeStep

LEMMA RequestTypes ==
    ASSUME Repo!StatusTypeOK, NEW S, Repo!SetReadStatus(S) \/ Repo!Remove(S)
    PROVE  Repo!StatusTypeOK'
BY DEF Repo!StatusTypeOK, Repo!SetReadStatus, Repo!Remove

LEMMA ListAfterTypes ==
    ASSUME OwnTypes, NEW c \in Conns,
           UNCHANGED <<stage, info, config, pinging, payload, clientVars>>,
           agenda' = [agenda EXCEPT ![c] = <<"all">>],
           budget[c] > 0, budget' = [budget EXCEPT ![c] = @ - 1],
           Repo!StatusTypeOK'
    PROVE  OwnTypes'
BY MaxEventsAssumption
DEF OwnTypes, ServerTypes, PayloadTypes, ClientTypes, DatabaseTypes, ConfigRepo!ConfigTypeOK, Agendas,
    clientVars

LEMMA EventTypes ==
    ASSUME OwnTypes, NEW c \in Conns, ClientEvent(c)
    PROVE  OwnTypes'
<1>1. CASE \E name, S :
             /\ Event(c, name)
             /\ Repo!SetReadStatus(S) \/ Repo!Remove(S) \/ UNCHANGED status
             /\ agenda' = [agenda EXCEPT ![c] = <<"all">>]
             /\ UNCHANGED <<stage, info, config>>
  <2>1. Repo!StatusTypeOK'
    BY <1>1, RequestTypes DEF OwnTypes, DatabaseTypes, Repo!StatusTypeOK
  <2> QED BY <1>1, <2>1, ListAfterTypes DEF Event
<1>2. CASE \E f \in Flags : SetNotificationStatusAction(c, f)
  BY <1>2, MaxEventsAssumption, OwnerAssumption, SameFlags
  DEF OwnTypes, ServerTypes, PayloadTypes, ClientTypes, DatabaseTypes, Repo!StatusTypeOK,
      ConfigRepo!ConfigTypeOK, SetNotificationStatusAction, Event, UpdateConfiguration,
      ConfigRepo!UpdateConfiguration, To, Stages, clientVars
<1>3. (\E f \in Flags : SetNotificationStatusAction(c, f))
      \/ \E name, S :
             /\ Event(c, name)
             /\ Repo!SetReadStatus(S) \/ Repo!Remove(S) \/ UNCHANGED status
             /\ agenda' = [agenda EXCEPT ![c] = <<"all">>]
             /\ UNCHANGED <<stage, info, config>>
  BY DEF ClientEvent, MarkAsReadAction, MarkAppReadAction, MarkGroupAsReadAction,
     MarkNotificationAsReadAction, DeleteNotificationsAction, DeleteAppNotificationsAction,
     DeleteGroupNotificationAction, DeleteNotificationAction, ReloadNotifications, ListAfter,
     MarkAsRead, MarkAppAsRead, MarkGroupAsRead, MarkNotificationAsRead, DeleteNotifications,
     DeleteAppNotifications, DeleteGroupNotifications, DeleteNotification, RequestFails,
     Repo!MarkAsRead, Repo!MarkAppAsRead, Repo!MarkGroupAsRead, Repo!MarkNotificationAsRead,
     Repo!DeleteNotifications, Repo!DeleteAppNotifications, Repo!DeleteGroupNotifications,
     Repo!DeleteNotification
<1> QED BY <1>1, <1>2, <1>3

LEMMA CreatorTypes ==
    ASSUME OwnTypes, NEW p \in Creators,
           \/ PushCreated(p)
           \/ \E n \in Notes : CreateNotification(p, n)
           \/ CreatorPanics(p)
    PROVE  OwnTypes'
<1> USE Goroutines
    DEF OwnTypes, ServerTypes, ClientTypes, DatabaseTypes, ConfigRepo!ConfigTypeOK, serverVars,
        clientVars, dbVars
<1>1. CASE PushCreated(p)
  BY <1>1, PayloadGivenTypes DEF PushCreated, Repo!StatusTypeOK
<1>2. ASSUME NEW n \in Notes, CreateNotification(p, n)
      PROVE  OwnTypes'
  <2>1. Repo!StatusTypeOK'
    BY <1>2 DEF CreateNotification, Create, Repo!Create, Repo!StatusTypeOK
  <2>2. PayloadTypes'
    BY <1>2, MessageTypes DEF CreateNotification, PayloadTypes
  <2> QED BY <1>2, <2>1, <2>2 DEF CreateNotification
<1>3. CASE CreatorPanics(p)
  BY <1>3, PayloadGivenTypes DEF CreatorPanics, Repo!StatusTypeOK
<1> QED BY <1>1, <1>2, <1>3

LEMMA OtherReplicaTypes ==
    ASSUME DatabaseTypes, OtherReplicaRequests
    PROVE  DatabaseTypes'
<1>1. CASE UNCHANGED config
  <2>1. \/ \E n \in Notes : status' = [status EXCEPT ![n] = "unread"]
        \/ \E S : Repo!SetReadStatus(S) \/ Repo!Remove(S)
        \/ UNCHANGED status
    BY <1>1 DEF OtherReplicaRequests, Create, MarkNotificationAsRead, DeleteNotification,
       MarkAsRead, DeleteNotifications, RequestFails, Repo!Create,
       Repo!MarkNotificationAsRead, Repo!DeleteNotification, Repo!MarkAsRead,
       Repo!DeleteNotifications
  <2>2. Repo!StatusTypeOK'
    BY <2>1, RequestTypes DEF DatabaseTypes, Repo!StatusTypeOK
  <2> QED BY <1>1, <2>2 DEF DatabaseTypes, ConfigRepo!ConfigTypeOK
<1>2. CASE /\ \E u \in Users, f \in Flags :
                UpdateConfiguration(u, f) \/ CreateConfiguration(u, f, FALSE)
           /\ UNCHANGED status
  BY <1>2, SameFlags
  DEF DatabaseTypes, Repo!StatusTypeOK, ConfigRepo!ConfigTypeOK, UpdateConfiguration,
     CreateConfiguration, ConfigRepo!UpdateConfiguration, ConfigRepo!CreateConfiguration
<1> QED BY <1>1, <1>2 DEF OtherReplicaRequests

LEMMA OwnTypesStep == OwnTypes /\ [HandlerNext]_hvars => OwnTypes'
<1> SUFFICES ASSUME OwnTypes, [HandlerNext]_hvars PROVE OwnTypes'
  OBVIOUS
<1>1. ASSUME NEW c \in Conns, Upgrade(c) \/ ReadError(c) \/ PingFails(c) PROVE OwnTypes'
  BY <1>1 DEF Upgrade, ReadError, PingFails, To, Stages, OwnTypes, ServerTypes, PayloadTypes,
     ClientTypes, DatabaseTypes, Repo!StatusTypeOK, ConfigRepo!ConfigTypeOK, clientVars, dbVars
<1>2. ASSUME NEW c \in Conns, ServePanics(c) PROVE OwnTypes'
  <2>1. PayloadTypes'
    BY <1>2, Goroutines, PayloadGivenTypes DEF OwnTypes, ServePanics
  <2>2. agenda' \in [Conns -> Agendas]
    BY <1>2, AgendaMembers DEF OwnTypes, ServerTypes, ServePanics
  <2> QED BY <1>2, <2>1, <2>2 DEF OwnTypes, ServerTypes, ClientTypes, DatabaseTypes,
        Repo!StatusTypeOK, ConfigRepo!ConfigTypeOK, ServePanics, To, Stages, clientVars, dbVars
<1>3. ASSUME NEW p \in Procs, NEW q \in Procs, SendersCollide(p, q) PROVE OwnTypes'
  BY <1>3, MessageTypes DEF SendersCollide, OwnTypes, ServerTypes, PayloadTypes, ClientTypes,
     DatabaseTypes, Repo!StatusTypeOK, ConfigRepo!ConfigTypeOK, serverVars, clientVars, dbVars
<1>4. ASSUME NEW c \in Conns, ConnectionBreaks(c) PROVE OwnTypes'
  BY <1>4 DEF ConnectionBreaks, OwnTypes, ServerTypes, PayloadTypes, ClientTypes,
     DatabaseTypes, Repo!StatusTypeOK, ConfigRepo!ConfigTypeOK, serverVars, clientVars, dbVars
<1>5. ASSUME NEW c \in Conns, Redial(c) PROVE OwnTypes'
  BY <1>5, MaxEventsAssumption DEF Redial, NewClient, OwnTypes, ServerTypes, PayloadTypes,
     ClientTypes, DatabaseTypes, Repo!StatusTypeOK, ConfigRepo!ConfigTypeOK, Stages, Flags, dbVars
<1>6. CASE ServerRestarts \/ \E c \in Conns : PingPanics(c)
  <2>1. ProcessDies
    BY <1>6 DEF ServerRestarts, PingPanics
  <2> QED BY <2>1, MaxEventsAssumption, MessageTypes, AgendaMembers
          DEF ProcessDies, OwnTypes, ServerTypes, PayloadTypes, ClientTypes, DatabaseTypes,
              Repo!StatusTypeOK, ConfigRepo!ConfigTypeOK, Stages, Flags, dbVars
<1>7. CASE Rest \/ UNCHANGED hvars
  BY <1>7 DEF Rest, hvars, OwnTypes, ServerTypes, PayloadTypes, ClientTypes, DatabaseTypes,
     Repo!StatusTypeOK, ConfigRepo!ConfigTypeOK, serverVars, clientVars, dbVars
<1>8. ASSUME NEW c \in Conns, PeerStalls(c) PROVE OwnTypes'
  BY <1>8 DEF PeerStalls, OwnTypes, ServerTypes, PayloadTypes, ClientTypes, DatabaseTypes,
     Repo!StatusTypeOK, ConfigRepo!ConfigTypeOK, serverVars, dbVars
<1>9. CASE OtherReplicaStores
  BY <1>9 DEF OtherReplicaStores, OwnTypes, ServerTypes, PayloadTypes, ClientTypes,
     DatabaseTypes, Repo!StatusTypeOK, ConfigRepo!ConfigTypeOK, serverVars, clientVars, dbVars
<1>10. CASE OtherReplicaRequests
  <2>1. DatabaseTypes'
    BY <1>10, OtherReplicaTypes DEF OwnTypes
  <2>2. UNCHANGED <<serverVars, payload, clientVars>>
    BY <1>10 DEF OtherReplicaRequests
  <2> QED BY <2>1, <2>2
          DEF OwnTypes, ServerTypes, PayloadTypes, ClientTypes, serverVars, clientVars
<1> QED BY <1>1, <1>2, <1>3, <1>4, <1>5, <1>6, <1>7, <1>8, <1>9, <1>10,
        StoreStepTypes, ServeStepTypes, EventTypes, CreatorTypes DEF HandlerNext

-----------------------------------------------------------------------------
(***************************************************************************)
(* Creators push notifications and nothing else.                           *)
(***************************************************************************)
LEMMA PayloadGivenCreator ==
    ASSUME OwnTypes, CreatorInv, NEW p \in Procs, PayloadGiven(p)
    PROVE  CreatorInv'
BY Goroutines DEF OwnTypes, PayloadTypes, CreatorInv, PayloadGiven

LEMMA ServePayload ==
    ASSUME OwnTypes, CreatorInv, NEW c \in Conns, NEW m,
           payload' = [payload EXCEPT ![Serve(c)] = m]
    PROVE  CreatorInv'
BY Goroutines DEF OwnTypes, PayloadTypes, CreatorInv

LEMMA SamePayload == ASSUME CreatorInv, UNCHANGED payload PROVE CreatorInv'
BY DEF CreatorInv

LEMMA CreatorInvStep == OwnTypes /\ CreatorInv /\ [HandlerNext]_hvars => CreatorInv'
<1> SUFFICES ASSUME OwnTypes, CreatorInv, [HandlerNext]_hvars PROVE CreatorInv'
  OBVIOUS
<1>1. ASSUME NEW p \in Procs, StoreStep(p) PROVE CreatorInv'
  BY <1>1, PayloadGivenCreator DEF StoreStep
<1>2. ASSUME NEW c \in Conns, ServeStep(c) PROVE CreatorInv'
  <2>1. CASE \/ FindConfiguration(c) \/ CreateDefault(c) \/ Store(c) \/ StoreReturned(c)
             \/ StartReading(c) \/ UpdateInfo(c) \/ ReadLoopEnds(c)
    BY <2>1, SamePayload DEF FindConfiguration, CreateDefault, Store, StoreReturned,
       StartReading, UpdateInfo, ReadLoopEnds
  <2>2. CASE \/ SendAllNotificationsToClient(c)
             \/ SendEmptyNotificationListToClient(c)
             \/ SendConfigurationsToClient(c)
    <3>1. \/ \E m : payload' = [payload EXCEPT ![Serve(c)] = m]
          \/ UNCHANGED payload
      BY <2>2 DEF SendAllNotificationsToClient, SendEmptyNotificationListToClient,
         SendConfigurationsToClient, Prepare, SkipMessage
    <3> QED BY <3>1, SamePayload, ServePayload
  <2>3. CASE SendPrepared(c)
    BY <2>3, PayloadGivenCreator, Goroutines DEF SendPrepared
  <2> QED BY <1>2, <2>1, <2>2, <2>3 DEF ServeStep
<1>3. ASSUME NEW c \in Conns, ClientEvent(c) PROVE CreatorInv'
  BY <1>3, SamePayload DEF ClientEvent, MarkAsReadAction, MarkAppReadAction,
     MarkGroupAsReadAction, MarkNotificationAsReadAction, DeleteNotificationsAction,
     DeleteAppNotificationsAction, DeleteGroupNotificationAction, DeleteNotificationAction,
     ReloadNotifications, ListAfter, SetNotificationStatusAction, Event
<1>4. ASSUME NEW p \in Creators, PushCreated(p) \/ CreatorPanics(p) PROVE CreatorInv'
  BY <1>4, PayloadGivenCreator, Goroutines DEF PushCreated, CreatorPanics
<1>5. ASSUME NEW p \in Creators, NEW n \in Notes, CreateNotification(p, n) PROVE CreatorInv'
  BY <1>5, SamePayload, Goroutines DEF CreateNotification, OwnTypes, PayloadTypes, CreatorInv
<1>6. ASSUME NEW c \in Conns, ServePanics(c) PROVE CreatorInv'
  BY <1>6, PayloadGivenCreator, Goroutines DEF ServePanics
<1>7. ASSUME NEW p \in Procs, NEW q \in Procs, SendersCollide(p, q) PROVE CreatorInv'
  <2>1. \A r \in Procs : payload'[r] \in {Nothing, payload[r]}
    BY <1>7 DEF SendersCollide, OwnTypes, PayloadTypes
  <2> QED BY <2>1, Goroutines DEF CreatorInv
<1>8. ASSUME NEW c \in Conns,
             Upgrade(c) \/ ReadError(c) \/ PingFails(c) \/ ConnectionBreaks(c) \/ Redial(c)
      PROVE  CreatorInv'
  BY <1>8, SamePayload DEF Upgrade, ReadError, PingFails, ConnectionBreaks, Redial
<1>9. CASE ServerRestarts \/ \E c \in Conns : PingPanics(c)
  BY <1>9, Goroutines DEF ServerRestarts, PingPanics, ProcessDies, CreatorInv
<1>10. CASE \/ \E c \in Conns : PeerStalls(c)
            \/ OtherReplicaStores \/ OtherReplicaRequests
            \/ Rest \/ UNCHANGED hvars
  BY <1>10, SamePayload
  DEF PeerStalls, OtherReplicaStores, OtherReplicaRequests, Rest, hvars
<1> QED BY <1>1, <1>2, <1>3, <1>4, <1>5, <1>6, <1>7, <1>8, <1>9, <1>10 DEF HandlerNext

-----------------------------------------------------------------------------
(***************************************************************************)
(* The stages of a connection, its registration and its removal.           *)
(***************************************************************************)
StagesInv == StoringInv /\ StageInv

\* a step that changes none of what the two invariants are about
LEMMA SameStages ==
    ASSUME StagesInv, UNCHANGED <<stage, phase, gone, pc, conn>>
    PROVE  StagesInv'
BY DEF StagesInv, StoringInv, StageInv

\* a goroutine moves in the store, outside registration and removal
LEMMA MovesElsewhere ==
    ASSUME IInv, StagesInv, NEW p \in Procs, pc[p] # "removeLock",
           NEW l, l \notin {"storeLock", "storeSet"}, Goto(p, l),
           \A q \in Procs \ {p} : conn'[q] = conn[q],
           UNCHANGED <<stage, phase, gone>>
    PROVE  StagesInv'
<1>1. \A q \in Procs \ {p} : pc'[q] = pc[q]
  BY DEF IInv, TypeOK, Goto
<1>2. pc'[p] = l
  BY DEF IInv, TypeOK, Goto
<1>3. StoringInv'
  BY <1>1, <1>2 DEF StagesInv, StoringInv
<1>4. StageInv'
  BY <1>1, <1>2, Goroutines DEF StagesInv, StageInv
<1> QED BY <1>3, <1>4 DEF StagesInv

LEMMA StoreStepStages ==
    ASSUME IInv, StagesInv, NEW p \in Procs, StoreStep(p)
    PROVE  StagesInv'
<1>0. UNCHANGED stage /\ Continue(p)
  BY DEF StoreStep, serverVars
<1>1. CASE StoreAppend(p)
  <2>1. conn[p] \in Conns /\ p = Serve(conn[p]) /\ stage[conn[p]] = "stored"
    BY <1>1 DEF IInv, CallInv, StagesInv, StoringInv, StoreAppend
  <2>2. StoringInv'
    BY <1>0, <1>1 DEF IInv, TypeOK, StagesInv, StoringInv, StoreAppend, Goto
  <2>3. StageInv'
    BY <1>0, <1>1, <2>1, Goroutines DEF IInv, TypeOK, StagesInv, StageInv, StoreAppend, Goto
  <2> QED BY <2>2, <2>3 DEF StagesInv
<1>2. CASE StoreSet(p)
  <2>1. conn[p] \in Conns /\ p = Serve(conn[p]) /\ stage[conn[p]] = "stored"
    BY <1>2 DEF IInv, CallInv, StagesInv, StoringInv, StoreSet
  <2>2. StoringInv'
    BY <1>0, <1>2 DEF IInv, TypeOK, StagesInv, StoringInv, StoreSet, Return, Goto
  <2>3. StageInv'
    BY <1>0, <1>2, <2>1, Goroutines
    DEF IInv, TypeOK, StagesInv, StageInv, StoreSet, Return, Goto
  <2> QED BY <2>2, <2>3 DEF StagesInv
<1>3. CASE RemoveFilter(p)
  <2>1. /\ pc[p] = "removeLock" /\ UNCHANGED phase
        /\ gone' = IF Listed(conn[p]) THEN gone \union {conn[p]} ELSE gone
    BY <1>3 DEF RemoveFilter
  <2>2. /\ pc'[p] \in {"idle", "removeDel"}
        /\ \A q \in Procs \ {p} : pc'[q] = pc[q] /\ conn'[q] = conn[q]
    BY <1>3 DEF IInv, TypeOK, RemoveFilter, Return, Goto
  <2>3. StoringInv'
    BY <1>0, <2>2 DEF StagesInv, StoringInv
  <2>4. StageInv'
    BY <1>0, <2>1, <2>2, Goroutines DEF StagesInv, StageInv, Listed
  <2> QED BY <2>3, <2>4 DEF StagesInv
<1>4. CASE RemoveDel(p) \/ SendBack(p)
  <2>1. \A q \in Procs \ {p} : conn'[q] = conn[q]
    BY <1>4 DEF IInv, TypeOK, RemoveDel, SendBack, Return, SendReturn
  <2>2. Goto(p, "idle") /\ UNCHANGED <<phase, gone>> /\ pc[p] # "removeLock"
    BY <1>4 DEF RemoveDel, SendBack, WritesBack, Return, SendReturn, connVars
  <2> QED BY <1>0, <2>1, <2>2, MovesElsewhere
<1>5. CASE SendInfo(p)
  <2>1. (\E l \in {"idle", "sendWrite"} : Goto(p, l))
        /\ UNCHANGED <<phase, gone, conn>> /\ pc[p] # "removeLock"
    BY <1>5 DEF SendInfo, SendReturn, connVars
  <2> QED BY <1>0, <2>1, MovesElsewhere
<1>6. CASE SendWrite(p)
  BY <1>0, <1>6, SameStages DEF SendWrite, connVars
<1> QED BY <1>0, <1>1, <1>2, <1>3, <1>4, <1>5, <1>6 DEF Continue

LEMMA SendToUserStages ==
    ASSUME IInv, StagesInv, UNCHANGED stage,
           NEW p \in Procs, NEW u, NEW f, SendToUser(p, u, f)
    PROVE  StagesInv'
<1>1. UNCHANGED <<phase, gone, conn>> /\ pc[p] = "idle"
      /\ (UNCHANGED pc \/ Goto(p, "sendInfo"))
  BY DEF SendToUser, connVars
<1> QED BY <1>1, SameStages, MovesElsewhere

LEMMA SendPanicsStages ==
    ASSUME IInv, StagesInv, UNCHANGED stage, NEW p \in Procs, SendPanics(p)
    PROVE  StagesInv'
<1>1. UNCHANGED <<phase, gone, conn>> /\ pc[p] = "sendWrite" /\ Goto(p, "idle")
  BY DEF SendPanics, SendReturn, connVars
<1> QED BY <1>1, MovesElsewhere

\* a handler outside the store moves on, and what it claims of c is so
LEMMA ServeMoves ==
    ASSUME OwnTypes, StagesInv, NEW c \in Conns, NEW s, To(c, s),
           stage[c] = "stored" => pc[Serve(c)] = "idle",
           s \in {"dial", "configure", "create", "store"} => phase[c] = "fresh",
           s \in {"greet", "read", "update", "close", "abandoned"} => phase[c] = "stored",
           s = "close" => c \in gone,
           s = "closed" => phase[c] # "stored" \/ c \in gone,
           UNCHANGED <<phase, gone, pc, conn>>
    PROVE  StagesInv'
<1>1. stage'[c] = s /\ \A d \in Conns \ {c} : stage'[d] = stage[d]
  BY DEF OwnTypes, ServerTypes, To
<1>2. StageInv'
  BY <1>1 DEF StagesInv, StageInv
<1>3. StoringInv'
  BY <1>1, Goroutines DEF OwnTypes, ServerTypes, StagesInv, StoringInv, To
<1> QED BY <1>2, <1>3 DEF StagesInv

LEMMA StoreStages ==
    ASSUME IInv, OwnTypes, StagesInv, NEW c \in Conns, Store(c)
    PROVE  StagesInv'
<1>1. /\ pc[Serve(c)] = "idle" /\ stage[c] = "store"
      /\ stage'[c] = "stored" /\ \A d \in Conns \ {c} : stage'[d] = stage[d]
  BY DEF OwnTypes, ServerTypes, Store, At, To
<1>2. /\ pc'[Serve(c)] = "storeLock" /\ conn'[Serve(c)] = c
      /\ \A q \in Procs \ {Serve(c)} : pc'[q] = pc[q] /\ conn'[q] = conn[q]
  BY Goroutines DEF IInv, TypeOK, Store, StoreClient, Goto
<1>3. gone' = gone /\ \A d \in Conns \ {c} : phase'[d] = phase[d]
  BY DEF IInv, TypeOK, Store, StoreClient
<1>4. StoringInv'
  <2> SUFFICES ASSUME NEW q \in Procs, pc'[q] \in {"storeLock", "storeSet"}
               PROVE  q = Serve(conn'[q]) /\ stage'[conn'[q]] = "stored"
    BY DEF StoringInv
  <2>1. CASE q = Serve(c)
    BY <1>1, <1>2, <2>1
  <2>2. CASE q # Serve(c)
    <3>1. q = Serve(conn[q]) /\ stage[conn[q]] = "stored" /\ conn[q] \in Conns
      BY <1>2, <2>2 DEF IInv, CallInv, StagesInv, StoringInv
    <3> QED BY <1>1, <1>2, <2>2, <3>1
  <2> QED BY <2>1, <2>2
<1>5. StageInv'
  BY <1>1, <1>2, <1>3, Goroutines DEF StagesInv, StageInv
<1> QED BY <1>4, <1>5 DEF StagesInv

LEMMA ServeStepStages ==
    ASSUME IInv, OwnTypes, StagesInv, NEW c \in Conns, ServeStep(c)
    PROVE  StagesInv'
<1> USE DEF vars, connVars, procVars
<1>1. CASE FindConfiguration(c)
  <2>1. /\ stage[c] = "configure" /\ phase[c] = "fresh"
        /\ \E s \in {"store", "create"} : To(c, s)
        /\ UNCHANGED <<phase, gone, pc, conn>>
    BY <1>1 DEF FindConfiguration, At, StagesInv, StageInv
  <2> QED BY <2>1, ServeMoves
<1>2. CASE CreateDefault(c)
  <2>1. /\ stage[c] = "create" /\ phase[c] = "fresh"
        /\ \E s \in {"store", "closed"} : To(c, s)
        /\ UNCHANGED <<phase, gone, pc, conn>>
    BY <1>2 DEF CreateDefault, At, Close, Break, StagesInv, StageInv
  <2> QED BY <2>1, ServeMoves
<1>3. CASE Store(c)
  BY <1>3, StoreStages
<1>4. CASE StoreReturned(c)
  <2>1. /\ pc[Serve(c)] = "idle"
        /\ (phase[c] = "stored" /\ To(c, "greet")) \/ (phase[c] = "failed" /\ To(c, "closed"))
        /\ UNCHANGED <<phase, gone, pc, conn>>
    BY <1>4 DEF StoreReturned, At, Close, Break
  <2> QED BY <2>1, ServeMoves
<1>5. CASE \/ SendAllNotificationsToClient(c)
           \/ SendEmptyNotificationListToClient(c)
           \/ SendConfigurationsToClient(c)
  BY <1>5, SameStages DEF SendAllNotificationsToClient, SendEmptyNotificationListToClient,
     SendConfigurationsToClient
<1>6. CASE SendPrepared(c)
  BY <1>6, SendToUserStages, Goroutines DEF SendPrepared
<1>7. CASE StartReading(c)
  <2>1. /\ stage[c] = "greet" /\ phase[c] = "stored" /\ To(c, "read")
        /\ UNCHANGED <<phase, gone, pc, conn>>
    BY <1>7 DEF StartReading, At, StagesInv, StageInv
  <2> QED BY <2>1, ServeMoves
<1>8. CASE UpdateInfo(c)
  <2>1. /\ stage[c] = "update" /\ phase[c] = "stored" /\ To(c, "read")
        /\ UNCHANGED <<phase, gone, pc, conn>>
    BY <1>8 DEF UpdateInfo, UpdateClientInfo, At, StagesInv, StageInv
  <2> QED BY <2>1, ServeMoves
<1>9. CASE ReadLoopEnds(c)
  <2>1. /\ stage[c] = "close" /\ pc[Serve(c)] = "idle" /\ To(c, "closed")
        /\ UNCHANGED <<phase, gone, pc, conn>>
    BY <1>9 DEF ReadLoopEnds, At, Close, Break
  <2>2. c \in gone
    BY <2>1 DEF StagesInv, StageInv
  <2> QED BY <2>1, <2>2, ServeMoves
<1> QED BY <1>1, <1>2, <1>3, <1>4, <1>5, <1>6, <1>7, <1>8, <1>9 DEF ServeStep

LEMMA EventStages ==
    ASSUME OwnTypes, StagesInv, NEW c \in Conns, ClientEvent(c)
    PROVE  StagesInv'
<1> USE DEF vars, connVars, procVars
<1>1. CASE UNCHANGED stage
  BY <1>1, EventLeavesStore, SameStages
<1>2. CASE \E f \in Flags : SetNotificationStatusAction(c, f)
  <2>1. stage[c] = "read" /\ phase[c] = "stored" /\ To(c, "update")
    BY <1>2 DEF SetNotificationStatusAction, Event, At, StagesInv, StageInv
  <2> QED BY <2>1, EventLeavesStore, ServeMoves
<1>3. UNCHANGED stage \/ \E f \in Flags : SetNotificationStatusAction(c, f)
  BY DEF ClientEvent, MarkAsReadAction, MarkAppReadAction, MarkGroupAsReadAction,
     MarkNotificationAsReadAction, DeleteNotificationsAction, DeleteAppNotificationsAction,
     DeleteGroupNotificationAction, DeleteNotificationAction, ReloadNotifications, ListAfter
<1> QED BY <1>1, <1>2, <1>3

LEMMA ReadErrorStages ==
    ASSUME IInv, OwnTypes, StagesInv, NEW c \in Conns, ReadError(c)
    PROVE  StagesInv'
<1>1. /\ pc[Serve(c)] = "idle" /\ stage[c] = "read" /\ UNCHANGED <<phase, gone>>
      /\ stage'[c] = "close" /\ \A d \in Conns \ {c} : stage'[d] = stage[d]
  BY DEF OwnTypes, ServerTypes, ReadError, RemoveConnection, At, To, connVars
<1>2. /\ pc'[Serve(c)] = "removeLock" /\ conn'[Serve(c)] = c
      /\ \A q \in Procs \ {Serve(c)} : pc'[q] = pc[q] /\ conn'[q] = conn[q]
  BY Goroutines DEF IInv, TypeOK, ReadError, RemoveConnection, Goto
<1>3. StoringInv'
  <2> SUFFICES ASSUME NEW q \in Procs, pc'[q] \in {"storeLock", "storeSet"}
               PROVE  q = Serve(conn'[q]) /\ stage'[conn'[q]] = "stored"
    BY DEF StoringInv
  <2>1. q # Serve(c) /\ pc[q] = pc'[q] /\ conn'[q] = conn[q]
    BY <1>2
  <2>2. q = Serve(conn[q]) /\ stage[conn[q]] = "stored" /\ conn[q] \in Conns
    BY <2>1 DEF IInv, CallInv, StagesInv, StoringInv
  <2> QED BY <1>1, <2>1, <2>2
<1>4. StageInv'
  BY <1>1, <1>2, Goroutines DEF StagesInv, StageInv
<1> QED BY <1>3, <1>4 DEF StagesInv

LEMMA PingFailsStages ==
    ASSUME IInv, StagesInv, NEW c \in Conns, PingFails(c)
    PROVE  StagesInv'
<1>1. /\ pc[Ping(c)] = "idle" /\ Goto(Ping(c), "removeLock")
      /\ UNCHANGED <<stage, phase, gone>>
  BY DEF PingFails, RemoveConnection, connVars
<1>2. \A q \in Procs \ {Ping(c)} : conn'[q] = conn[q]
  BY Goroutines DEF IInv, TypeOK, PingFails, RemoveConnection
<1> QED BY <1>1, <1>2, Goroutines, MovesElsewhere

LEMMA ServePanicsStages ==
    ASSUME IInv, OwnTypes, StagesInv, NEW c \in Conns, ServePanics(c)
    PROVE  StagesInv'
<1>1. /\ stage[c] = "greet" /\ stage'[c] = "abandoned"
      /\ \A d \in Conns \ {c} : stage'[d] = stage[d]
      /\ UNCHANGED <<phase, gone, conn>>
  BY DEF OwnTypes, ServerTypes, ServePanics, SendPanics, SendReturn, To, connVars
<1>2. /\ pc[Serve(c)] = "sendWrite" /\ pc'[Serve(c)] = "idle"
      /\ \A q \in Procs \ {Serve(c)} : pc'[q] = pc[q]
  BY Goroutines DEF IInv, TypeOK, ServePanics, SendPanics, SendReturn, Goto
<1>3. StoringInv'
  <2> SUFFICES ASSUME NEW q \in Procs, pc'[q] \in {"storeLock", "storeSet"}
               PROVE  q = Serve(conn[q]) /\ stage'[conn[q]] = "stored"
    BY <1>1 DEF StoringInv
  <2>1. q = Serve(conn[q]) /\ stage[conn[q]] = "stored" /\ conn[q] \in Conns
    BY <1>2 DEF IInv, CallInv, StagesInv, StoringInv
  <2> QED BY <1>1, <2>1
<1>4. StageInv'
  BY <1>1, <1>2, Goroutines DEF StagesInv, StageInv
<1> QED BY <1>3, <1>4 DEF StagesInv

LEMMA SendersCollideStages ==
    ASSUME IInv, StagesInv, NEW p \in Procs, NEW q \in Procs, SendersCollide(p, q)
    PROVE  StagesInv'
<1>1. UNCHANGED <<stage, phase, gone, conn>>
  BY DEF SendersCollide, SendBackTorn, serverVars, connVars
<1>2. \A r \in Procs : pc'[r] = pc[r] \/ (pc[r] = "sendWrite" /\ pc'[r] = "idle")
  BY DEF IInv, TypeOK, SendersCollide, SendBackTorn, WritesBack
<1>3. StoringInv'
  BY <1>1, <1>2 DEF StagesInv, StoringInv
<1>4. StageInv'
  BY <1>1, <1>2, Goroutines DEF StagesInv, StageInv
<1> QED BY <1>3, <1>4 DEF StagesInv

LEMMA RedialStages ==
    ASSUME IInv, OwnTypes, StagesInv, NEW c \in Conns, Redial(c)
    PROVE  StagesInv'
<1>1. /\ stage'[c] = "dial" /\ phase'[c] = "fresh" /\ gone' = gone \ {c}
      /\ \A d \in Conns \ {c} : stage'[d] = stage[d] /\ phase'[d] = phase[d]
      /\ UNCHANGED <<pc, conn>>
  BY DEF IInv, TypeOK, OwnTypes, ServerTypes, Redial, NewClient, Renew, procVars
<1>2. \A p \in Procs : conn[p] # c
  BY DEF Redial, Renew, Unreferenced
<1>3. StoringInv'
  <2> SUFFICES ASSUME NEW q \in Procs, pc[q] \in {"storeLock", "storeSet"}
               PROVE  q = Serve(conn[q]) /\ stage'[conn[q]] = "stored"
    BY <1>1 DEF StoringInv
  <2>1. q = Serve(conn[q]) /\ stage[conn[q]] = "stored" /\ conn[q] \in Conns
    BY DEF IInv, CallInv, StagesInv, StoringInv
  <2> QED BY <1>1, <1>2, <2>1
<1>4. StageInv'
  BY <1>1 DEF StagesInv, StageInv
<1> QED BY <1>3, <1>4 DEF StagesInv

LEMMA RestartStages == ProcessDies => StagesInv'
<1> SUFFICES ASSUME ProcessDies PROVE StagesInv'
  OBVIOUS
<1>1. StoringInv'
  BY DEF ProcessDies, Crash, StoringInv
<1>2. StageInv'
  BY DEF ProcessDies, Crash, StageInv
<1> QED BY <1>1, <1>2 DEF StagesInv

LEMMA StagesInvStep == IInv /\ OwnTypes /\ StagesInv /\ [HandlerNext]_hvars => StagesInv'
<1> SUFFICES ASSUME IInv, OwnTypes, StagesInv, [HandlerNext]_hvars PROVE StagesInv'
  OBVIOUS
<1> USE DEF vars, connVars, procVars
<1>1. ASSUME NEW c \in Conns, Upgrade(c) PROVE StagesInv'
  <2>1. /\ stage[c] = "dial" /\ phase[c] = "fresh" /\ To(c, "configure")
        /\ UNCHANGED <<phase, gone, pc, conn>>
    BY <1>1 DEF Upgrade, At, StagesInv, StageInv
  <2> QED BY <2>1, ServeMoves
<1>2. ASSUME NEW p \in Creators, PushCreated(p) \/ CreatorPanics(p) PROVE StagesInv'
  BY <1>2, SendToUserStages, SendPanicsStages, Goroutines
  DEF PushCreated, CreatorPanics, serverVars
<1>3. ASSUME NEW p \in Creators, NEW n \in Notes, CreateNotification(p, n) PROVE StagesInv'
  BY <1>3, SameStages DEF CreateNotification, serverVars
<1>4. ASSUME NEW c \in Conns, ConnectionBreaks(c) PROVE StagesInv'
  BY <1>4, SameStages DEF ConnectionBreaks, Break, serverVars
<1>5. CASE Rest \/ UNCHANGED hvars
  BY <1>5, SameStages DEF Rest, hvars, serverVars
<1>6. CASE (\E c \in Conns : PeerStalls(c)) \/ OtherReplicaStores \/ OtherReplicaRequests
  BY <1>6, SameStages
  DEF PeerStalls, OtherReplicaStores, OtherReplicaRequests, OtherReplica, serverVars
<1>7. CASE ServerRestarts \/ \E c \in Conns : PingPanics(c)
  BY <1>7, RestartStages DEF ServerRestarts, PingPanics
<1> QED BY <1>1, <1>2, <1>3, <1>4, <1>5, <1>6, <1>7, StoreStepStages, ServeStepStages,
        EventStages, ReadErrorStages, PingFailsStages, ServePanicsStages,
        SendersCollideStages, RedialStages DEF HandlerNext

-----------------------------------------------------------------------------
(***************************************************************************)
(* HandlerInv is an inductive invariant of the server.                     *)
(***************************************************************************)
LEMMA HandlerInvSplit == HandlerInv <=> IInv /\ OwnTypes /\ CreatorInv /\ StagesInv
BY TypesSplit DEF HandlerInv, IInv, StagesInv

LEMMA InitHandlerInv == HandlerInit => HandlerInv
<1> SUFFICES ASSUME HandlerInit PROVE HandlerInv
  OBVIOUS
<1>1. IInv
  BY InitIInv DEF HandlerInit
<1>2. OwnTypes
  BY MaxEventsAssumption, MessageTypes, AgendaMembers
  DEF HandlerInit, Repo!StatusInit, ConfigRepo!ConfigInit, OwnTypes, ServerTypes, PayloadTypes, ClientTypes,
      DatabaseTypes, Repo!StatusTypeOK, ConfigRepo!ConfigTypeOK, Stages, Flags
<1>3. CreatorInv
  BY Goroutines DEF HandlerInit, CreatorInv
<1>4. StagesInv
  BY DEF HandlerInit, Init, ProcInit, StagesInv, StoringInv, StageInv
<1> QED BY <1>1, <1>2, <1>3, <1>4, HandlerInvSplit

LEMMA NextHandlerInv == HandlerInv /\ [HandlerNext]_hvars => HandlerInv'
<1> SUFFICES ASSUME HandlerInv, [HandlerNext]_hvars PROVE HandlerInv'
  OBVIOUS
<1>1. IInv'
  BY HandlerStepIsStoreStep, NextIInv, HandlerInvSplit
<1>2. OwnTypes'
  BY OwnTypesStep, HandlerInvSplit
<1>3. CreatorInv'
  BY CreatorInvStep, HandlerInvSplit
<1>4. StagesInv'
  BY StagesInvStep, HandlerInvSplit
<1>5. HandlerTypeOK'
  BY <1>1, <1>2 DEF IInv, HandlerTypeOK, OwnTypes, ServerTypes, PayloadTypes, ClientTypes,
     DatabaseTypes
<1> QED BY <1>1, <1>3, <1>4, <1>5 DEF HandlerInv, StagesInv

(***************************************************************************)
(* The server's inductive invariant, under every fault.                    *)
(***************************************************************************)
THEOREM HandlerInvariance == HandlerSpec => []HandlerInv
<1>1. HandlerInit => HandlerInv
  BY InitHandlerInv
<1>2. HandlerInv /\ [HandlerNext]_hvars => HandlerInv'
  BY NextHandlerInv
<1> QED BY <1>1, <1>2, PTL DEF HandlerSpec

(***************************************************************************)
(* The type invariant of the server.                                       *)
(***************************************************************************)
THEOREM HandlerTypeCorrect == HandlerSpec => []HandlerTypeOK
<1>1. HandlerInv => HandlerTypeOK
  BY DEF HandlerInv
<1> QED BY <1>1, HandlerInvariance, PTL

(***************************************************************************)
(* A connection that was registered and whose read loop has ended is in no *)
(* list, whatever its ping loop, the senders and the faults did meanwhile. *)
(***************************************************************************)
THEOREM ClosedIsUnlistedHolds == HandlerSpec => []ClosedIsUnlisted
<1>1. HandlerInv => ClosedIsUnlisted
  BY OwnerAssumption DEF HandlerInv, StageInv, IInv, GoneStaysGone, ClosedIsUnlisted
<1> QED BY <1>1, HandlerInvariance, PTL

(***************************************************************************)
(* The handlers, ping loops and creators use the store as its own          *)
(* specification lets any caller: they never leave it in the middle of a   *)
(* call, and register a connection only once.                              *)
(***************************************************************************)
THEOREM ServerUsesStore == HandlerSpec => Spec
<1>1. HandlerInit => Init
  BY DEF HandlerInit
<1>2. HandlerInv /\ [HandlerNext]_hvars => [Next]_vars
  BY HandlerStepIsStoreStep
<1> QED BY <1>1, <1>2, HandlerInvariance, PTL DEF HandlerSpec, Spec

(***************************************************************************)
(* So what is proved about the store holds in the server: a removed        *)
(* connection stays out; a registered one has its user's record, if there  *)
(* is one replica; and, if races are benign, a push that reports success   *)
(* was written to every working connection, and the whole server           *)
(* implements the register.                                                *)
(***************************************************************************)
THEOREM ServerKeepsGone == HandlerSpec => []GoneStaysGone
BY ServerUsesStore, GoneStaysGoneHolds, PTL

THEOREM ServerKeepsStore ==
    ASSUME OneReplica
    PROVE  HandlerSpec => []RegisteredHaveInfo
<1>1. Spec => []RegisteredHaveInfo
  BY RegisteredHaveInfoHolds
<1> QED BY <1>1, ServerUsesStore

THEOREM ServerImplementsRegistry ==
    ASSUME RacesAreBenign
    PROVE  HandlerSpec => RefinesRegistry /\ []SendReachesAll
<1>1. Spec => RefinesRegistry /\ []SendReachesAll
  BY StoreImplementsRegistry, SendReachesAllHolds
<1> QED BY <1>1, ServerUsesStore
=============================================================================
