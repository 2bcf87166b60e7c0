-------------------------- MODULE WebSocketHandler --------------------------
(***************************************************************************)
(* handlers/websocket.go over the client store, and the two creators of    *)
(* notifications (controller/notification_controller.go and the Event Hub  *)
(* consumer).                                                              *)
(*                                                                         *)
(* A connection c is served by two goroutines: Serve(c), the HTTP handler  *)
(* that becomes the read loop, and Ping(c), the ticker loop started before *)
(* the connection is stored.  Creators are further goroutines.  Each of    *)
(* them moves by the actions of ClientStore while it is inside the store   *)
(* (pc[p] # "idle") and by the actions of this module otherwise.           *)
(*                                                                         *)
(* The clients are modelled as far as the protocol names them: a client    *)
(* replaces its notifications by the ones a listNotifications message      *)
(* carries, adds the one a newNotification carries, and shows the flag of  *)
(* a listConfigurations.                                                   *)
(***************************************************************************)
EXTENDS ClientStore, NotificationService, ConfigurationService, Naturals, Sequences

CONSTANTS
    Creators,   \* the goroutines that create notifications
    Events,     \* the events the clients send
    MaxEvents   \* how many events a client sends on one connection

Serve(c) == <<"serve", c>>
Ping(c)  == <<"ping", c>>

ASSUME ProcsAssumption ==
    Procs = {Serve(c) : c \in Conns} \union {Ping(c) : c \in Conns} \union Creators
ASSUME CreatorsAssumption ==
    \A c \in Conns : Serve(c) \notin Creators /\ Ping(c) \notin Creators
ASSUME DocAssumption == \A n \in Notes : Doc[n].userId \in Users
ASSUME MaxEventsAssumption == MaxEvents \in Nat

VARIABLES
    stage,      \* where the handler or read loop of c is
    info,       \* the flag it is about to write to Redis
    agenda,     \* the messages it still has to send before it reads on
    budget,     \* (bound) the events the client of c may still send
    pinging,    \* the ping loop of c is running
    payload,    \* the message a goroutine is about to send or is sending
    view,       \* the notifications the client of c shows
    received,   \* (history) the notifications that reached it
    shown,      \* the flag the client of c shows
    stalled     \* the connections whose client has stopped reading

serverVars == <<stage, info, agenda, budget, pinging>>
clientVars == <<view, received, shown, stalled>>
dbVars     == <<status, config>>
hvars      == <<vars, serverVars, payload, clientVars, dbVars>>

Stages == {"dial", "configure", "create", "store", "stored", "greet", "read",
           "update", "close", "closed", "abandoned"}

Nothing  == [kind |-> "nothing"]
List(S)  == [kind |-> "listNotifications", notes |-> S]
New(n)   == [kind |-> "newNotification", note |-> n]
Conf(f)  == [kind |-> "listConfigurations", flag |-> f]
Messages ==
    {Nothing} \union {List(S) : S \in SUBSET Notes}
              \union {New(n) : n \in Notes} \union {Conf(f) : f \in Flags}

Agendas == {<<>>, <<"all">>, <<"config">>, <<"all", "config">>, <<"empty", "config">>}

HandlerTypeOK ==
    /\ TypeOK
    /\ Repo!StatusTypeOK
    /\ ConfigRepo!ConfigTypeOK
    /\ stage \in [Conns -> Stages]
    /\ info \in [Conns -> Flags]
    /\ agenda \in [Conns -> Agendas]
    /\ budget \in [Conns -> 0 .. MaxEvents]
    /\ pinging \in [Conns -> BOOLEAN]
    /\ payload \in [Procs -> Messages]
    /\ view \in [Conns -> SUBSET Notes]
    /\ received \in [Conns -> SUBSET Notes]
    /\ shown \in [Conns -> Flags \union {"none"}]
    /\ stalled \subseteq Conns

HandlerInit ==
    /\ Init
    /\ Repo!StatusInit
    /\ ConfigRepo!ConfigInit
    /\ stage = [c \in Conns |-> "dial"]
    /\ info = [c \in Conns |-> "on"]
    /\ agenda = [c \in Conns |-> <<>>]
    /\ budget = [c \in Conns |-> MaxEvents]
    /\ pinging = [c \in Conns |-> FALSE]
    /\ payload = [p \in Procs |-> Nothing]
    /\ view = [c \in Conns |-> {}]
    /\ received = [c \in Conns |-> {}]
    /\ shown = [c \in Conns |-> "none"]
    /\ stalled = {}

At(c, s) == stage[c] = s /\ agenda[c] = <<>> /\ pc[Serve(c)] = "idle"
To(c, s) == stage' = [stage EXCEPT ![c] = s]

\* conn.Close(): every later write to c fails
Close(c) == Break(c) \/ (c \notin alive /\ UNCHANGED vars)

-----------------------------------------------------------------------------
(***************************************************************************)
(* A goroutine's step inside the store, and what it puts on the wire.      *)
(***************************************************************************)
Carried(m) ==
    CASE m.kind = "listNotifications" -> m.notes
      [] m.kind = "newNotification"   -> {m.note}
      [] OTHER                        -> {}

Shows(c, m) ==
    CASE m.kind = "listNotifications" -> m.notes
      [] m.kind = "newNotification"   -> view[c] \union {m.note}
      [] OTHER                        -> view[c]

Deliver(S, m) ==
    /\ view' = [c \in Conns |-> IF c \in S THEN Shows(c, m) ELSE view[c]]
    /\ received' = [c \in Conns |->
                      IF c \in S THEN received[c] \union Carried(m) ELSE received[c]]
    /\ shown' = [c \in Conns |->
                   IF c \in S /\ m.kind = "listConfigurations" THEN m.flag ELSE shown[c]]
    /\ UNCHANGED stalled

\* the message is held until sendToUser has returned
PayloadGiven(p) ==
    payload' = [payload EXCEPT ![p] = IF pc'[p] = "idle" THEN Nothing ELSE @]

Written(p) == active'[p] \ active[p]

\* no write deadline is set: a write to a peer that stalls does not return
\* (it fails once the connection is closed or breaks)
StoreStep(p) ==
    /\ Continue(p)
    /\ Written(p) \intersect stalled = {}
    /\ Deliver(Written(p), payload[p])
    /\ PayloadGiven(p)
    /\ UNCHANGED <<serverVars, dbVars>>

-----------------------------------------------------------------------------
(***************************************************************************)
(* Serve(c): from the upgrade to the read loop.                            *)
(***************************************************************************)
Upgrade(c) ==
    /\ At(c, "dial")
    /\ To(c, "configure")
    /\ pinging' = [pinging EXCEPT ![c] = TRUE]
    /\ UNCHANGED <<vars, info, agenda, budget, payload, clientVars, dbVars>>

\* (mutant) the result is used without looking at the error
FindConfigurationUnchecked(c) ==
    /\ At(c, "configure")
    /\ \E result \in FindByAppAndUser(Owner[c]) : info' = [info EXCEPT ![c] = result]
    /\ To(c, "store")
    /\ UNCHANGED <<vars, agenda, budget, pinging, payload, clientVars, dbVars>>

\* (mutant) the flag of the configuration found is not used
FindConfigurationIgnored(c) ==
    /\ At(c, "configure")
    /\ \E result \in FindByAppAndUser(Owner[c]) :
          To(c, IF result \in Flags THEN "store" ELSE "create")
    /\ info' = [info EXCEPT ![c] = "on"]
    /\ UNCHANGED <<vars, agenda, budget, pinging, payload, clientVars, dbVars>>

\* any error is taken for "no configuration yet"
FindConfiguration(c) ==
    /\ At(c, "configure")
    /\ \E result \in FindByAppAndUser(Owner[c]) :
          \/ /\ result \in Flags
             /\ info' = [info EXCEPT ![c] = result]
             /\ To(c, "store")
          \/ /\ result = "error"
             /\ info' = [info EXCEPT ![c] = "on"]
             /\ To(c, "create")
    /\ UNCHANGED <<vars, agenda, budget, pinging, payload, clientVars, dbVars>>

CreateDefault(c) ==
    /\ At(c, "create")
    /\ \/ CreateConfiguration(Owner[c], "on", FALSE) /\ To(c, "store") /\ UNCHANGED vars
       \/ CreateConfiguration(Owner[c], "on", TRUE) /\ To(c, "closed") /\ Close(c)
    /\ UNCHANGED <<info, agenda, budget, pinging, payload, clientVars, status>>

Store(c) ==
    /\ At(c, "store")
    /\ StoreClient(Serve(c), c, info[c])
    /\ To(c, "stored")
    /\ UNCHANGED <<info, agenda, budget, pinging, payload, clientVars, dbVars>>

\* (mutant) the list is not sent to a new connection
StoreReturnedNoList(c) ==
    /\ At(c, "stored")
    /\ phase[c] = "stored"
    /\ To(c, "greet")
    /\ agenda' = [agenda EXCEPT ![c] = <<"config">>]
    /\ UNCHANGED <<vars, info, budget, pinging, payload, clientVars, dbVars>>

StoreReturned(c) ==
    /\ At(c, "stored")
    /\ \/ /\ phase[c] = "stored"
          /\ To(c, "greet")
          /\ agenda' = [agenda EXCEPT ![c] = <<"all", "config">>]
          /\ UNCHANGED vars
       \/ /\ phase[c] = "failed"
          /\ Close(c)
          /\ To(c, "closed")
          /\ UNCHANGED agenda
    /\ UNCHANGED <<info, budget, pinging, payload, clientVars, dbVars>>

(***************************************************************************)
(* The three messages the handler sends: read what there is to send, then  *)
(* (SendPrepared) call the store.  A failed read sends nothing.            *)
(***************************************************************************)
Due(c, what) ==
    /\ stage[c] \in {"greet", "read"}
    /\ pc[Serve(c)] = "idle"
    /\ payload[Serve(c)] = Nothing
    /\ agenda[c] # <<>>
    /\ Head(agenda[c]) = what

Prepare(c, m) ==
    /\ payload' = [payload EXCEPT ![Serve(c)] = m]
    /\ UNCHANGED agenda

SkipMessage(c) ==
    /\ agenda' = [agenda EXCEPT ![c] = Tail(@)]
    /\ UNCHANGED payload

SendAllNotificationsToClient(c) ==
    /\ Due(c, "all")
    /\ \E result \in FindAll(Owner[c]) :
          IF result.err THEN SkipMessage(c) ELSE Prepare(c, List(result.notes))
    /\ UNCHANGED <<vars, stage, info, budget, pinging, clientVars, dbVars>>

SendEmptyNotificationListToClient(c) ==
    /\ Due(c, "empty")
    /\ Prepare(c, List({}))
    /\ UNCHANGED <<vars, stage, info, budget, pinging, clientVars, dbVars>>

SendConfigurationsToClient(c) ==
    /\ Due(c, "config")
    /\ \E result \in FindByAppAndUser(Owner[c]) :
          IF result = "error" THEN SkipMessage(c) ELSE Prepare(c, Conf(result))
    /\ UNCHANGED <<vars, stage, info, budget, pinging, clientVars, dbVars>>

SendPrepared(c) ==
    /\ payload[Serve(c)] # Nothing
    /\ agenda[c] # <<>>
    /\ SendToUser(Serve(c), Owner[c],
                  IF Head(agenda[c]) = "all" THEN "check" ELSE "bypass")
    /\ agenda' = [agenda EXCEPT ![c] = Tail(@)]
    /\ PayloadGiven(Serve(c))
    /\ UNCHANGED <<stage, info, budget, pinging, clientVars, dbVars>>

-----------------------------------------------------------------------------
\* p is to write to c, which does not take it, and on which a ping, or another
\* sender, may have got stuck already
Blocked(p, c) == pc[p] = "sendWrite" /\ c \in todo[p] \intersect stalled \intersect alive

WritersMeet(p) == "race" \in Faults \/ \E c \in Conns : Blocked(p, c)

\* gin's recovery middleware catches the panic and the handler is over: the
\* connection stays open and listed, but nothing will ever be read from it
ServePanics(c) ==
    /\ stage[c] = "greet"
    /\ WritersMeet(Serve(c))
    /\ SendPanics(Serve(c))
    /\ To(c, "abandoned")
    /\ agenda' = [agenda EXCEPT ![c] = <<>>]
    /\ PayloadGiven(Serve(c))
    /\ UNCHANGED <<info, budget, pinging, clientVars, dbVars>>

\* the handler returns; the read loop is a goroutine of its own
StartReading(c) ==
    /\ At(c, "greet")
    /\ To(c, "read")
    /\ UNCHANGED <<vars, info, agenda, budget, pinging, payload, clientVars, dbVars>>

(***************************************************************************)
(* The read loop.  A mark or delete event is one request to MongoDB, whose *)
(* failure is only logged, and then the list is sent.                      *)
(***************************************************************************)
Event(c, name) ==
    /\ At(c, "read")
    /\ name \in Events
    /\ budget[c] > 0
    /\ budget' = [budget EXCEPT ![c] = @ - 1]
    /\ UNCHANGED <<vars, pinging, payload, clientVars>>

ListAfter(c, name, Request) ==
    /\ Event(c, name)
    /\ Request
    /\ agenda' = [agenda EXCEPT ![c] = <<"all">>]
    /\ UNCHANGED <<stage, info, config>>

MarkAsReadAction(c) ==
    ListAfter(c, "markAsRead", MarkAsRead(Owner[c]))
MarkAppReadAction(c, n) ==
    ListAfter(c, "markAppAsRead", MarkAppAsRead(Owner[c], Doc[n].appId))
MarkGroupAsReadAction(c, n) ==
    ListAfter(c, "markGroupAsRead",
              MarkGroupAsRead(Owner[c], Doc[n].appId, Doc[n].groupKey))
MarkNotificationAsReadAction(c, n) ==
    ListAfter(c, "markNotificationAsRead", MarkNotificationAsRead(Owner[c], n))
DeleteNotificationsAction(c) ==
    ListAfter(c, "deleteNotifications", DeleteNotifications(Owner[c]))
DeleteAppNotificationsAction(c, n) ==
    ListAfter(c, "deleteAppNotifications", DeleteAppNotifications(Owner[c], Doc[n].appId))
DeleteGroupNotificationAction(c, n) ==
    ListAfter(c, "deleteGroupNotifications",
              DeleteGroupNotifications(Owner[c], Doc[n].appId, Doc[n].groupKey))
DeleteNotificationAction(c, n) ==
    ListAfter(c, "deleteNotification", DeleteNotification(Owner[c], n))
ReloadNotifications(c) ==
    ListAfter(c, "reloadNotifications", UNCHANGED status)

(***************************************************************************)
(* setNotificationStatus(f): the configuration in MongoDB, then the record *)
(* in Redis -- a failure of either is not acted upon -- then the messages. *)
(***************************************************************************)
SetNotificationStatusAction(c, f) ==
    /\ Event(c, "setNotificationStatus")
    /\ UpdateConfiguration(Owner[c], f)
    /\ info' = [info EXCEPT ![c] = f]
    /\ To(c, "update")
    /\ UNCHANGED <<agenda, status>>

\* (mutant) the two lists are swapped
UpdateInfoSwapped(c) ==
    /\ At(c, "update")
    /\ UpdateClientInfo(Owner[c], info[c])
    /\ agenda' = [agenda EXCEPT ![c] =
                    IF info[c] = "off" THEN <<"all", "config">> ELSE <<"empty", "config">>]
    /\ To(c, "read")
    /\ UNCHANGED <<info, budget, pinging, payload, clientVars, dbVars>>

UpdateInfo(c) ==
    /\ At(c, "update")
    /\ \/ UpdateClientInfo(Owner[c], info[c])
       \/ "redis" \in Faults /\ UNCHANGED vars
    /\ agenda' = [agenda EXCEPT ![c] =
                    IF info[c] = "on" THEN <<"all", "config">> ELSE <<"empty", "config">>]
    /\ To(c, "read")
    /\ UNCHANGED <<info, budget, pinging, payload, clientVars, dbVars>>

\* (mutant) the read loop ends without RemoveConnection
ReadErrorOnlyCloses(c) ==
    /\ At(c, "read")
    /\ To(c, "close")
    /\ UNCHANGED <<vars, info, agenda, budget, pinging, payload, clientVars, dbVars>>

\* ReadMessage fails: the peer closed, is gone, or missed the pong deadline
ReadError(c) ==
    /\ At(c, "read")
    /\ RemoveConnection(Serve(c), c)
    /\ To(c, "close")
    /\ UNCHANGED <<info, agenda, budget, pinging, payload, clientVars, dbVars>>

ReadLoopEnds(c) ==
    /\ At(c, "close")
    /\ Close(c)
    /\ To(c, "closed")
    /\ UNCHANGED <<info, agenda, budget, pinging, payload, clientVars, dbVars>>

(***************************************************************************)
(* Ping(c): a ping that fails removes the connection and ends the loop.    *)
(***************************************************************************)
PingFails(c) ==
    /\ pinging[c]
    /\ c \notin alive
    /\ RemoveConnection(Ping(c), c)
    /\ pinging' = [pinging EXCEPT ![c] = FALSE]
    /\ UNCHANGED <<stage, info, agenda, budget, payload, clientVars, dbVars>>

-----------------------------------------------------------------------------
(***************************************************************************)
(* A creator inserts the notification, then pushes it; the result of the   *)
(* push is ignored.  Nothing is pushed when the insert returns an error,   *)
(* whether or not it has taken effect.                                     *)
(***************************************************************************)
CreateNotification(p, n) ==
    /\ pc[p] = "idle"
    /\ payload[p] = Nothing
    /\ \/ Create(n, FALSE) /\ payload' = [payload EXCEPT ![p] = New(n)]
       \/ Create(n, TRUE) /\ UNCHANGED payload
    /\ UNCHANGED <<vars, serverVars, clientVars, config>>

PushCreated(p) ==
    /\ pc[p] = "idle"
    /\ payload[p] # Nothing
    /\ SendToUser(p, Doc[payload[p].note].userId, "check")
    /\ PayloadGiven(p)
    /\ UNCHANGED <<serverVars, clientVars, dbVars>>

\* a REST handler panics inside sendToUser and is recovered
CreatorPanics(p) ==
    /\ WritersMeet(p)
    /\ SendPanics(p)
    /\ PayloadGiven(p)
    /\ UNCHANGED <<serverVars, clientVars, dbVars>>

\* the write-backs of two senders collide
SendersCollide(p, q) ==
    /\ SendBackTorn(p, q)
    /\ payload' = [payload EXCEPT ![p] = Nothing, ![q] = Nothing]
    /\ UNCHANGED <<serverVars, clientVars, dbVars>>

(***************************************************************************)
(* The environment: a connection breaks; a client dials again once nothing *)
(* of its old connection is left; the process dies (by itself, or because  *)
(* the runtime detects concurrent map writes, or a panic in a goroutine of *)
(* its own) and is started again.                                          *)
(***************************************************************************)
ConnectionBreaks(c) ==
    /\ "break" \in Faults
    /\ stage[c] # "dial"
    /\ Break(c)
    /\ UNCHANGED <<serverVars, payload, clientVars, dbVars>>

NewClient(c) ==
    /\ stage' = [stage EXCEPT ![c] = "dial"]
    /\ info' = [info EXCEPT ![c] = "on"]
    /\ budget' = [budget EXCEPT ![c] = MaxEvents]
    /\ view' = [view EXCEPT ![c] = {}]
    /\ received' = [received EXCEPT ![c] = {}]
    /\ shown' = [shown EXCEPT ![c] = "none"]
    /\ stalled' = stalled \ {c}

Redial(c) ==
    /\ "redial" \in Faults
    /\ At(c, "closed") \/ At(c, "abandoned")
    /\ ~pinging[c]
    /\ Renew(c)
    /\ NewClient(c)
    /\ UNCHANGED <<agenda, pinging, payload, dbVars>>

ProcessDies ==
    /\ Crash
    /\ stage' = [c \in Conns |-> "dial"]
    /\ info' = [c \in Conns |-> "on"]
    /\ agenda' = [c \in Conns |-> <<>>]
    /\ budget' = [c \in Conns |-> MaxEvents]
    /\ pinging' = [c \in Conns |-> FALSE]
    /\ payload' = [p \in Procs |-> Nothing]
    /\ view' = [c \in Conns |-> {}]
    /\ received' = [c \in Conns |-> {}]
    /\ shown' = [c \in Conns |-> "none"]
    /\ stalled' = {}
    /\ UNCHANGED dbVars

ServerRestarts == "crash" \in Faults /\ ProcessDies

(***************************************************************************)
(* The client of c stops reading (and answering pings).  A sender that     *)
(* writes to c then stays inside WriteMessage, with the read lock, and the *)
(* next ping of c finds that write under way: WriteMessage panics, and in  *)
(* the ping loop nobody recovers.                                          *)
(***************************************************************************)
PeerStalls(c) ==
    /\ "stall" \in Faults
    /\ stage[c] # "dial"
    /\ c \in alive
    /\ stalled' = stalled \union {c}
    /\ UNCHANGED <<vars, serverVars, payload, view, received, shown, dbVars>>

\* (mutant) the ping loop recovers and ends
PingRecovers(c) ==
    /\ pinging[c]
    /\ \E p \in Procs : Blocked(p, c)
    /\ pinging' = [pinging EXCEPT ![c] = FALSE]
    /\ UNCHANGED <<vars, stage, info, agenda, budget, payload, clientVars, dbVars>>

PingPanics(c) ==
    /\ pinging[c]
    /\ \E p \in Procs : Blocked(p, c)
    /\ ProcessDies

(***************************************************************************)
(* Another replica of the server, with clients of its own, over the same   *)
(* Redis and MongoDB.                                                      *)
(***************************************************************************)
OtherReplicaStores ==
    /\ \E u \in Users, v \in Flags \union {"none"} : OtherReplica(u, v)
    /\ UNCHANGED <<serverVars, payload, clientVars, dbVars>>

OtherReplicaRequests ==
    /\ "replica" \in Faults
    /\ \/ /\ \/ \E n \in Notes : \/ Create(n, FALSE)
                               \/ MarkNotificationAsRead(Doc[n].userId, n)
                               \/ DeleteNotification(Doc[n].userId, n)
             \/ \E u \in Users : MarkAsRead(u) \/ DeleteNotifications(u)
          /\ UNCHANGED config
       \/ /\ \E u \in Users, f \in Flags :
                UpdateConfiguration(u, f) \/ CreateConfiguration(u, f, FALSE)
          /\ UNCHANGED status
    /\ UNCHANGED <<vars, serverVars, payload, clientVars>>

\* all clients have left: the server may rest for ever (nowhere else)
Rest ==
    /\ \A p \in Procs : pc[p] = "idle" /\ payload[p] = Nothing
    /\ \A c \in Conns : stage[c] \in {"closed", "abandoned"} /\ ~pinging[c]
    /\ UNCHANGED hvars

ServeStep(c) ==
    \/ FindConfiguration(c)
    \/ CreateDefault(c)
    \/ Store(c)
    \/ StoreReturned(c)
    \/ SendAllNotificationsToClient(c)
    \/ SendEmptyNotificationListToClient(c)
    \/ SendConfigurationsToClient(c)
    \/ SendPrepared(c)
    \/ StartReading(c)
    \/ UpdateInfo(c)
    \/ ReadLoopEnds(c)

ClientEvent(c) ==
    \/ MarkAsReadAction(c)
    \/ \E n \in Notes : \/ MarkAppReadAction(c, n)
                        \/ MarkGroupAsReadAction(c, n)
                        \/ MarkNotificationAsReadAction(c, n)
                        \/ DeleteAppNotificationsAction(c, n)
                        \/ DeleteGroupNotificationAction(c, n)
                        \/ DeleteNotificationAction(c, n)
    \/ DeleteNotificationsAction(c)
    \/ ReloadNotifications(c)
    \/ \E f \in Flags : SetNotificationStatusAction(c, f)

HandlerNext ==
    \/ \E p \in Procs : StoreStep(p)
    \/ \E c \in Conns : Upgrade(c) \/ ServeStep(c) \/ ClientEvent(c)
    \/ \E c \in Conns : ReadError(c) \/ PingFails(c)
    \/ \E p \in Creators : PushCreated(p) \/ \E n \in Notes : CreateNotification(p, n)
    \/ \E c \in Conns : ServePanics(c)
    \/ \E p \in Creators : CreatorPanics(p)
    \/ \E p, q \in Procs : SendersCollide(p, q)
    \/ \E c \in Conns : ConnectionBreaks(c) \/ Redial(c)
    \/ \E c \in Conns : PeerStalls(c) \/ PingPanics(c)
    \/ ServerRestarts
    \/ OtherReplicaStores \/ OtherReplicaRequests
    \/ Rest

HandlerSpec == HandlerInit /\ [][HandlerNext]_hvars

(***************************************************************************)
(* The scheduler runs every goroutine, requests to Redis and MongoDB end,  *)
(* writes to sockets return unless the peer stalls, RWMutex lets every     *)
(* goroutine that waits for it in eventually (hence strong fairness), the  *)
(* ticker ticks, and a read from a broken connection fails, as does one    *)
(* from a client that answers no ping (the read deadline of 60 seconds).   *)
(* Clients owe nothing.                                                    *)
(***************************************************************************)
HandlerFairness ==
    /\ \A p \in Procs : WF_hvars(StoreStep(p))
    /\ \A c \in Conns : SF_hvars(ServeStep(c))
    /\ \A c \in Conns : SF_hvars((c \notin alive \/ c \in stalled) /\ ReadError(c))
    /\ \A c \in Conns : SF_hvars(PingFails(c) \/ PingPanics(c))
    /\ \A p \in Creators : SF_hvars(PushCreated(p))

FairHandlerSpec == HandlerSpec /\ HandlerFairness

-----------------------------------------------------------------------------
(***************************************************************************)
(* Quiet: nobody is inside the store, and no handler or creator is between *)
(* a change of the databases and the message it owes for it.               *)
(***************************************************************************)
Quiet ==
    /\ \A p \in Procs : pc[p] = "idle" /\ payload[p] = Nothing
    /\ \A c \in Conns : stage[c] \in {"dial", "read", "closed", "abandoned"} /\ agenda[c] = <<>>

Reading(c) == stage[c] = "read" /\ c \in alive \ gone

(***************************************************************************)
(* NothingIsLost: once the server is quiet, every unread notification of a *)
(* user has reached every working connection of his, unless Redis says he  *)
(* has disabled them -- whether it was created before, during or after the *)
(* connection was set up (the handler registers before it reads the list,  *)
(* a creator inserts before it pushes) or while he toggled the flag.       *)
(***************************************************************************)
NothingIsLost ==
    Quiet => \A c \in Conns :
                Reading(c) /\ redis[Owner[c]] = "on"
                    => Unread(Owner[c]) \subseteq received[c]

(***************************************************************************)
(* DeliveryInv: why nothing is lost.  As long as n is missing at c, which  *)
(* has a right to it, a handler of the same user is going to read and send *)
(* the list, or a goroutine holds a message with n that it is going to     *)
(* send, or it is sending that message and c is still ahead of it.         *)
(***************************************************************************)
Missing(c, n) ==
    /\ c \in alive \ gone
    /\ phase[c] = "stored"
    /\ redis[Owner[c]] = "on"
    /\ n \in Unread(Owner[c]) \ received[c]

WillList(d) ==
    \/ stage[d] = "stored" /\ phase[d] = "stored"
    \/ agenda[d] # <<>> /\ Head(agenda[d]) = "all" /\ payload[Serve(d)] = Nothing

Holds(p, u, n) ==
    /\ pc[p] = "idle"
    /\ n \in Carried(payload[p])
    /\ p \in Creators \/ \E d \in ConnsOf(u) : p = Serve(d) /\ agenda[d] # <<>>

Brings(p, c, n) ==
    /\ Sending(p)
    /\ user[p] = Owner[c]
    /\ c \in todo[p]
    /\ n \in Carried(payload[p])

Pending(c, n) ==
    \/ \E d \in ConnsOf(Owner[c]) : WillList(d)
    \/ \E p \in Procs : Holds(p, Owner[c], n) \/ Brings(p, c, n)

MessageInv ==
    \A c \in Conns :
        agenda[c] = <<>> /\ pc[Serve(c)] = "idle" => payload[Serve(c)] = Nothing

TodoInv == \A p \in Procs : todo[p] \intersect active[p] = {}

PendingInv == \A c \in Conns, n \in Notes : Missing(c, n) => Pending(c, n)

DeliveryInv == MessageInv /\ TodoInv /\ PendingInv

\* the faults a notification survives
DeliveryFaults == Faults \subseteq {"break", "redial", "crash"}

(***************************************************************************)
(* ClosedIsUnlisted: once its read loop has ended, nothing of a connection *)
(* is left in the map: no sender can still find it.                        *)
(***************************************************************************)
ClosedIsUnlisted ==
    \A c \in Conns :
        stage[c] = "closed" /\ phase[c] = "stored" => c \notin clients[Owner[c]]

(***************************************************************************)
(* HandlerInv: the inductive invariant behind ClosedIsUnlisted.  Only      *)
(* Serve(c) registers c, at one point of its life; from there to the end   *)
(* of the read loop c is registered; and c is removed before it is closed. *)
(***************************************************************************)
CreatorInv ==
    \A p \in Creators : payload[p] = Nothing \/ \E n \in Notes : payload[p] = New(n)

StoringInv ==
    \A p \in Procs :
        pc[p] \in {"storeLock", "storeSet"}
            => p = Serve(conn[p]) /\ stage[conn[p]] = "stored"

StageInv ==
    \A c \in Conns :
        /\ stage[c] \in {"dial", "configure", "create", "store"} => phase[c] = "fresh"
        /\ stage[c] \in {"greet", "read", "update", "close", "abandoned"} => phase[c] = "stored"
        /\ stage[c] = "close" =>
             c \in gone \/ (pc[Serve(c)] = "removeLock" /\ conn[Serve(c)] = c)
        /\ stage[c] = "closed" => phase[c] # "stored" \/ c \in gone

HandlerInv ==
    /\ IInv
    /\ HandlerTypeOK
    /\ CreatorInv
    /\ StoringInv
    /\ StageInv

(***************************************************************************)
(* DeadAreRemoved: a connection that breaks while it is listed is taken    *)
(* out of the map in the end.                                              *)
(***************************************************************************)
DeadAreRemoved ==
    \A c \in Conns :
        c \notin alive /\ c \in clients[Owner[c]] ~> c \notin clients[Owner[c]]

(***************************************************************************)
(* ClosedInTheEnd (websocket.go:28-29: "If a connection error occurs or    *)
(* the client disconnects, the connection is closed and removed from the   *)
(* client store"): a read loop that has seen an error does not wait for    *)
(* ever to remove its connection, though it waits for every sender, and a  *)
(* sender may be stuck in this very connection, which is closed after the  *)
(* removal only.  Then it is the ping loop that ends the wait, and with it *)
(* the process.                                                            *)
(***************************************************************************)
ClosedInTheEnd == \A c \in Conns : stage[c] = "close" ~> stage[c] # "close"

(***************************************************************************)
(* ErrorEndsConnection (the same sentence): what follows a connection      *)
(* error is the end of that connection, and not of every connection.  With *)
(* a client that stalls the code does not keep it.                         *)
(***************************************************************************)
ErrorEndsConnection ==
    [][\A c \in Conns : stage[c] = "close" => stage'[c] \in {"close", "closed"}]_hvars

(***************************************************************************)
(* Statements of the sources and the README that the code keeps only in    *)
(* part: without connections that break, with one connection for a user,   *)
(* and not at all.                                                         *)
(*                                                                         *)
(* OrphanFree (client_store.go:88: "If the last connection is removed, it  *)
(* also removes the user from the in-memory map and from Redis"): when all *)
(* connections of a user have been closed, Redis has no record of him.     *)
(***************************************************************************)
OrphanFree ==
    \A u \in Users :
        (Quiet /\ \A c \in ConnsOf(u) : stage[c] \in {"dial", "closed"} /\ ~pinging[c])
            => redis[u] = "none"

(***************************************************************************)
(* ViewsCurrent (websocket.go:379-380: markAsReadAction "marks all         *)
(* notifications as read and then sends the updated list of notifications  *)
(* back to the client"; the same is said of the other events): once the    *)
(* server is quiet, a client that has sent an event shows every            *)
(* notification that is unread in the database.                            *)
(***************************************************************************)
ViewsCurrent ==
    Quiet => \A c \in Conns :
                Reading(c) /\ budget[c] < MaxEvents /\ redis[Owner[c]] = "on"
                    => Unread(Owner[c]) \subseteq view[c]

(***************************************************************************)
(* FlagsAgree (websocket.go:668-672: setNotificationStatusAction "updates  *)
(* the user's notification settings in the configuration service, and      *)
(* updates the client information in the client store"): while the only    *)
(* connection of a user is read from, MongoDB and Redis hold the same flag *)
(* of him.                                                                 *)
(***************************************************************************)
Alone(c) == ConnsOf(Owner[c]) = {c}

FlagsAgree ==
    \A c \in Conns : Alone(c) /\ Reading(c) => redis[Owner[c]] = config[Owner[c]]
=============================================================================
