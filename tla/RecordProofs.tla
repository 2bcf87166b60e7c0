---------------------------- MODULE RecordProofs ----------------------------
(***************************************************************************)
(* Proofs about the records in Redis.  Part 1: without connections that    *)
(* break, no record of a user stays when his connections have been closed  *)
(* (RecordInv, OrphanFree).  Part 2: the record of a user with one         *)
(* connection holds the flag that MongoDB holds (FlagInv, FlagsAgree).     *)
(***************************************************************************)
EXTENDS LifeProofs

\* a step that writes no record and no list, and forgets no pending deletion
LEMMA SameRecord ==
    ASSUME RecordInv, UNCHANGED <<clients, redis, gone, stalled>>,
           \A c \in Conns : c \in alive' \/ stage'[c] = "closed",
           \A c \in Conns : phase'[c] # "failed",
           \A c \in gone : stage'[c] = stage[c] \/ stage'[c] \in {"close", "closed"},
           \A p \in Procs :
               pc[p] = "removeDel" => pc'[p] = "removeDel" /\ conn'[p] = conn[p]
    PROVE  RecordInv'
<1>1. \A u \in Users :
        redis'[u] # "none" =>
            \/ clients'[u] # {}
            \/ \E p \in Procs : pc'[p] = "removeDel" /\ Owner[conn'[p]] = u
  BY DEF RecordInv
<1> QED BY <1>1 DEF RecordInv

\* a connection in a list works: a closed one is in none
LEMMA ListedWorks ==
    ASSUME HandlerInv, LifeInv, RecordInv, NEW u \in Users, NEW c \in clients[u]
    PROVE  c \in alive /\ Owner[c] = u
<1>1. c \in Conns /\ Owner[c] = u /\ Listed(c) /\ c \notin gone
  BY DEF HandlerInv, IInv, TypeOK, ListInv, GoneStaysGone
<1>2. stage[c] # "closed"
  BY <1>1 DEF HandlerInv, StageInv, LifeInv, RecordInv, Listed
<1> QED BY <1>1, <1>2 DEF RecordInv

\* a connection that is registered and not being removed is in the list
LEMMA RegisteredListed ==
    ASSUME OrphanFaults, HandlerInv, RecordInv, NEW c \in Conns, Listed(c),
           stage[c] \notin {"close", "closed"}
    PROVE  c \in clients[Owner[c]]
BY DEF OrphanFaults, RacesAreBenign, HandlerInv, IInv, LiveStayRegistered, RecordInv

LEMMA StoreStepRecord ==
    ASSUME OrphanFaults, HandlerInv, LifeInv, RecordInv, NEW p \in Procs, StoreStep(p)
    PROVE  RecordInv'
<1> USE DEF HandlerInv, IInv, TypeOK
<1>0. UNCHANGED <<stage, stalled>> /\ Continue(p)
  BY DEF StoreStep, serverVars, Deliver
<1>1. CASE StoreAppend(p)
  <2>1. /\ UNCHANGED <<redis, gone, alive, conn>>
        /\ \A q \in Procs : pc[q] = "removeDel" => pc'[q] = "removeDel"
        /\ \A c \in Conns : phase'[c] # "failed"
        /\ \A u \in Users : clients[u] \subseteq clients'[u]
    BY <1>1, OwnerAssumption DEF StoreAppend, Goto, RecordInv, CallInv
  <2> QED BY <1>0, <2>1 DEF RecordInv
<1>2. CASE StoreSet(p)
  <2>1. conn[p] \in Conns /\ Listed(conn[p]) /\ stage[conn[p]] = "stored"
    BY <1>2 DEF StoreSet, CallInv, StoringInv
  <2>2. conn[p] \in clients[Owner[conn[p]]]
    BY <2>1, RegisteredListed
  <2>3. /\ UNCHANGED <<clients, gone, alive>>
        /\ \A u \in Users \ {Owner[conn[p]]} : redis'[u] = redis[u]
        /\ \A q \in Procs : pc[q] = "removeDel" => pc'[q] = "removeDel" /\ conn'[q] = conn[q]
        /\ \A c \in Conns : phase'[c] # "failed"
    BY <1>2, OwnerAssumption
       DEF StoreSet, RedisWrite, RedisError, OrphanFaults, Return, Goto, mapVars, RecordInv
  <2> QED BY <1>0, <2>2, <2>3 DEF RecordInv
<1>3. CASE RemoveFilter(p)
  <2>1. PICK c \in Conns : c = conn[p] /\ (c \notin alive \/ stage[c] = "close")
    BY <1>3 DEF RemoveFilter, CallInv, LifeInv
  <2>2. stage[c] \in {"close", "closed"} /\ gone' \subseteq gone \union {c}
    BY <1>3, <2>1 DEF RemoveFilter, RecordInv
  <2>3. /\ UNCHANGED <<redis, alive, phase>>
        /\ \A q \in Procs : pc[q] = "removeDel" => pc'[q] = "removeDel" /\ conn'[q] = conn[q]
        /\ \A u \in Users \ {Owner[c]} : clients'[u] = clients[u]
    BY <1>3, <2>1, OwnerAssumption DEF RemoveFilter, Return, Goto, mapVars
  <2>4. \/ clients'[Owner[c]] # {}
        \/ UNCHANGED clients
        \/ pc'[p] = "removeDel" /\ Owner[conn'[p]] = Owner[c]
    BY <1>3, <2>1, OwnerAssumption DEF RemoveFilter, Goto, mapVars
  <2> QED BY <1>0, <2>2, <2>3, <2>4 DEF RecordInv
<1>4. CASE RemoveDel(p)
  <2>1. PICK c \in Conns : c = conn[p]
    BY <1>4 DEF RemoveDel, CallInv
  <2>2. /\ redis' = [redis EXCEPT ![Owner[c]] = "none"]
        /\ UNCHANGED <<clients, gone, alive, phase>>
        /\ \A q \in Procs \ {p} : pc'[q] = pc[q] /\ conn'[q] = conn[q]
    BY <1>4, <2>1 DEF RemoveDel, RedisWrite, RedisError, OrphanFaults, Return, Goto, mapVars,
       connVars
  <2>3. \A q \in Procs \ {p} : pc[q] # "removeDel"
    BY <1>4 DEF RemoveDel, LockInv, Writing
  <2>4. ASSUME NEW u \in Users, redis'[u] # "none" PROVE clients'[u] # {}
    BY <2>1, <2>2, <2>3, <2>4, OwnerAssumption DEF RecordInv
  <2> QED BY <1>0, <2>2, <2>4 DEF RecordInv
<1>5. CASE SendInfo(p) \/ SendWrite(p)
  <2>1. /\ UNCHANGED <<clients, redis, gone, alive, phase, conn>>
        /\ \A q \in Procs : pc[q] = "removeDel" => pc'[q] = "removeDel"
    BY <1>5 DEF SendInfo, SendWrite, SendReturn, Goto, mapVars, connVars
  <2> QED BY <1>0, <2>1, SameRecord DEF RecordInv
<1>6. CASE SendBack(p)
  <2>1. PICK u \in Users : u = user[p] /\ WritesBack(p)
    BY <1>6 DEF SendBack, WritesBack, CallInv, Sending
  <2>2. /\ clients' = [clients EXCEPT ![u] = active[p]]
        /\ UNCHANGED <<redis, gone, alive, phase, conn>>
    BY <1>6, <2>1 DEF SendBack, SendReturn, connVars
  <2>3. \A q \in Procs : pc[q] # "removeDel"
    BY <2>1 DEF LockInv, WritesBack, Sending
  <2>4. clients[u] \subseteq active[p]
    BY <2>1, ListedWorks DEF SendInv, WritesBack, Sending, RacesAreBenign, OrphanFaults
  <2>5. ASSUME NEW v \in Users, redis'[v] # "none" PROVE clients'[v] # {}
    BY <2>2, <2>3, <2>4, <2>5 DEF RecordInv
  <2> QED BY <1>0, <2>2, <2>5 DEF RecordInv
<1> QED BY <1>0, <1>1, <1>2, <1>3, <1>4, <1>5, <1>6 DEF Continue

\* a handler outside the store moves on to s
LEMMA ServeMovesRecord ==
    ASSUME HandlerInv, RecordInv, NEW c \in Conns, NEW s, To(c, s),
           stage[c] \notin {"close", "closed"} \/ s = "closed",
           s = "closed" \/ c \in alive',
           alive \ {c} \subseteq alive',
           UNCHANGED <<clients, redis, gone, stalled, phase, pc, conn>>
    PROVE  RecordInv'
<1>1. stage'[c] = s /\ \A d \in Conns \ {c} : stage'[d] = stage[d]
  BY DEF HandlerInv, HandlerTypeOK, To
<1>2. \A d \in gone : stage'[d] = stage[d] \/ stage'[d] \in {"close", "closed"}
  BY <1>1 DEF RecordInv, HandlerInv, IInv, TypeOK
<1> QED BY <1>1, <1>2, SameRecord DEF RecordInv

LEMMA ServeStepRecord ==
    ASSUME OrphanFaults, HandlerInv, LifeInv, RecordInv, NEW c \in Conns,
           ServeStep(c) \/ Upgrade(c)
    PROVE  RecordInv'
<1> USE DEF vars, connVars, procVars, mapVars, clientVars
<1>1. CASE \/ Upgrade(c) \/ FindConfiguration(c) \/ CreateDefault(c)
           \/ StoreReturned(c) \/ StartReading(c) \/ ReadLoopEnds(c)
  <2>1. \E s : /\ To(c, s)
               /\ stage[c] \notin {"close", "closed"} \/ s = "closed"
               /\ s = "closed" \/ UNCHANGED alive
    BY <1>1 DEF Upgrade, FindConfiguration, CreateDefault, StoreReturned, StartReading,
       ReadLoopEnds, At
  <2>2. alive \ {c} \subseteq alive'
        /\ UNCHANGED <<clients, redis, gone, stalled, phase, pc, conn>>
    BY <1>1 DEF Upgrade, FindConfiguration, CreateDefault, StoreReturned, StartReading,
       ReadLoopEnds, Close, Break
  <2>3. c \in alive \/ stage[c] = "closed"
    BY DEF RecordInv
  <2>4. stage[c] # "closed"
    BY <1>1 DEF Upgrade, FindConfiguration, CreateDefault, StoreReturned, StartReading,
       ReadLoopEnds, At
  <2> QED BY <2>1, <2>2, <2>3, <2>4, ServeMovesRecord
<1>2. CASE Store(c)
  <2>1. /\ UNCHANGED <<clients, redis, gone, stalled, alive>>
        /\ \A d \in Conns : stage'[d] = stage[d] \/ (d = c /\ stage[d] = "store")
        /\ \A d \in Conns : phase'[d] = phase[d] \/ phase'[d] = "storing"
        /\ \A p \in Procs \ {Serve(c)} : pc'[p] = pc[p] /\ conn'[p] = conn[p]
        /\ pc[Serve(c)] = "idle"
    BY <1>2 DEF HandlerInv, HandlerTypeOK, IInv, TypeOK, Store, At, To, StoreClient, Goto
  <2>2. \A d \in gone : stage'[d] = stage[d]
    BY <2>1 DEF RecordInv, HandlerInv, IInv, TypeOK
  <2>3. \A d \in Conns : d \in alive' \/ stage'[d] = "closed"
    BY <2>1 DEF RecordInv
  <2> QED BY <2>1, <2>2, <2>3, SameRecord DEF RecordInv
<1>3. CASE \/ SendAllNotificationsToClient(c)
           \/ SendEmptyNotificationListToClient(c)
           \/ SendConfigurationsToClient(c)
           \/ SendPrepared(c)
  <2>1. UNCHANGED <<stage, clients, redis, gone, stalled, alive, phase, conn>>
    BY <1>3 DEF SendAllNotificationsToClient, SendEmptyNotificationListToClient,
       SendConfigurationsToClient, SendPrepared, SendToUser
  <2>2. \A p \in Procs : pc[p] = "removeDel" => pc'[p] = "removeDel"
    BY <1>3 DEF SendAllNotificationsToClient, SendEmptyNotificationListToClient,
       SendConfigurationsToClient, SendPrepared, SendToUser, Goto, HandlerInv, IInv, TypeOK
  <2> QED BY <2>1, <2>2, SameRecord DEF RecordInv
<1>4. CASE UpdateInfo(c)
  <2>1. /\ stage[c] = "update" /\ phase[c] = "stored"
        /\ stage'[c] = "read" /\ \A d \in Conns \ {c} : stage'[d] = stage[d]
        /\ redis' = [redis EXCEPT ![Owner[c]] = info[c]]
        /\ UNCHANGED <<clients, gone, stalled, alive, phase, pc, conn>>
    BY <1>4 DEF UpdateInfo, UpdateClientInfo, RedisWrite, OrphanFaults, At, To, HandlerInv,
       StageInv, HandlerTypeOK
  <2>2. c \in clients[Owner[c]]
    BY <2>1, RegisteredListed DEF Listed
  <2>3. ASSUME NEW u \in Users, redis'[u] # "none"
        PROVE  \/ clients'[u] # {}
               \/ \E p \in Procs : pc'[p] = "removeDel" /\ Owner[conn'[p]] = u
    BY <2>1, <2>2, <2>3 DEF RecordInv, HandlerInv, IInv, TypeOK
  <2>4. \A d \in gone : stage'[d] \in {"close", "closed"}
    BY <2>1 DEF RecordInv, HandlerInv, IInv, TypeOK
  <2>5. \A d \in Conns : d \in alive' \/ stage'[d] = "closed"
    BY <2>1 DEF RecordInv
  <2> QED BY <2>1, <2>3, <2>4, <2>5 DEF RecordInv
<1> QED BY <1>1, <1>2, <1>3, <1>4 DEF ServeStep

LEMMA EventRecord ==
    ASSUME HandlerInv, RecordInv, NEW c \in Conns, ClientEvent(c)
    PROVE  RecordInv'
<1> USE DEF vars, connVars, procVars, mapVars, clientVars
<1>1. UNCHANGED <<vars, stalled>>
  BY EventLeavesStore DEF ClientEvent, MarkAsReadAction, MarkAppReadAction,
     MarkGroupAsReadAction, MarkNotificationAsReadAction, DeleteNotificationsAction,
     DeleteAppNotificationsAction, DeleteGroupNotificationAction, DeleteNotificationAction,
     ReloadNotifications, ListAfter, SetNotificationStatusAction, Event
<1>2. CASE \E f \in Flags : SetNotificationStatusAction(c, f)
  <2>1. To(c, "update") /\ stage[c] = "read"
    BY <1>2 DEF SetNotificationStatusAction, Event, At
  <2>2. c \in alive
    BY <2>1 DEF RecordInv
  <2> QED BY <1>1, <2>1, <2>2, ServeMovesRecord
<1>3. CASE UNCHANGED stage
  BY <1>1, <1>3, SameRecord DEF RecordInv
<1> QED BY <1>2, <1>3 DEF ClientEvent, MarkAsReadAction, MarkAppReadAction,
        MarkGroupAsReadAction, MarkNotificationAsReadAction, DeleteNotificationsAction,
        DeleteAppNotificationsAction, DeleteGroupNotificationAction, DeleteNotificationAction,
        ReloadNotifications, ListAfter

LEMMA RemovalRecord ==
    ASSUME HandlerInv, RecordInv, NEW c \in Conns, ReadError(c) \/ PingFails(c)
    PROVE  RecordInv'
<1>1. /\ UNCHANGED <<clients, redis, gone, stalled, alive, phase>>
      /\ \A d \in Conns : stage'[d] = stage[d]
                          \/ (d = c /\ stage[d] = "read" /\ stage'[d] = "close")
  BY DEF HandlerInv, HandlerTypeOK, ReadError, PingFails, RemoveConnection, At, To, connVars,
     mapVars, clientVars
<1>2. \A p \in Procs : pc[p] = "removeDel" => pc'[p] = "removeDel" /\ conn'[p] = conn[p]
  BY Goroutines DEF HandlerInv, IInv, TypeOK, ReadError, PingFails, RemoveConnection, Goto
<1>3. \A d \in gone : stage'[d] = stage[d]
  BY <1>1 DEF RecordInv, HandlerInv, IInv, TypeOK
<1>4. \A d \in Conns : d \in alive' \/ stage'[d] = "closed"
  BY <1>1 DEF RecordInv
<1> QED BY <1>1, <1>2, <1>3, <1>4, SameRecord DEF RecordInv

LEMMA RedialRecord ==
    ASSUME HandlerInv, RecordInv, NEW c \in Conns, Redial(c)
    PROVE  RecordInv'
<1>1. /\ stage'[c] = "dial" /\ phase'[c] = "fresh" /\ c \in alive'
      /\ \A d \in Conns \ {c} : /\ stage'[d] = stage[d] /\ phase'[d] = phase[d]
                                /\ (d \in alive' <=> d \in alive)
      /\ gone' = gone \ {c} /\ stalled' = {}
      /\ UNCHANGED <<clients, redis, pc, conn>>
  BY DEF HandlerInv, IInv, TypeOK, HandlerTypeOK, RecordInv, Redial, NewClient, Renew, procVars,
     mapVars
<1> QED BY <1>1 DEF RecordInv, HandlerInv, IInv, TypeOK

LEMMA CreatorRecord ==
    ASSUME HandlerInv, RecordInv, NEW p \in Creators,
           PushCreated(p) \/ \E n \in Notes : CreateNotification(p, n)
    PROVE  RecordInv'
<1>1. UNCHANGED <<stage, clients, redis, gone, stalled, alive, phase, conn>>
  BY DEF PushCreated, CreateNotification, SendToUser, vars, connVars, procVars, mapVars,
     serverVars, clientVars
<1>2. \A q \in Procs : pc[q] = "removeDel" => pc'[q] = "removeDel"
  BY DEF PushCreated, CreateNotification, SendToUser, Goto, HandlerInv, IInv, TypeOK, vars, procVars
<1> QED BY <1>1, <1>2, SameRecord DEF RecordInv

\* the steps that need another fault, or a client that stalls
LEMMA NoFaultSteps ==
    ASSUME OrphanFaults, RecordInv
    PROVE  /\ \A c \in Conns : /\ ~ServePanics(c) /\ ~ConnectionBreaks(c)
                               /\ ~PeerStalls(c) /\ ~PingPanics(c)
           /\ \A p \in Creators : ~CreatorPanics(p)
           /\ \A p, q \in Procs : ~SendersCollide(p, q)
           /\ ~ServerRestarts /\ ~OtherReplicaStores /\ ~OtherReplicaRequests
BY DEF OrphanFaults, RecordInv, ServePanics, SendPanics, ConnectionBreaks, PeerStalls,
   PingPanics, Blocked, CreatorPanics, SendersCollide, SendBackTorn, ServerRestarts,
   OtherReplicaStores, OtherReplica, OtherReplicaRequests

LEMMA NextRecordInv ==
    OrphanFaults /\ HandlerInv /\ LifeInv /\ RecordInv /\ [HandlerNext]_hvars => RecordInv'
<1> SUFFICES ASSUME OrphanFaults, HandlerInv, LifeInv, RecordInv, [HandlerNext]_hvars
             PROVE  RecordInv'
  OBVIOUS
<1>1. CASE Rest \/ UNCHANGED hvars
  <2>1. UNCHANGED hvars
    BY <1>1 DEF Rest
  <2> QED BY <2>1, SameRecord
          DEF RecordInv, hvars, vars, connVars, procVars, mapVars, clientVars, serverVars
<1> QED BY <1>1, StoreStepRecord, ServeStepRecord, EventRecord, RemovalRecord, RedialRecord,
        CreatorRecord, NoFaultSteps DEF HandlerNext

LEMMA RecordInvHolds ==
    ASSUME OrphanFaults
    PROVE  HandlerSpec => []RecordInv
<1>1. HandlerInit => RecordInv
  BY DEF HandlerInit, Init, ProcInit, RecordInv
<1>2. HandlerInv /\ LifeInv /\ RecordInv /\ [HandlerNext]_hvars => RecordInv'
  BY NextRecordInv
<1> QED BY <1>1, <1>2, HandlerInvariance, LifeInvHolds, PTL DEF HandlerSpec

(***************************************************************************)
(* OrphanFreeHolds: as long as no connection breaks, the process does not  *)
(* die and Redis answers, "the last connection" that is removed takes the  *)
(* record with it (client_store.go:88), whatever order StoreClient,        *)
(* RemoveConnection, UpdateClientInfo and the senders' write-backs of all  *)
(* of a user's connections come in, with clients that dial again and       *)
(* requests to MongoDB that fail.                                          *)
(***************************************************************************)
THEOREM OrphanFreeHolds ==
    ASSUME OrphanFaults
    PROVE  HandlerSpec => []OrphanFree
<1>1. HandlerInv /\ LifeInv /\ RecordInv => OrphanFree
  <2> SUFFICES ASSUME HandlerInv, LifeInv, RecordInv, NEW u \in Users, Quiet,
                      \A c \in ConnsOf(u) : stage[c] \in {"dial", "closed"},
                      redis[u] # "none"
               PROVE  FALSE
    BY DEF OrphanFree
  <2>1. PICK c : c \in clients[u]
    BY DEF RecordInv, Quiet
  <2>2. c \in Conns /\ c \in ConnsOf(u) /\ Listed(c) /\ c \in alive
    BY <2>1, ListedWorks DEF HandlerInv, IInv, TypeOK, ListInv, ConnsOf
  <2>3. stage[c] = "dial" \/ stage[c] = "closed"
    BY <2>2
  <2> QED BY <2>2, <2>3 DEF HandlerInv, StageInv, LifeInv, Listed
<1> QED BY <1>1, RecordInvHolds, HandlerInvariance, LifeInvHolds, PTL

-----------------------------------------------------------------------------
(***************************************************************************)
(* The flags.                                                              *)
(***************************************************************************)
LEMMA AloneOwns ==
    ASSUME NEW c \in Conns, Alone(c), NEW d \in Conns, d # c
    PROVE  Owner[d] # Owner[c]
BY DEF Alone, ConnsOf

\* a step that sets no flag, and moves c, if at all, to where less is claimed
LEMMA SameFlag ==
    ASSUME NEW c \in Conns, FlagKept(c),
           config'[Owner[c]] = config[Owner[c]], redis'[Owner[c]] = redis[Owner[c]],
           info'[c] = info[c],
           \/ stage'[c] = stage[c]
           \/ stage[c] \in {"store", "stored", "greet", "read", "update"}
                /\ stage'[c] \notin {"create", "stored", "greet", "read"}
           \/ stage[c] \in {"stored", "greet"} /\ stage'[c] \in {"stored", "greet", "read"}
           \/ stage'[c] \in {"close", "closed", "abandoned", "configure"},
           phase'[c] = "stored" => phase[c] = "stored",
           c \in alive' => c \in alive,
           pc'[Serve(c)] \in {"storeLock", "storeSet"} =>
               pc[Serve(c)] \in {"storeLock", "storeSet"}
                 /\ flag'[Serve(c)] = flag[Serve(c)]
    PROVE  FlagKept(c)'
BY DEF FlagKept

LEMMA StoreStepFlag ==
    ASSUME FlagFaults, HandlerInv, LifeInv, FlagInv, NEW p \in Procs, StoreStep(p),
           NEW c \in Conns, Alone(c)
    PROVE  FlagKept(c)'
<1> USE OwnerAssumption DEF HandlerInv, IInv, TypeOK
<1>0. UNCHANGED <<stage, info, config>> /\ Continue(p) /\ FlagKept(c)
  BY DEF StoreStep, serverVars, dbVars, FlagInv
<1>1. CASE StoreSet(p)
  <2>1. PICK d \in Conns : /\ d = conn[p] /\ p = Serve(d)
                           /\ stage[d] = "stored" /\ pc[p] = "storeSet"
    BY <1>1 DEF StoreSet, CallInv, StoringInv
  <2>2. /\ redis' = [redis EXCEPT ![Owner[d]] = flag[p]]
        /\ pc'[p] = "idle" /\ \A q \in Procs \ {p} : pc'[q] = pc[q] /\ flag'[q] = flag[q]
        /\ \A e \in Conns \ {d} : phase'[e] = phase[e]
        /\ UNCHANGED alive
    BY <1>1, <2>1 DEF StoreSet, RedisWrite, RedisError, FlagFaults, Return, Goto
  <2>3. CASE d = c
    BY <1>0, <2>1, <2>2, <2>3 DEF FlagKept
  <2>4. CASE d # c
    <3>1. Owner[d] # Owner[c] /\ p # Serve(c)
      BY <2>1, <2>4, AloneOwns, Goroutines
    <3>2. redis'[Owner[c]] = redis[Owner[c]]
      BY <2>2, <3>1
    <3> QED BY <1>0, <2>2, <2>4, <3>1, <3>2, Goroutines, SameFlag
  <2> QED BY <2>3, <2>4
<1>2. CASE RemoveDel(p)
  <2>1. PICK d \in Conns : d = conn[p] /\ (d \notin alive \/ stage[d] = "close")
    BY <1>2 DEF RemoveDel, CallInv, LifeInv
  <2>2. /\ redis' = [redis EXCEPT ![Owner[d]] = "none"]
        /\ \A q \in Procs \ {p} : pc'[q] = pc[q] /\ flag'[q] = flag[q]
        /\ pc'[p] = "idle"
        /\ UNCHANGED <<alive, phase>>
    BY <1>2, <2>1 DEF RemoveDel, RedisWrite, RedisError, FlagFaults, Return, Goto, connVars
  <2>3. CASE d = c
    BY <1>0, <2>1, <2>2, <2>3, Goroutines DEF FlagKept
  <2>4. CASE d # c
    <3>1. redis'[Owner[c]] = redis[Owner[c]]
      BY <2>2, <2>4, AloneOwns
    <3> QED BY <1>0, <2>2, <3>1, Goroutines, SameFlag
  <2> QED BY <2>3, <2>4
<1>3. CASE StoreAppend(p)
  <2>1. /\ UNCHANGED <<redis, alive, flag>>
        /\ \A d \in Conns : phase'[d] = "stored" => phase[d] = "stored"
        /\ pc[p] = "storeLock" /\ \A q \in Procs \ {p} : pc'[q] = pc[q]
    BY <1>3 DEF StoreAppend, Goto, CallInv
  <2> QED BY <1>0, <2>1, Goroutines, SameFlag
<1>4. CASE RemoveFilter(p)
  <2>1. /\ UNCHANGED <<redis, alive, phase>>
        /\ pc'[p] \in {"idle", "removeDel"}
        /\ \A q \in Procs \ {p} : pc'[q] = pc[q] /\ flag'[q] = flag[q]
    BY <1>4 DEF RemoveFilter, Return, Goto
  <2> QED BY <1>0, <2>1, Goroutines, SameFlag
<1>5. CASE SendInfo(p) \/ SendWrite(p) \/ SendBack(p)
  <2>1. /\ UNCHANGED <<redis, alive, phase>>
        /\ pc'[p] \in {"idle", "sendWrite"}
        /\ \A q \in Procs \ {p} : pc'[q] = pc[q] /\ flag'[q] = flag[q]
    BY <1>5 DEF SendInfo, SendWrite, SendBack, SendReturn, Goto, connVars
  <2> QED BY <1>0, <2>1, Goroutines, SameFlag
<1> QED BY <1>0, <1>1, <1>2, <1>3, <1>4, <1>5 DEF Continue

\* the handler of d acts, and its goroutine stays outside the store
LEMMA ServeMovesFlag ==
    ASSUME HandlerInv, FlagInv, NEW d \in Conns,
           \A e \in Conns \ {d} : stage'[e] = stage[e] /\ info'[e] = info[e],
           \A u \in Users \ {Owner[d]} : config'[u] = config[u] /\ redis'[u] = redis[u],
           UNCHANGED <<phase, pc, flag>>, alive' \subseteq alive,
           Alone(d) => FlagKept(d)',
           NEW c \in Conns, Alone(c)
    PROVE  FlagKept(c)'
<1>1. CASE c = d
  BY <1>1
<1>2. CASE c # d
  <2>1. Owner[c] # Owner[d] /\ Owner[c] \in Users
    BY <1>2, AloneOwns, OwnerAssumption
  <2> QED BY <1>2, <2>1, SameFlag DEF FlagInv
<1> QED BY <1>1, <1>2

LEMMA ServeStepFlag ==
    ASSUME FlagFaults, HandlerInv, FlagInv, NEW d \in Conns, ServeStep(d) \/ Upgrade(d),
           NEW c \in Conns, Alone(c)
    PROVE  FlagKept(c)'
<1> USE OwnerAssumption
    DEF HandlerInv, IInv, TypeOK, HandlerTypeOK, vars, connVars, procVars, clientVars, dbVars, To, At
<1>0. Alone(d) => FlagKept(d)
  BY DEF FlagInv
<1>1. CASE FindConfiguration(d)
  <2>1. /\ stage'[d] \in {"store", "create"}
        /\ stage'[d] = "store" => config[Owner[d]] = info'[d]
        /\ stage'[d] = "create" => config[Owner[d]] = "none" /\ info'[d] = "on"
    BY <1>1 DEF FindConfiguration, FindByAppAndUser, ConfigRepo!FindByAppAndUser, MongoFails,
       FlagFaults, ConfigRepo!ConfigTypeOK, ConfigRepo!Flags, Flags
  <2>2. /\ \A e \in Conns \ {d} : stage'[e] = stage[e] /\ info'[e] = info[e]
        /\ UNCHANGED <<config, redis, phase, pc, flag, alive>>
        /\ pc[Serve(d)] = "idle"
    BY <1>1 DEF FindConfiguration
  <2>3. FlagKept(d)'
    BY <2>1, <2>2 DEF FlagKept
  <2> QED BY <2>2, <2>3, ServeMovesFlag
<1>2. CASE CreateDefault(d)
  <2>1. /\ CreateConfiguration(Owner[d], "on", FALSE) /\ stage'[d] = "store" /\ UNCHANGED vars
        /\ stage[d] = "create" /\ pc[Serve(d)] = "idle" /\ UNCHANGED info
    BY <1>2 DEF CreateDefault, CreateConfiguration, MongoFails, FlagFaults
  <2>2. config' = [config EXCEPT ![Owner[d]] = IF @ = "none" THEN "on" ELSE @]
    BY <2>1 DEF CreateConfiguration, ConfigRepo!CreateConfiguration
  <2>3. /\ \A e \in Conns \ {d} : stage'[e] = stage[e]
        /\ \A u \in Users \ {Owner[d]} : config'[u] = config[u]
    BY <1>2, <2>2 DEF CreateDefault, ConfigRepo!ConfigTypeOK
  <2>4. Alone(d) => FlagKept(d)'
    BY <1>0, <2>1, <2>2 DEF FlagKept, ConfigRepo!ConfigTypeOK
  <2> QED BY <2>1, <2>3, <2>4, ServeMovesFlag
<1>3. CASE Store(d)
  <2>1. /\ stage[d] = "store" /\ stage'[d] = "stored" /\ flag'[Serve(d)] = info[d]
        /\ phase'[d] = "storing"
        /\ \A e \in Conns \ {d} : stage'[e] = stage[e] /\ phase'[e] = phase[e]
        /\ \A p \in Procs \ {Serve(d)} : pc'[p] = pc[p] /\ flag'[p] = flag[p]
        /\ UNCHANGED <<info, config, redis, alive>>
    BY <1>3, Goroutines DEF Store, StoreClient, Goto
  <2>2. CASE c = d
    BY <1>0, <2>1, <2>2 DEF FlagKept
  <2>3. CASE c # d
    BY <2>1, <2>3, Goroutines, SameFlag DEF FlagInv
  <2> QED BY <2>2, <2>3
<1>4. CASE StoreReturned(d) \/ StartReading(d) \/ ReadLoopEnds(d) \/ Upgrade(d)
  <2>1. /\ \/ stage[d] = "dial" /\ stage'[d] = "configure"
           \/ stage[d] = "stored" /\ stage'[d] = "greet"
           \/ stage[d] = "greet" /\ stage'[d] = "read"
           \/ stage'[d] = "closed"
        /\ \A e \in Conns \ {d} : stage'[e] = stage[e]
    BY <1>4 DEF StoreReturned, StartReading, ReadLoopEnds, Upgrade
  <2>2. UNCHANGED <<info, config, redis, phase, pc, flag>> /\ alive' \subseteq alive
    BY <1>4 DEF StoreReturned, StartReading, ReadLoopEnds, Upgrade, Close, Break
  <2>3. Alone(d) => FlagKept(d)'
    BY <1>0, <2>1, <2>2 DEF FlagKept
  <2> QED BY <2>1, <2>2, <2>3, ServeMovesFlag
<1>5. CASE \/ SendAllNotificationsToClient(d)
           \/ SendEmptyNotificationListToClient(d)
           \/ SendConfigurationsToClient(d)
           \/ SendPrepared(d)
  <2>1. UNCHANGED <<stage, info, config, redis, alive, phase>>
    BY <1>5 DEF SendAllNotificationsToClient, SendEmptyNotificationListToClient,
       SendConfigurationsToClient, SendPrepared, SendToUser
  <2>2. \A p \in Procs : pc'[p] = "sendInfo" \/ (pc'[p] = pc[p] /\ flag'[p] = flag[p])
    BY <1>5, Goroutines DEF SendAllNotificationsToClient, SendEmptyNotificationListToClient,
       SendConfigurationsToClient, SendPrepared, SendToUser, Goto
  <2> QED BY <2>1, <2>2, Goroutines, SameFlag DEF FlagInv
<1>6. CASE UpdateInfo(d)
  <2>1. /\ stage[d] = "update" /\ stage'[d] = "read" /\ pc[Serve(d)] = "idle"
        /\ \A e \in Conns \ {d} : stage'[e] = stage[e]
        /\ redis' = [redis EXCEPT ![Owner[d]] = info[d]]
        /\ UNCHANGED <<info, config, phase, pc, flag, alive>>
    BY <1>6 DEF UpdateInfo, UpdateClientInfo, RedisWrite, FlagFaults
  <2>2. Alone(d) => FlagKept(d)'
    BY <1>0, <2>1 DEF FlagKept
  <2>3. \A u \in Users \ {Owner[d]} : redis'[u] = redis[u]
    BY <2>1
  <2> QED BY <2>1, <2>2, <2>3, ServeMovesFlag
<1> QED BY <1>1, <1>2, <1>3, <1>4, <1>5, <1>6 DEF ServeStep

LEMMA EventFlag ==
    ASSUME FlagFaults, HandlerInv, FlagInv, NEW d \in Conns, ClientEvent(d),
           NEW c \in Conns, Alone(c)
    PROVE  FlagKept(c)'
<1> USE DEF vars, connVars, procVars
<1>1. UNCHANGED vars
  BY EventLeavesStore
<1>2. CASE \E f \in Flags : SetNotificationStatusAction(d, f)
  <2> USE OwnerAssumption DEF HandlerInv, HandlerTypeOK
  <2>1. PICK f \in Flags : SetNotificationStatusAction(d, f)
    BY <1>2
  <2>2. /\ stage[d] = "read" /\ stage'[d] = "update" /\ info'[d] = f /\ pc[Serve(d)] = "idle"
        /\ \A e \in Conns \ {d} : stage'[e] = stage[e] /\ info'[e] = info[e]
        /\ config' = [config EXCEPT ![Owner[d]] = IF @ = "none" THEN @ ELSE f]
    BY <2>1 DEF SetNotificationStatusAction, Event, At, To, UpdateConfiguration, MongoFails,
       FlagFaults, ConfigRepo!UpdateConfiguration
  <2>3. ASSUME Alone(d) PROVE FlagKept(d)'
    <3>1. config[Owner[d]] = info[d] /\ info[d] # "none"
      BY <2>2, <2>3 DEF FlagInv, FlagKept, Flags
    <3> QED BY <1>1, <2>2, <3>1 DEF FlagKept, ConfigRepo!ConfigTypeOK
  <2>4. \A u \in Users \ {Owner[d]} : config'[u] = config[u]
    BY <2>2 DEF ConfigRepo!ConfigTypeOK
  <2> QED BY <1>1, <2>2, <2>3, <2>4, ServeMovesFlag
<1>3. CASE UNCHANGED <<stage, info, config>>
  BY <1>1, <1>3, SameFlag DEF FlagInv
<1> QED BY <1>2, <1>3 DEF ClientEvent, MarkAsReadAction, MarkAppReadAction,
        MarkGroupAsReadAction, MarkNotificationAsReadAction, DeleteNotificationsAction,
        DeleteAppNotificationsAction, DeleteGroupNotificationAction, DeleteNotificationAction,
        ReloadNotifications, ListAfter

LEMMA RemovalFlag ==
    ASSUME HandlerInv, FlagInv, NEW d \in Conns, ReadError(d) \/ PingFails(d),
           NEW c \in Conns, Alone(c)
    PROVE  FlagKept(c)'
<1>1. /\ \A e \in Conns : stage'[e] = stage[e] \/ stage'[e] = "close"
      /\ UNCHANGED <<info, config, redis, alive, phase, flag>>
  BY DEF HandlerInv, HandlerTypeOK, ReadError, PingFails, RemoveConnection, To, connVars, dbVars
<1>2. \A p \in Procs : pc'[p] = pc[p] \/ pc'[p] = "removeLock"
  BY Goroutines DEF HandlerInv, IInv, TypeOK, ReadError, PingFails, RemoveConnection, Goto
<1> QED BY <1>1, <1>2, Goroutines, SameFlag DEF FlagInv

LEMMA PanicFlag ==
    ASSUME HandlerInv, FlagInv, NEW d \in Conns, ServePanics(d),
           NEW c \in Conns, Alone(c)
    PROVE  FlagKept(c)'
<1>1. /\ \A e \in Conns : stage'[e] = stage[e] \/ stage'[e] = "abandoned"
      /\ UNCHANGED <<info, config, redis, alive, phase>>
  BY DEF HandlerInv, HandlerTypeOK, ServePanics, SendPanics, To, connVars, dbVars
<1>2. \A p \in Procs : pc'[p] = "idle" \/ (pc'[p] = pc[p] /\ flag'[p] = flag[p])
  BY Goroutines DEF HandlerInv, IInv, TypeOK, ServePanics, SendPanics, SendReturn, Goto
<1> QED BY <1>1, <1>2, Goroutines, SameFlag DEF FlagInv

LEMMA RedialFlag ==
    ASSUME HandlerInv, FlagInv, NEW d \in Conns, Redial(d), NEW c \in Conns, Alone(c)
    PROVE  FlagKept(c)'
<1>1. /\ stage'[d] = "dial" /\ phase'[d] = "fresh" /\ pc'[Serve(d)] = "idle"
      /\ \A e \in Conns \ {d} : /\ stage'[e] = stage[e] /\ phase'[e] = phase[e]
                                /\ info'[e] = info[e] /\ (e \in alive' <=> e \in alive)
      /\ UNCHANGED <<config, redis, pc, flag>>
  BY DEF HandlerInv, IInv, TypeOK, HandlerTypeOK, Redial, NewClient, Renew, At, procVars, dbVars
<1>2. CASE c = d
  BY <1>1, <1>2 DEF FlagKept
<1>3. CASE c # d
  BY <1>1, <1>3, SameFlag DEF FlagInv
<1> QED BY <1>2, <1>3

LEMMA RestartFlag == ProcessDies => FlagInv'
BY Goroutines DEF ProcessDies, Crash, FlagInv, FlagKept

LEMMA OtherFlag ==
    ASSUME HandlerInv, FlagInv, NEW c \in Conns, Alone(c),
           \/ \E d \in Conns : ConnectionBreaks(d) \/ PeerStalls(d)
           \/ \E p \in Creators : \/ PushCreated(p) \/ CreatorPanics(p)
                                  \/ \E n \in Notes : CreateNotification(p, n)
           \/ \E p, q \in Procs : SendersCollide(p, q)
           \/ Rest \/ UNCHANGED hvars
    PROVE  FlagKept(c)'
<1> USE DEF vars, hvars, connVars, procVars, serverVars, dbVars
<1>1. UNCHANGED <<stage, info, config, redis, phase>> /\ alive' \subseteq alive
  BY DEF ConnectionBreaks, PeerStalls, PushCreated, CreatorPanics, CreateNotification,
     SendersCollide, Rest, Break, SendToUser, SendPanics, SendBackTorn
<1>2. \A p \in Procs :
        pc'[p] \in {"idle", "sendInfo"} \/ (pc'[p] = pc[p] /\ flag'[p] = flag[p])
  <2>1. /\ pc \in [Procs -> PCs] /\ \A p \in Creators : p \in Procs
        /\ flag \in [Procs -> Flags \union {"bypass", "check"}]
    BY Goroutines DEF HandlerInv, IInv, TypeOK
  <2>2. ASSUME NEW p \in Creators, PushCreated(p) \/ CreatorPanics(p)
        PROVE  /\ pc'[p] \in {"idle", "sendInfo"}
               /\ \A q \in Procs \ {p} : pc'[q] = pc[q] /\ flag'[q] = flag[q]
    BY <2>1, <2>2 DEF PushCreated, CreatorPanics, SendToUser, SendPanics, SendReturn, Goto
  <2>3. ASSUME NEW p \in Procs, NEW q \in Procs, SendersCollide(p, q)
        PROVE  /\ pc'[p] = "idle" /\ pc'[q] = "idle"
               /\ \A r \in Procs \ {p, q} : pc'[r] = pc[r] /\ flag'[r] = flag[r]
    BY <2>1, <2>3 DEF SendersCollide, SendBackTorn
  <2>4. CASE \/ \E d \in Conns : ConnectionBreaks(d) \/ PeerStalls(d)
             \/ \E p \in Creators, n \in Notes : CreateNotification(p, n)
             \/ Rest \/ UNCHANGED hvars
    BY <2>4 DEF ConnectionBreaks, PeerStalls, CreateNotification, Rest, Break
  <2> QED BY <2>1, <2>2, <2>3, <2>4
<1> QED BY <1>1, <1>2, Goroutines, SameFlag DEF FlagInv

LEMMA NextFlagInv ==
    FlagFaults /\ HandlerInv /\ LifeInv /\ FlagInv /\ [HandlerNext]_hvars => FlagInv'
<1> SUFFICES ASSUME FlagFaults, HandlerInv, LifeInv, FlagInv, [HandlerNext]_hvars
             PROVE  FlagInv'
  OBVIOUS
<1>1. CASE ServerRestarts \/ \E d \in Conns : PingPanics(d)
  BY <1>1, RestartFlag DEF ServerRestarts, PingPanics
<1>2. CASE ~(ServerRestarts \/ \E d \in Conns : PingPanics(d))
  <2> SUFFICES ASSUME NEW c \in Conns, Alone(c) PROVE FlagKept(c)'
    BY DEF FlagInv, Alone, ConnsOf
  <2>1. ~OtherReplicaStores /\ ~OtherReplicaRequests
    BY DEF FlagFaults, OtherReplicaStores, OtherReplica, OtherReplicaRequests
  <2> QED BY <1>2, <2>1, StoreStepFlag, ServeStepFlag, EventFlag, RemovalFlag, PanicFlag,
          RedialFlag, OtherFlag DEF HandlerNext
<1> QED BY <1>1, <1>2

(***************************************************************************)
(* FlagsAgreeHolds: while the only connection of a user is read from, the  *)
(* flag in Redis, which decides whether he gets pushes, is the one in      *)
(* MongoDB, which he has set -- whatever became of his earlier connections *)
(* and of the process, and whatever the races between senders do.          *)
(***************************************************************************)
THEOREM FlagsAgreeHolds ==
    ASSUME FlagFaults
    PROVE  HandlerSpec => []FlagsAgree
<1>1. HandlerInit => FlagInv
  BY Goroutines DEF HandlerInit, Init, ProcInit, FlagInv, FlagKept
<1>2. HandlerInv /\ LifeInv /\ FlagInv /\ [HandlerNext]_hvars => FlagInv'
  BY NextFlagInv
<1>3. HandlerInv /\ FlagInv => FlagsAgree
  BY DEF HandlerInv, StageInv, FlagInv, FlagKept, FlagsAgree, Reading
<1> QED BY <1>1, <1>2, <1>3, HandlerInvariance, LifeInvHolds, PTL DEF HandlerSpec
=============================================================================
