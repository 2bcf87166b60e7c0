----------------------------- MODULE LifeProofs -----------------------------
(***************************************************************************)
(* Proofs about the life of the connections, under every fault: LifeInv is *)
(* an invariant of the server, the goroutines inside the store never all   *)
(* wait for one another, and a connection that is broken and listed has a  *)
(* goroutine that will take it out.                                        *)
(***************************************************************************)
EXTENDS ServerInvariants, WebSocketHandlerProofs

\* a step that neither moves a handler nor starts a removal
LEMMA SameLife ==
    ASSUME LifeInv, CallInv, UNCHANGED <<stage, pinging>>,
           \A c \in Conns : phase'[c] = phase[c] \/ phase'[c] \notin {"storing", "listed"}
                            \/ stage[c] = "stored",
           alive' \subseteq alive, \A c \in alive \ alive' : stage[c] # "dial",
           \A p \in Procs : pc'[p] \in {"removeLock", "removeDel"} =>
               pc[p] \in {"removeLock", "removeDel"} /\ conn'[p] = conn[p]
    PROVE  LifeInv'
<1>1. ASSUME NEW c \in Conns
      PROVE  /\ stage'[c] = "dial" => c \in alive'
             /\ stage'[c] = "closed" => c \notin alive'
             /\ c \in alive' /\ stage'[c] # "dial" => pinging'[c]
             /\ phase'[c] \in {"storing", "listed"} => stage'[c] = "stored"
  BY DEF LifeInv
<1>2. ASSUME NEW p \in Procs, pc'[p] \in {"removeLock", "removeDel"}
      PROVE  conn'[p] \notin alive' \/ stage'[conn'[p]] = "close"
  BY <1>2 DEF LifeInv
<1> QED BY <1>1, <1>2 DEF LifeInv

LEMMA StoreStepLife ==
    ASSUME HandlerInv, LifeInv, NEW p \in Procs, StoreStep(p)
    PROVE  LifeInv'
<1> USE DEF HandlerInv, IInv, TypeOK
<1>1. UNCHANGED <<stage, pinging, alive>> /\ Continue(p)
  BY DEF StoreStep, serverVars, Continue, StoreAppend, StoreSet, RemoveFilter, RemoveDel,
     SendInfo, SendWrite, SendBack, connVars
<1>2. \A c \in Conns : phase'[c] = phase[c] \/ stage[c] = "stored"
  <2>1. CASE StoreAppend(p) \/ StoreSet(p)
    <3>1. conn[p] \in Conns /\ stage[conn[p]] = "stored"
      BY <2>1 DEF CallInv, StoringInv, StoreAppend, StoreSet
    <3> QED BY <2>1, <3>1 DEF StoreAppend, StoreSet
  <2>2. CASE ~(StoreAppend(p) \/ StoreSet(p))
    BY <1>1, <2>2 DEF Continue, RemoveFilter, RemoveDel, SendInfo, SendWrite, SendBack, connVars
  <2> QED BY <2>1, <2>2
<1>3. \A q \in Procs : pc'[q] \in {"removeLock", "removeDel"} =>
          pc[q] \in {"removeLock", "removeDel"} /\ conn'[q] = conn[q]
  BY <1>1 DEF Continue, StoreAppend, StoreSet, RemoveFilter, RemoveDel, SendInfo, SendWrite,
     SendBack, Return, SendReturn, Goto
<1> QED BY <1>1, <1>2, <1>3, SameLife

\* a handler outside the store moves on to s
LEMMA ServeMovesLife ==
    ASSUME HandlerInv, LifeInv, NEW c \in Conns, NEW s, To(c, s), s # "dial",
           stage[c] # "close" \/ s = "closed",
           s = "closed" => c \notin alive',
           phase[c] \in {"storing", "listed"} => s = "stored",
           pinging'[c] \/ (stage[c] # "dial" /\ pinging'[c] = pinging[c]),
           \A d \in Conns \ {c} : pinging'[d] = pinging[d],
           alive \ {c} \subseteq alive', alive' \subseteq alive,
           UNCHANGED <<phase, pc, conn>>
    PROVE  LifeInv'
<1>1. stage'[c] = s /\ \A d \in Conns \ {c} : stage'[d] = stage[d]
  BY DEF HandlerInv, HandlerTypeOK, To
<1>2. ASSUME NEW d \in Conns
      PROVE  /\ stage'[d] = "dial" => d \in alive'
             /\ stage'[d] = "closed" => d \notin alive'
             /\ d \in alive' /\ stage'[d] # "dial" => pinging'[d]
             /\ phase'[d] \in {"storing", "listed"} => stage'[d] = "stored"
  BY <1>1 DEF LifeInv
<1>3. ASSUME NEW p \in Procs, pc'[p] \in {"removeLock", "removeDel"}
      PROVE  conn'[p] \notin alive' \/ stage'[conn'[p]] = "close"
  <2>1. conn[p] \in Conns /\ (conn[p] \notin alive \/ stage[conn[p]] = "close")
    BY <1>3 DEF HandlerInv, IInv, CallInv, LifeInv
  <2> QED BY <1>1, <2>1
<1> QED BY <1>2, <1>3 DEF LifeInv

LEMMA ServeStepLife ==
    ASSUME HandlerInv, LifeInv, NEW c \in Conns, ServeStep(c) \/ Upgrade(c)
    PROVE  LifeInv'
<1> USE DEF vars, connVars, procVars
<1>1. CASE Upgrade(c)
  <2>1. To(c, "configure") /\ stage[c] = "dial" /\ phase[c] = "fresh"
        /\ UNCHANGED <<phase, alive, pc, conn>>
        /\ pinging' = [pinging EXCEPT ![c] = TRUE]
    BY <1>1 DEF Upgrade, At, HandlerInv, StageInv
  <2> QED BY <2>1, ServeMovesLife DEF HandlerInv, HandlerTypeOK
<1>2. CASE FindConfiguration(c) \/ CreateDefault(c)
  <2>1. stage[c] \in {"configure", "create"} /\ phase[c] = "fresh"
    BY <1>2 DEF FindConfiguration, CreateDefault, At, HandlerInv, StageInv
  <2>2. /\ \E s \in {"create", "store", "closed"} : To(c, s) /\ (s = "closed" => c \notin alive')
        /\ alive \ {c} \subseteq alive' /\ alive' \subseteq alive
        /\ UNCHANGED <<pinging, phase, pc, conn>>
    BY <1>2 DEF FindConfiguration, CreateDefault, Close, Break
  <2> QED BY <2>1, <2>2, ServeMovesLife
<1>3. CASE Store(c)
  <2>1. /\ stage[c] = "store" /\ stage'[c] = "stored"
        /\ \A d \in Conns \ {c} : stage'[d] = stage[d] /\ phase'[d] = phase[d]
        /\ UNCHANGED <<alive, pinging>>
    BY <1>3 DEF HandlerInv, HandlerTypeOK, IInv, TypeOK, Store, At, To, StoreClient
  <2>2. \A p \in Procs : pc'[p] \in {"removeLock", "removeDel"} =>
            pc[p] = pc'[p] /\ conn'[p] = conn[p]
    BY <1>3, Goroutines DEF HandlerInv, IInv, TypeOK, Store, StoreClient, Goto
  <2> QED BY <2>1, <2>2 DEF LifeInv, HandlerInv, IInv, CallInv
<1>4. CASE StoreReturned(c)
  <2>1. /\ stage[c] = "stored" /\ phase[c] \in {"stored", "failed"}
        /\ \E s \in {"greet", "closed"} : To(c, s) /\ (s = "closed" => c \notin alive')
        /\ alive \ {c} \subseteq alive' /\ alive' \subseteq alive
        /\ UNCHANGED <<pinging, phase, pc, conn>>
    BY <1>4 DEF StoreReturned, At, Close, Break
  <2> QED BY <2>1, ServeMovesLife
<1>5. CASE \/ SendAllNotificationsToClient(c)
           \/ SendEmptyNotificationListToClient(c)
           \/ SendConfigurationsToClient(c)
           \/ SendPrepared(c)
  <2>1. /\ UNCHANGED <<stage, pinging, phase, alive, conn>>
        /\ \A p \in Procs : pc'[p] = pc[p] \/ pc'[p] = "sendInfo"
    BY <1>5 DEF SendAllNotificationsToClient, SendEmptyNotificationListToClient,
       SendConfigurationsToClient, SendPrepared, SendToUser, Goto, HandlerInv, IInv, TypeOK
  <2> QED BY <2>1, SameLife DEF HandlerInv, IInv
<1>6. CASE StartReading(c) \/ UpdateInfo(c)
  <2>1. /\ stage[c] \in {"greet", "update"} /\ phase[c] = "stored" /\ To(c, "read")
        /\ UNCHANGED <<alive, pinging, phase, pc, conn>>
    BY <1>6 DEF StartReading, UpdateInfo, UpdateClientInfo, At, HandlerInv, StageInv
  <2> QED BY <2>1, ServeMovesLife
<1>7. CASE ReadLoopEnds(c)
  <2>1. /\ stage[c] = "close" /\ phase[c] = "stored" /\ To(c, "closed") /\ c \notin alive'
        /\ alive \ {c} \subseteq alive' /\ alive' \subseteq alive
        /\ UNCHANGED <<pinging, phase, pc, conn>>
    BY <1>7 DEF ReadLoopEnds, At, Close, Break, HandlerInv, StageInv
  <2> QED BY <2>1, ServeMovesLife
<1> QED BY <1>1, <1>2, <1>3, <1>4, <1>5, <1>6, <1>7 DEF ServeStep

LEMMA EventLife ==
    ASSUME HandlerInv, LifeInv, NEW c \in Conns, ClientEvent(c)
    PROVE  LifeInv'
<1>1. UNCHANGED <<pinging, phase, alive, pc, conn>>
  BY EventLeavesStore DEF vars, connVars, procVars, ClientEvent, MarkAsReadAction,
     MarkAppReadAction, MarkGroupAsReadAction, MarkNotificationAsReadAction,
     DeleteNotificationsAction, DeleteAppNotificationsAction, DeleteGroupNotificationAction,
     DeleteNotificationAction, ReloadNotifications, ListAfter, SetNotificationStatusAction, Event
<1>2. CASE \E f \in Flags : SetNotificationStatusAction(c, f)
  <2>1. stage[c] = "read" /\ phase[c] = "stored" /\ To(c, "update")
    BY <1>2 DEF SetNotificationStatusAction, Event, At, HandlerInv, StageInv
  <2> QED BY <1>1, <2>1, ServeMovesLife
<1>3. CASE UNCHANGED stage
  BY <1>1, <1>3, SameLife DEF HandlerInv, IInv
<1> QED BY <1>2, <1>3 DEF ClientEvent, MarkAsReadAction, MarkAppReadAction,
        MarkGroupAsReadAction, MarkNotificationAsReadAction, DeleteNotificationsAction,
        DeleteAppNotificationsAction, DeleteGroupNotificationAction, DeleteNotificationAction,
        ReloadNotifications, ListAfter

LEMMA RemovalLife ==
    ASSUME HandlerInv, LifeInv, NEW c \in Conns, ReadError(c) \/ PingFails(c)
    PROVE  LifeInv'
<1> USE Goroutines
<1>1. PICK p \in Procs :
        \/ p = Serve(c) /\ ReadError(c)
        \/ p = Ping(c) /\ PingFails(c)
  OBVIOUS
<1>2. /\ pc'[p] = "removeLock" /\ conn'[p] = c
      /\ \A q \in Procs \ {p} : pc'[q] = pc[q] /\ conn'[q] = conn[q]
      /\ UNCHANGED <<phase, alive>>
  BY <1>1 DEF HandlerInv, IInv, TypeOK, ReadError, PingFails, RemoveConnection, Goto, connVars
<1>3. CASE ReadError(c)
  <2>1. /\ stage[c] = "read" /\ stage'[c] = "close" /\ phase[c] = "stored"
        /\ \A d \in Conns \ {c} : stage'[d] = stage[d]
        /\ UNCHANGED pinging
    BY <1>3 DEF HandlerInv, HandlerTypeOK, StageInv, ReadError, At, To
  <2>2. ASSUME NEW q \in Procs \ {p}, pc[q] \in {"removeLock", "removeDel"}
        PROVE  conn[q] \in Conns /\ (conn[q] \notin alive \/ stage[conn[q]] = "close")
    BY <2>2 DEF HandlerInv, IInv, CallInv, LifeInv
  <2> QED BY <1>2, <2>1, <2>2 DEF LifeInv
<1>4. CASE PingFails(c)
  <2>1. /\ c \notin alive /\ UNCHANGED stage
        /\ \A d \in Conns \ {c} : pinging'[d] = pinging[d]
    BY <1>4 DEF HandlerInv, HandlerTypeOK, PingFails
  <2> QED BY <1>2, <2>1 DEF LifeInv
<1> QED BY <1>3, <1>4

LEMMA PanicLife ==
    ASSUME HandlerInv, LifeInv, NEW c \in Conns, ServePanics(c)
    PROVE  LifeInv'
<1>1. /\ stage[c] = "greet" /\ stage'[c] = "abandoned" /\ phase[c] = "stored"
      /\ \A d \in Conns \ {c} : stage'[d] = stage[d]
      /\ UNCHANGED <<phase, alive, pinging, conn>>
  BY DEF HandlerInv, HandlerTypeOK, StageInv, ServePanics, SendPanics, SendReturn, To, connVars
<1>2. \A p \in Procs : pc'[p] = pc[p] \/ pc'[p] = "idle"
  BY DEF HandlerInv, IInv, TypeOK, ServePanics, SendPanics, SendReturn, Goto
<1>3. ASSUME NEW p \in Procs, pc[p] \in {"removeLock", "removeDel"}
      PROVE  conn[p] \in Conns /\ (conn[p] \notin alive \/ stage[conn[p]] = "close")
  BY <1>3 DEF HandlerInv, IInv, CallInv, LifeInv
<1> QED BY <1>1, <1>2, <1>3 DEF LifeInv

LEMMA RedialLife ==
    ASSUME HandlerInv, LifeInv, NEW c \in Conns, Redial(c)
    PROVE  LifeInv'
<1>1. /\ stage'[c] = "dial" /\ phase'[c] = "fresh" /\ c \in alive'
      /\ \A d \in Conns \ {c} : /\ stage'[d] = stage[d] /\ phase'[d] = phase[d]
                                /\ (d \in alive' <=> d \in alive)
      /\ UNCHANGED <<pinging, pc, conn>>
  BY DEF HandlerInv, IInv, TypeOK, HandlerTypeOK, Redial, NewClient, Renew, procVars
<1>2. \A p \in Procs : conn[p] # c
  BY DEF Redial, Renew, Unreferenced
<1>3. ASSUME NEW p \in Procs, pc[p] \in {"removeLock", "removeDel"}
      PROVE  conn[p] \in Conns /\ (conn[p] \notin alive \/ stage[conn[p]] = "close")
  BY <1>3 DEF HandlerInv, IInv, CallInv, LifeInv
<1> QED BY <1>1, <1>2, <1>3 DEF LifeInv

LEMMA RestartLife == ProcessDies => LifeInv'
BY DEF ProcessDies, Crash, LifeInv

LEMMA OtherLife ==
    ASSUME HandlerInv, LifeInv,
           \/ \E c \in Conns : ConnectionBreaks(c) \/ PeerStalls(c)
           \/ \E p \in Creators : \/ PushCreated(p) \/ CreatorPanics(p)
                                  \/ \E n \in Notes : CreateNotification(p, n)
           \/ \E p, q \in Procs : SendersCollide(p, q)
           \/ OtherReplicaStores \/ OtherReplicaRequests \/ Rest \/ UNCHANGED hvars
    PROVE  LifeInv'
<1> USE DEF vars, hvars, connVars, procVars, serverVars
<1>1. UNCHANGED <<stage, pinging, phase, conn>>
  BY Goroutines DEF ConnectionBreaks, PeerStalls, PushCreated, CreatorPanics, CreateNotification,
     SendersCollide, OtherReplicaStores, OtherReplicaRequests, Rest, Break, SendToUser, SendPanics,
     SendReturn, SendBackTorn, OtherReplica
<1>2. alive' \subseteq alive /\ \A c \in alive \ alive' : stage[c] # "dial"
  BY DEF ConnectionBreaks, PeerStalls, PushCreated, CreatorPanics, CreateNotification,
     SendersCollide, OtherReplicaStores, OtherReplicaRequests, Rest, Break, SendToUser, SendPanics,
     SendBackTorn, OtherReplica
<1>3. \A p \in Procs : pc'[p] = pc[p] \/ pc'[p] \in {"idle", "sendInfo"}
  <2>1. ASSUME NEW p \in Creators, PushCreated(p) \/ CreatorPanics(p)
        PROVE  pc' = pc \/ \E l \in {"idle", "sendInfo"} : pc' = [pc EXCEPT ![p] = l]
    BY <2>1 DEF PushCreated, CreatorPanics, SendToUser, SendPanics, SendReturn, Goto
  <2>2. ASSUME NEW p \in Procs, NEW q \in Procs, SendersCollide(p, q)
        PROVE  pc' = [pc EXCEPT ![p] = "idle", ![q] = "idle"]
    BY <2>2 DEF SendersCollide, SendBackTorn
  <2>3. CASE \/ \E c \in Conns : ConnectionBreaks(c) \/ PeerStalls(c)
             \/ \E p \in Creators, n \in Notes : CreateNotification(p, n)
             \/ OtherReplicaStores \/ OtherReplicaRequests \/ Rest \/ UNCHANGED hvars
    BY <2>3 DEF ConnectionBreaks, PeerStalls, CreateNotification, OtherReplicaStores,
       OtherReplicaRequests, Rest, Break, OtherReplica
  <2>4. pc \in [Procs -> PCs]
    BY DEF HandlerInv, IInv, TypeOK
  <2> QED BY <2>1, <2>2, <2>3, <2>4
<1> QED BY <1>1, <1>2, <1>3, SameLife DEF HandlerInv, IInv

LEMMA NextLifeInv == HandlerInv /\ LifeInv /\ [HandlerNext]_hvars => LifeInv'
<1> SUFFICES ASSUME HandlerInv, LifeInv, [HandlerNext]_hvars PROVE LifeInv'
  OBVIOUS
<1>1. ASSUME NEW c \in Conns,
             \/ Upgrade(c) \/ ServeStep(c) \/ ClientEvent(c)
             \/ ReadError(c) \/ PingFails(c) \/ ServePanics(c) \/ Redial(c)
      PROVE  LifeInv'
  BY <1>1, ServeStepLife, EventLife, RemovalLife, PanicLife, RedialLife
<1>2. CASE ServerRestarts \/ \E c \in Conns : PingPanics(c)
  BY <1>2, RestartLife DEF ServerRestarts, PingPanics
<1> QED BY <1>1, <1>2, StoreStepLife, OtherLife DEF HandlerNext

(***************************************************************************)
(* LifeInvHolds: a connection is pinged for as long as it works, is        *)
(* registered only by its own handler, which waits for it, and removed     *)
(* only after a failed write or by its read loop at the end, under every   *)
(* fault (websocket.go:66, 118-158 and 190-197).                           *)
(***************************************************************************)
THEOREM LifeInvHolds == HandlerSpec => []LifeInv
<1>1. HandlerInit => LifeInv
  BY DEF HandlerInit, Init, ProcInit, LifeInv
<1>2. HandlerInv /\ LifeInv /\ [HandlerNext]_hvars => LifeInv'
  BY NextLifeInv
<1> QED BY <1>1, <1>2, HandlerInvariance, PTL DEF HandlerSpec

-----------------------------------------------------------------------------
(***************************************************************************)
(* Who can move.                                                           *)
(***************************************************************************)
\* a reader is at the record, or writes, or is blocked on a connection whose
\* ping loop runs: the connection works and was registered, so it was upgraded
LEMMA ReaderMoves ==
    ASSUME HandlerInv, LifeInv, NEW p \in Procs, p \in readers
    PROVE  CanMove(p) \/ \E c \in Conns : PingWillPanic(c)
<1> USE DEF HandlerInv, IInv, TypeOK
<1>1. Sending(p)
  BY DEF LockInv
<1>2. CASE pc[p] = "sendInfo" \/ todo[p] = {} \/ \E c \in todo[p] : ~Blocked(p, c)
  BY <1>1, <1>2 DEF CanMove, Sending, WritesBack
<1>3. CASE ~(pc[p] = "sendInfo" \/ todo[p] = {} \/ \E c \in todo[p] : ~Blocked(p, c))
  <2>1. PICK c \in Conns : c \in todo[p] /\ Blocked(p, c)
    BY <1>3
  <2>2. c \in alive /\ phase[c] # "fresh"
    BY <1>1, <2>1 DEF Blocked, SendInv, Listed
  <2>3. stage[c] # "dial"
    BY <2>2 DEF StageInv
  <2> QED BY <2>1, <2>2, <2>3 DEF LifeInv, PingWillPanic
<1> QED BY <1>2, <1>3

LEMMA WriterMoves ==
    ASSUME HandlerInv, readers = {}, writer # NoProc
    PROVE  \E p \in Procs : CanMove(p)
<1>1. writer \in Procs /\ Writing(writer)
  BY DEF HandlerInv, IInv, TypeOK, MutexTypeOK, LockInv
<1> QED BY <1>1 DEF Writing, CanMove, LockGranted

LEMMA CallerMoves ==
    ASSUME HandlerInv, readers = {}, writer = NoProc, NEW p \in Procs, pc[p] # "idle"
    PROVE  CanMove(p)
<1>1. ~Writing(p) /\ ~Sending(p)
  BY NoProcAssumption DEF HandlerInv, IInv, LockInv
<1> QED BY <1>1 DEF Writing, Sending, CanMove, HandlerInv, IInv, TypeOK, PCs

(***************************************************************************)
(* NobodyIsStuckHolds: whatever fails, the calls inside the store never    *)
(* all wait for one another; if the one that could let the others go on is *)
(* stuck in a client that has stopped reading, then the ping loop of that  *)
(* client's connection is running (client_store.go:282-318, websocket.go:  *)
(* 190-197).                                                               *)
(***************************************************************************)
THEOREM NobodyIsStuckHolds == HandlerSpec => []NobodyIsStuck
<1>1. HandlerInv /\ LifeInv => NobodyIsStuck
  <2> SUFFICES ASSUME HandlerInv, LifeInv,
                      readers # {} \/ writer # NoProc \/ \E p \in Procs : pc[p] # "idle"
               PROVE  \/ \E p \in Procs : CanMove(p)
                      \/ \E c \in Conns : PingWillPanic(c)
    BY DEF NobodyIsStuck
  <2>1. readers \subseteq Procs
    BY DEF HandlerInv, IInv, TypeOK, MutexTypeOK
  <2> QED BY <2>1, ReaderMoves, WriterMoves, CallerMoves
<1> QED BY <1>1, HandlerInvariance, LifeInvHolds, PTL

-----------------------------------------------------------------------------
(***************************************************************************)
(* Who will remove a broken connection.                                    *)
(***************************************************************************)
\* without the faults of NoneLeft, no StoreClient fails and no handler panics
LEMMA NextNoneLeft ==
    NoneLeft /\ HandlerInv /\ NoneLeftInv /\ [HandlerNext]_hvars => NoneLeftInv'
<1> SUFFICES ASSUME NoneLeft, HandlerInv, NoneLeftInv, [HandlerNext]_hvars,
                    NEW c \in Conns
             PROVE  phase'[c] # "failed" /\ stage'[c] # "abandoned"
  BY DEF NoneLeftInv
<1>1. phase'[c] # "failed"
  <2>1. [Next]_vars /\ phase[c] # "failed" /\ phase \in [Conns -> Phases]
    BY HandlerStepIsStoreStep DEF HandlerInv, IInv, TypeOK, NoneLeftInv
  <2>2. ASSUME NEW p \in Procs, StoreAppend(p) \/ StoreSet(p) PROVE phase'[c] # "failed"
    BY <2>1, <2>2 DEF StoreAppend, StoreSet, RedisError, NoneLeft
  <2>3. ASSUME NEW p \in Procs, Call(p) PROVE phase'[c] # "failed"
    BY <2>1, <2>3 DEF Call, StoreClient, RemoveConnection, SendToUser, connVars
  <2>4. ASSUME NEW p \in Procs,
               \/ RemoveFilter(p) \/ RemoveDel(p) \/ SendInfo(p) \/ SendWrite(p) \/ SendBack(p)
               \/ SendPanics(p) \/ \E q \in Procs : SendBackTorn(p, q)
        PROVE  phase'[c] # "failed"
    BY <2>1, <2>4 DEF RemoveFilter, RemoveDel, SendInfo, SendWrite, SendBack, SendPanics,
       SendBackTorn, connVars
  <2>5. CASE \/ \E u \in Users, f \in Flags : UpdateClientInfo(u, f)
             \/ \E u \in Users, v \in Flags \union {"none"} : OtherReplica(u, v)
             \/ \E d \in Conns : Break(d) \/ Renew(d)
             \/ Crash \/ UNCHANGED vars
    BY <2>1, <2>5 DEF UpdateClientInfo, OtherReplica, Break, Renew, Crash, connVars, vars
  <2> QED BY <2>1, <2>2, <2>3, <2>4, <2>5 DEF Next, Continue
<1>2. stage'[c] # "abandoned"
  <2> USE DEF HandlerInv, HandlerTypeOK, NoneLeftInv
  <2>1. ASSUME NEW d \in Conns, ServeStep(d) PROVE stage'[c] # "abandoned"
    BY <2>1 DEF ServeStep, FindConfiguration, CreateDefault, Store, StoreReturned,
       SendAllNotificationsToClient, SendEmptyNotificationListToClient,
       SendConfigurationsToClient, SendPrepared, StartReading, UpdateInfo, ReadLoopEnds, To
  <2>2. ASSUME NEW d \in Conns, ClientEvent(d) PROVE stage'[c] # "abandoned"
    BY <2>2 DEF ClientEvent, MarkAsReadAction, MarkAppReadAction, MarkGroupAsReadAction,
       MarkNotificationAsReadAction, DeleteNotificationsAction, DeleteAppNotificationsAction,
       DeleteGroupNotificationAction, DeleteNotificationAction, ReloadNotifications, ListAfter,
       SetNotificationStatusAction, To
  <2>3. ASSUME NEW d \in Conns,
               \/ Upgrade(d) \/ ReadError(d) \/ PingFails(d) \/ Redial(d)
               \/ ConnectionBreaks(d) \/ PeerStalls(d) \/ PingPanics(d)
        PROVE  stage'[c] # "abandoned"
    BY <2>3 DEF Upgrade, ReadError, PingFails, Redial, NewClient, ConnectionBreaks, PeerStalls,
       PingPanics, ProcessDies, serverVars, To
  <2>4. \A d \in Conns : ~ServePanics(d)
    BY DEF ServePanics, SendPanics, NoneLeft
  <2>5. ASSUME NEW p \in Procs, StoreStep(p) \/ \E q \in Procs : SendersCollide(p, q)
        PROVE  stage'[c] # "abandoned"
    BY <2>5 DEF StoreStep, SendersCollide, serverVars
  <2>6. ASSUME NEW p \in Creators,
               PushCreated(p) \/ CreatorPanics(p) \/ \E n \in Notes : CreateNotification(p, n)
        PROVE  stage'[c] # "abandoned"
    BY <2>6 DEF PushCreated, CreatorPanics, CreateNotification, serverVars
  <2>7. CASE \/ ServerRestarts \/ OtherReplicaStores \/ OtherReplicaRequests \/ Rest
             \/ UNCHANGED hvars
    BY <2>7 DEF ServerRestarts, ProcessDies, OtherReplicaStores, OtherReplicaRequests, Rest,
       serverVars, hvars
  <2> QED BY <2>1, <2>2, <2>3, <2>4, <2>5, <2>6, <2>7 DEF HandlerNext
<1> QED BY <1>1, <1>2

(***************************************************************************)
(* DeadHaveRemoverHolds: as long as no StoreClient fails and no handler    *)
(* panics, a broken connection that is listed has a goroutine that will    *)
(* remove it (websocket.go:156-158, 190-197 and 337-345), under breaks,    *)
(* crashes, redials, failing MongoDB requests and other replicas.          *)
(***************************************************************************)
THEOREM DeadHaveRemoverHolds ==
    ASSUME NoneLeft
    PROVE  HandlerSpec => []DeadHaveRemover
<1>1. HandlerInit => NoneLeftInv
  BY DEF HandlerInit, Init, NoneLeftInv
<1>2. HandlerInv /\ NoneLeftInv /\ [HandlerNext]_hvars => NoneLeftInv'
  BY NextNoneLeft
<1>3. HandlerInv /\ LifeInv /\ NoneLeftInv => DeadHaveRemover
  <2> SUFFICES ASSUME HandlerInv, LifeInv, NoneLeftInv,
                      NEW c \in Conns, c \in clients[Owner[c]] \ alive
               PROVE  HasRemover(c)
    BY DEF DeadHaveRemover
  <2>1. Owner[c] \in Users
    BY OwnerAssumption
  <2>2. Listed(c) /\ c \notin gone
    BY <2>1 DEF HandlerInv, IInv, ListInv, GoneStaysGone
  <2>3. stage[c] \in Stages /\ phase[c] # "failed" /\ stage[c] # "abandoned"
    BY DEF HandlerInv, HandlerTypeOK, NoneLeftInv
  <2>4. CASE stage[c] = "close"
    BY <2>2, <2>4, Goroutines DEF HandlerInv, StageInv, HasRemover
  <2>5. stage[c] \notin {"dial", "configure", "create", "store", "closed"}
    BY <2>2, <2>3 DEF HandlerInv, StageInv, LifeInv, Listed
  <2> QED BY <2>3, <2>4, <2>5 DEF Stages, HasRemover
<1> QED BY <1>1, <1>2, <1>3, HandlerInvariance, LifeInvHolds, PTL DEF HandlerSpec
=============================================================================
