--------------------------- MODULE DeliveryProofs ---------------------------
(***************************************************************************)
(* Proof of NothingIsLost for any users, connections, creators and         *)
(* notifications, where connections break, clients come back and the       *)
(* process dies and is started again (DeliveryFaults).                     *)
(*                                                                         *)
(* DeliveryInv says that somebody is about to bring what is missing.  A    *)
(* step is that of one goroutine q (the death of the process apart): what  *)
(* the others are about to bring they still are, so for each action there  *)
(* is left to see what becomes of q's own part, and what can be missing    *)
(* that was not before.                                                    *)
(***************************************************************************)
EXTENDS WebSocketHandlerProofs

OthersKeep(q) ==
    /\ \A p \in Procs \ {q} :
         /\ pc'[p] = pc[p]
         /\ payload'[p] = payload[p]
         /\ user'[p] = user[p]
         /\ todo'[p] = todo[p]
         /\ active'[p] = active[p]
    /\ \A d \in Conns : q # Serve(d) =>
         /\ stage'[d] = stage[d]
         /\ agenda'[d] = agenda[d]
         /\ phase[d] = "stored" => phase'[d] = "stored"

Mine(q, c, n) ==
    \/ \E d \in ConnsOf(Owner[c]) : q = Serve(d) /\ WillList(d)
    \/ Holds(q, Owner[c], n)
    \/ Brings(q, c, n)

LEMMA OthersPending ==
    ASSUME NEW q \in Procs, OthersKeep(q), NEW c \in Conns, NEW n \in Notes,
           Pending(c, n), ~Mine(q, c, n)
    PROVE  Pending(c, n)'
<1> USE Goroutines
<1>1. ASSUME NEW d \in ConnsOf(Owner[c]), WillList(d) PROVE WillList(d)'
  <2>1. q # Serve(d) /\ d \in Conns
    BY <1>1 DEF Mine, ConnsOf
  <2>2. payload'[Serve(d)] = payload[Serve(d)]
    BY <2>1 DEF OthersKeep
  <2> QED BY <1>1, <2>1, <2>2 DEF WillList, OthersKeep
<1>2. ASSUME NEW p \in Procs, Holds(p, Owner[c], n) PROVE Holds(p, Owner[c], n)'
  <2>1. p # q
    BY <1>2 DEF Mine
  <2>2. pc'[p] = pc[p] /\ payload'[p] = payload[p]
    BY <2>1 DEF OthersKeep
  <2>3. \A d \in ConnsOf(Owner[c]) : p = Serve(d) => agenda'[d] = agenda[d]
    BY <2>1 DEF OthersKeep, ConnsOf
  <2> QED BY <1>2, <2>2, <2>3 DEF Holds
<1>3. ASSUME NEW p \in Procs, Brings(p, c, n) PROVE Brings(p, c, n)'
  <2>1. p # q
    BY <1>3 DEF Mine
  <2> QED BY <1>3, <2>1 DEF OthersKeep, Brings, Sending
<1> QED BY <1>1, <1>2, <1>3 DEF Pending

LEMMA StepKeeps ==
    ASSUME DeliveryInv, NEW q \in Procs, OthersKeep(q),
           \A d \in Conns :
               q = Serve(d) /\ agenda'[d] = <<>> /\ pc'[q] = "idle" => payload'[q] = Nothing,
           todo'[q] \intersect active'[q] = {},
           \A c \in Conns, n \in Notes :
               Missing(c, n)' => Pending(c, n)' \/ (Missing(c, n) /\ ~Mine(q, c, n))
    PROVE  DeliveryInv'
<1>1. MessageInv'
  <2> SUFFICES ASSUME NEW d \in Conns, agenda'[d] = <<>>, pc'[Serve(d)] = "idle"
               PROVE  payload'[Serve(d)] = Nothing
    BY DEF MessageInv
  <2>1. CASE q = Serve(d)
    BY <2>1
  <2>2. CASE q # Serve(d)
    BY <2>2, Goroutines DEF OthersKeep, DeliveryInv, MessageInv
  <2> QED BY <2>1, <2>2
<1>2. TodoInv'
  BY DEF OthersKeep, DeliveryInv, TodoInv
<1>3. PendingInv'
  BY OthersPending DEF DeliveryInv, PendingInv
<1> QED BY <1>1, <1>2, <1>3 DEF DeliveryInv

\* nothing is missing that was not before
LEMMA MissingBefore ==
    ASSUME NEW c \in Conns, NEW n \in Notes, Missing(c, n)',
           c \in alive' => c \in alive, c \in gone => c \in gone',
           phase'[c] = phase[c], redis'[Owner[c]] = redis[Owner[c]],
           \A m \in Notes : status'[m] = "unread" => status[m] = "unread",
           received[c] \subseteq received'[c]
    PROVE  Missing(c, n)
BY DEF Missing, Unread, Repo!FindAll, Repo!OfUser, Repo!Stored

-----------------------------------------------------------------------------
(***************************************************************************)
(* A step inside the store.                                                *)
(***************************************************************************)
LEMMA StoreStepOthers ==
    ASSUME HandlerInv, DeliveryInv, NEW p \in Procs, StoreStep(p)
    PROVE  /\ OthersKeep(p)
           /\ todo'[p] \intersect active'[p] = {}
           /\ pc'[p] = "idle" => payload'[p] = Nothing
           /\ pc'[p] # "idle" => payload'[p] = payload[p]
           /\ UNCHANGED <<stage, agenda, alive, status>>
           /\ gone \subseteq gone'
<1> USE DEF HandlerInv, IInv, TypeOK, StoreStep
<1>1. \A q \in Procs \ {p} :
        pc'[q] = pc[q] /\ user'[q] = user[q] /\ todo'[q] = todo[q] /\ active'[q] = active[q]
  BY DEF Continue, StoreAppend, StoreSet, RemoveFilter, RemoveDel, SendInfo, SendWrite, SendBack,
     Return, SendReturn, Goto, sendVars
<1>2. /\ pc'[p] = "idle" => payload'[p] = Nothing
      /\ pc'[p] # "idle" => payload'[p] = payload[p]
      /\ \A q \in Procs \ {p} : payload'[q] = payload[q]
  BY DEF HandlerTypeOK, PayloadGiven
<1>3. UNCHANGED <<stage, agenda, alive, status>> /\ gone \subseteq gone'
  BY DEF Continue, StoreAppend, StoreSet, RemoveFilter, RemoveDel, SendInfo, SendWrite, SendBack,
     connVars, serverVars, dbVars
<1>4. \A d \in Conns : p # Serve(d) /\ phase[d] = "stored" => phase'[d] = "stored"
  <2>1. CASE StoreAppend(p) \/ StoreSet(p)
    <3>1. p = Serve(conn[p]) /\ conn[p] \in Conns
      BY <2>1 DEF StoringInv, CallInv, StoreAppend, StoreSet
    <3> QED BY <2>1, <3>1 DEF StoreAppend, StoreSet
  <2>2. CASE ~(StoreAppend(p) \/ StoreSet(p))
    BY <2>2 DEF Continue, RemoveFilter, RemoveDel, SendInfo, SendWrite, SendBack, connVars
  <2> QED BY <2>1, <2>2
<1>5. todo'[p] \intersect active'[p] = {}
  BY DEF DeliveryInv, TodoInv, Continue, StoreAppend, StoreSet, RemoveFilter, RemoveDel, SendInfo,
     SendWrite, SendBack, Return, SendReturn, sendVars
<1> QED BY <1>1, <1>2, <1>3, <1>4, <1>5 DEF OthersKeep

\* of the handler that p is, the store leaves as it is what it is going to do
LEMMA StoreStepWillList ==
    ASSUME HandlerInv, DeliveryInv, NEW p \in Procs, StoreStep(p),
           NEW d \in Conns, WillList(d), phase[d] = "stored" => phase'[d] = "stored"
    PROVE  WillList(d)'
<1>1. UNCHANGED <<stage, agenda>>
  BY StoreStepOthers
<1>2. payload[Serve(d)] = Nothing => payload'[Serve(d)] = Nothing
  BY StoreStepOthers, Goroutines DEF OthersKeep
<1> QED BY <1>1, <1>2 DEF WillList

LEMMA StoreStepReceives ==
    ASSUME HandlerInv, NEW p \in Procs, StoreStep(p), NEW c \in Conns
    PROVE  /\ received[c] \subseteq received'[c]
           /\ c \in active'[p] \ active[p] => Carried(payload[p]) \subseteq received'[c]
BY DEF StoreStep, Deliver, Written

LEMMA StoreStepDelivers ==
    ASSUME HandlerInv, DeliveryInv, DeliveryFaults, NEW p \in Procs, StoreStep(p)
    PROVE  DeliveryInv'
<1> SUFFICES ASSUME NEW c \in Conns, NEW n \in Notes, Missing(c, n)'
             PROVE  Pending(c, n)' \/ (Missing(c, n) /\ ~Mine(p, c, n))
  BY StoreStepOthers, StepKeeps
<1> USE Goroutines
<1>0. UNCHANGED <<alive, status>> /\ gone \subseteq gone' /\ received[c] \subseteq received'[c]
      /\ Continue(p)
  BY StoreStepOthers, StoreStepReceives DEF StoreStep
<1>1. ASSUME NEW d \in ConnsOf(Owner[c]), p = Serve(d), WillList(d),
             phase[d] = "stored" => phase'[d] = "stored"
      PROVE  Pending(c, n)'
  BY <1>1, StoreStepWillList DEF ConnsOf, Pending
<1>2. ~Holds(p, Owner[c], n)
  BY <1>0 DEF Holds, Continue, StoreAppend, StoreSet, RemoveFilter, RemoveDel, SendInfo, SendWrite,
     SendBack, WritesBack
<1>3. CASE StoreAppend(p)
  <2>1. conn[p] \in Conns /\ phase[conn[p]] = "storing"
    BY <1>3 DEF HandlerInv, IInv, CallInv, StoreAppend
  <2>2. \A d \in Conns : phase[d] = "stored" => phase'[d] = "stored"
    BY <1>3, <2>1 DEF HandlerInv, IInv, TypeOK, StoreAppend
  <2>3. phase'[c] = phase[c] /\ redis' = redis
    BY <1>3, <2>1 DEF HandlerInv, IInv, TypeOK, StoreAppend, Missing
  <2>4. ~Brings(p, c, n)
    BY <1>3 DEF Brings, Sending, StoreAppend
  <2> QED BY <1>0, <1>1, <1>2, <2>2, <2>3, <2>4, MissingBefore DEF Mine, ConnsOf
<1>4. CASE StoreSet(p)
  <2>1. PICK e \in Conns : conn[p] = e /\ p = Serve(e) /\ stage[e] = "stored"
    BY <1>4 DEF HandlerInv, IInv, CallInv, StoringInv, StoreSet
  <2>2. /\ phase' = [phase EXCEPT ![e] = "stored"]
        /\ redis' = [redis EXCEPT ![Owner[e]] = flag[p]]
    BY <1>4, <2>1 DEF DeliveryFaults, StoreSet, RedisWrite, RedisError
  <2>3. CASE Owner[e] = Owner[c]
    <3>1. WillList(e)'
      BY <2>1, <2>2, StoreStepOthers DEF HandlerInv, IInv, TypeOK, WillList
    <3> QED BY <2>3, <3>1 DEF Pending, ConnsOf
  <2>4. CASE Owner[e] # Owner[c]
    <3>1. phase'[c] = phase[c] /\ redis'[Owner[c]] = redis[Owner[c]]
      BY <2>2, <2>4, OwnerAssumption DEF HandlerInv, IInv, TypeOK
    <3>2. ~Brings(p, c, n)
      BY <1>4 DEF Brings, Sending, StoreSet
    <3>3. \A d \in ConnsOf(Owner[c]) : p # Serve(d)
      BY <2>1, <2>4 DEF ConnsOf
    <3> QED BY <1>0, <1>2, <3>1, <3>2, <3>3, MissingBefore DEF Mine
  <2> QED BY <2>3, <2>4
<1>5. CASE RemoveFilter(p) \/ RemoveDel(p)
  <2>1. UNCHANGED phase /\ (redis'[Owner[c]] = redis[Owner[c]] \/ redis'[Owner[c]] = "none")
    BY <1>5, OwnerAssumption
    DEF HandlerInv, IInv, TypeOK, RemoveFilter, RemoveDel, RedisWrite, RedisError, connVars
  <2>2. ~Brings(p, c, n)
    BY <1>5 DEF Brings, Sending, RemoveFilter, RemoveDel
  <2>3. redis'[Owner[c]] = "on"
    BY DEF Missing
  <2> QED BY <1>0, <1>1, <1>2, <2>1, <2>2, <2>3, MissingBefore DEF Mine, ConnsOf
<1>6. CASE SendInfo(p) \/ SendWrite(p) \/ SendBack(p)
  <2>1. UNCHANGED <<phase, redis>>
    BY <1>6 DEF SendInfo, SendWrite, SendBack, connVars
  <2>2. Missing(c, n)
    BY <1>0, <2>1, MissingBefore
  <2>3. ASSUME Brings(p, c, n) PROVE Brings(p, c, n)'
    <3>1. CASE SendInfo(p)
      <4>1. redis[user[p]] = "on" /\ "redis" \notin Faults
        BY <2>2, <2>3 DEF Missing, Brings, DeliveryFaults
      <4>2. pc'[p] = "sendWrite" /\ UNCHANGED <<user, todo>>
        BY <3>1, <4>1 DEF HandlerInv, IInv, TypeOK, SendInfo, Permitted, Goto, sendVars
      <4>3. payload'[p] = payload[p]
        BY <4>2, StoreStepOthers
      <4> QED BY <2>3, <4>2, <4>3 DEF Brings, Sending
    <3>2. CASE SendWrite(p)
      <4>1. PICK x \in todo[p] :
              /\ todo' = [todo EXCEPT ![p] = @ \ {x}]
              /\ active' = [active EXCEPT ![p] = @ \union ({x} \intersect alive)]
        BY <3>2 DEF SendWrite
      <4>2. UNCHANGED <<pc, user>> /\ pc[p] = "sendWrite"
        BY <3>2 DEF SendWrite
      <4>3. payload'[p] = payload[p]
        BY <4>2, StoreStepOthers
      <4>4. x # c
        <5> SUFFICES ASSUME x = c PROVE FALSE
          OBVIOUS
        <5>1. c \in active'[p] \ active[p]
          BY <2>2, <2>3, <4>1
          DEF HandlerInv, IInv, TypeOK, DeliveryInv, TodoInv, Missing, Brings
        <5>2. n \in received'[c]
          BY <2>3, <5>1, StoreStepReceives DEF Brings
        <5> QED BY <5>2 DEF Missing
      <4> QED BY <2>3, <4>1, <4>2, <4>3, <4>4 DEF HandlerInv, IInv, TypeOK, Brings, Sending
    <3>3. CASE SendBack(p)
      BY <2>3, <3>3 DEF SendBack, WritesBack, Brings
    <3> QED BY <1>6, <3>1, <3>2, <3>3
  <2> QED BY <1>1, <1>2, <2>1, <2>2, <2>3 DEF Mine, Pending, ConnsOf
<1> QED BY <1>0, <1>3, <1>4, <1>5, <1>6 DEF Continue

-----------------------------------------------------------------------------
(***************************************************************************)
(* Steps outside the store: those of a handler that owes nothing, those    *)
(* after which it owes a list, and the messages it prepares.               *)
(***************************************************************************)
LEMMA SameGoroutines ==
    ASSUME DeliveryInv,
           UNCHANGED <<stage, agenda, payload, phase, gone, pc, user, todo, active>>,
           UNCHANGED <<redis, status, received>>, alive' \subseteq alive
    PROVE  DeliveryInv'
<1>1. MessageInv' /\ TodoInv'
  BY DEF DeliveryInv, MessageInv, TodoInv
<1>2. ASSUME NEW c \in Conns, NEW n \in Notes, Missing(c, n)' PROVE Pending(c, n)'
  <2>1. Pending(c, n)
    BY <1>2, MissingBefore DEF DeliveryInv, PendingInv
  <2> QED BY <2>1 DEF Pending, WillList, Holds, Brings, Sending
<1> QED BY <1>1, <1>2 DEF DeliveryInv, PendingInv

LEMMA IdleNotMine ==
    ASSUME NEW d \in Conns, NEW s, s # "stored", At(d, s),
           NEW c \in Conns, NEW n \in Notes
    PROVE  ~Mine(Serve(d), c, n)
BY Goroutines DEF At, Mine, WillList, Holds, Brings, Sending, ConnsOf

LEMMA OthersNotMine ==
    ASSUME NEW d \in Conns, pc[Serve(d)] = "idle",
           NEW c \in Conns, NEW n \in Notes, Owner[c] # Owner[d]
    PROVE  ~Mine(Serve(d), c, n)
BY Goroutines DEF Mine, Holds, Brings, Sending, ConnsOf

\* the handler of d acts, and its goroutine stays outside the store
LEMMA HandlerOthers ==
    ASSUME HandlerInv, NEW d \in Conns, UNCHANGED <<pc, user, todo, active, phase>>,
           \A e \in Conns \ {d} : stage'[e] = stage[e] /\ agenda'[e] = agenda[e],
           \A p \in Procs \ {Serve(d)} : payload'[p] = payload[p]
    PROVE  OthersKeep(Serve(d))
BY Goroutines DEF OthersKeep

LEMMA HandlerKeeps ==
    ASSUME HandlerInv, DeliveryInv, NEW d \in Conns,
           UNCHANGED <<pc, user, todo, active, phase>>,
           \A e \in Conns \ {d} : stage'[e] = stage[e] /\ agenda'[e] = agenda[e],
           \A p \in Procs \ {Serve(d)} : payload'[p] = payload[p],
           agenda'[d] = <<>> => payload'[Serve(d)] = Nothing,
           \A c \in Conns, n \in Notes :
               Missing(c, n)' => Pending(c, n)' \/ (Missing(c, n) /\ ~Mine(Serve(d), c, n))
    PROVE  DeliveryInv'
<1>1. OthersKeep(Serve(d))
  BY HandlerOthers
<1>2. todo'[Serve(d)] \intersect active'[Serve(d)] = {}
  BY Goroutines DEF DeliveryInv, TodoInv
<1> QED BY <1>1, <1>2, StepKeeps, Goroutines

\* a handler that has nothing to send moves on
LEMMA HandlerWalks ==
    ASSUME HandlerInv, DeliveryInv, NEW d \in Conns, NEW s, s # "stored", At(d, s),
           NEW t, To(d, t), UNCHANGED <<agenda, payload, phase, gone, pc, user, todo, active>>,
           UNCHANGED <<redis, status, received>>, alive' \subseteq alive
    PROVE  DeliveryInv'
<1>1. \A e \in Conns \ {d} : stage'[e] = stage[e] /\ agenda'[e] = agenda[e]
  BY DEF HandlerInv, HandlerTypeOK, To
<1>2. agenda'[d] = <<>> => payload'[Serve(d)] = Nothing
  BY DEF At, DeliveryInv, MessageInv
<1>3. ASSUME NEW c \in Conns, NEW n \in Notes, Missing(c, n)'
      PROVE  Missing(c, n) /\ ~Mine(Serve(d), c, n)
  BY <1>3, MissingBefore, IdleNotMine
<1> QED BY <1>1, <1>2, <1>3, HandlerKeeps

\* it is going to list, for all connections of its user
LEMMA ListDue ==
    ASSUME HandlerInv, DeliveryInv, NEW d \in Conns, NEW s, At(d, s),
           \A e \in Conns \ {d} : stage'[e] = stage[e],
           UNCHANGED <<payload, phase, gone, pc, user, todo, active, received>>,
           alive' \subseteq alive,
           NEW a, a # <<>>, agenda' = [agenda EXCEPT ![d] = a],
           Head(a) = "all" \/ redis'[Owner[d]] # "on",
           \A u \in Users \ {Owner[d]} : redis'[u] = redis[u],
           \A m \in Notes : status'[m] = "unread" => status[m] = "unread"
    PROVE  DeliveryInv'
<1>1. agenda'[d] = a /\ \A e \in Conns \ {d} : agenda'[e] = agenda[e]
  BY DEF HandlerInv, HandlerTypeOK
<1>2. payload'[Serve(d)] = Nothing
  BY DEF At, DeliveryInv, MessageInv
<1>3. ASSUME NEW c \in Conns, NEW n \in Notes, Missing(c, n)'
      PROVE  Pending(c, n)' \/ (Missing(c, n) /\ ~Mine(Serve(d), c, n))
  <2>1. CASE Owner[c] = Owner[d]
    <3>1. WillList(d)'
      BY <1>1, <1>2, <1>3, <2>1 DEF WillList, Missing
    <3> QED BY <2>1, <3>1 DEF Pending, ConnsOf
  <2>2. CASE Owner[c] # Owner[d]
    <3>1. redis'[Owner[c]] = redis[Owner[c]]
      BY <2>2, OwnerAssumption
    <3> QED BY <1>3, <2>2, <3>1, MissingBefore, OthersNotMine DEF At
  <2> QED BY <2>1, <2>2
<1> QED BY <1>1, <1>2, <1>3, HandlerKeeps

-----------------------------------------------------------------------------
(***************************************************************************)
(* A call of sendToUser: whoever misses what is sent is in its list.       *)
(***************************************************************************)
LEMMA SendToUserOthers ==
    ASSUME HandlerInv, DeliveryInv, NEW p \in Procs, NEW u, NEW f, SendToUser(p, u, f),
           PayloadGiven(p)
    PROVE  /\ pc[p] = "idle" /\ (pc'[p] = "idle" => payload'[p] = Nothing)
           /\ todo'[p] \intersect active'[p] = {}
           /\ UNCHANGED <<redis, alive, phase, gone>>
           /\ \A q \in Procs \ {p} :
                /\ pc'[q] = pc[q] /\ user'[q] = user[q] /\ todo'[q] = todo[q]
                /\ active'[q] = active[q] /\ payload'[q] = payload[q]
<1> USE DEF HandlerInv, IInv, TypeOK
<1>1. pc[p] = "idle" /\ active[p] = {} /\ UNCHANGED <<active, redis, alive, phase, gone>>
  BY DEF SendToUser, CallInv, connVars
<1>2. \A q \in Procs \ {p} : pc'[q] = pc[q] /\ user'[q] = user[q] /\ todo'[q] = todo[q]
  BY DEF SendToUser, Goto
<1>3. /\ pc'[p] = "idle" => payload'[p] = Nothing
      /\ \A q \in Procs \ {p} : payload'[q] = payload[q]
  BY DEF HandlerTypeOK, PayloadGiven
<1> QED BY <1>1, <1>2, <1>3

LEMMA SendToUserBrings ==
    ASSUME HandlerInv, DeliveryFaults, NEW c \in Conns, NEW n \in Notes, Missing(c, n),
           NEW p \in Procs, NEW f, SendToUser(p, Owner[c], f), PayloadGiven(p),
           n \in Carried(payload[p])
    PROVE  Brings(p, c, n)'
<1> USE DEF HandlerInv, IInv, TypeOK
<1>1. c \in clients[Owner[c]]
  BY DEF Missing, DeliveryFaults, RacesAreBenign, LiveStayRegistered, Listed
<1>2. Owner[c] \in keys
  BY <1>1, OwnerAssumption DEF ListInv
<1>3. ListsRead(Owner[c]) = {clients[Owner[c]]}
  BY DEF ListsRead, DeliveryFaults
<1>4. pc'[p] = "sendInfo" /\ user'[p] = Owner[c] /\ todo'[p] = clients[Owner[c]]
  BY <1>2, <1>3 DEF SendToUser, Goto
<1>5. payload'[p] = payload[p]
  BY <1>4 DEF HandlerTypeOK, PayloadGiven
<1> QED BY <1>1, <1>4, <1>5 DEF Brings, Sending

LEMMA SendPreparedDelivers ==
    ASSUME HandlerInv, DeliveryInv, DeliveryFaults, NEW d \in Conns, SendPrepared(d)
    PROVE  DeliveryInv'
<1> USE Goroutines
<1>1. PICK f : SendToUser(Serve(d), Owner[d], f)
  BY DEF SendPrepared
<1>2. /\ PayloadGiven(Serve(d)) /\ payload[Serve(d)] # Nothing
      /\ UNCHANGED <<stage, received, status>>
      /\ \A e \in Conns \ {d} : agenda'[e] = agenda[e]
  BY DEF SendPrepared, HandlerInv, HandlerTypeOK, clientVars, dbVars
<1>3. OthersKeep(Serve(d))
  BY <1>1, <1>2, SendToUserOthers DEF OthersKeep
<1>4. ASSUME NEW c \in Conns, NEW n \in Notes, Missing(c, n)'
      PROVE  Pending(c, n)' \/ (Missing(c, n) /\ ~Mine(Serve(d), c, n))
  <2>1. Missing(c, n)
    BY <1>1, <1>2, <1>4, SendToUserOthers, MissingBefore
  <2>2. CASE Holds(Serve(d), Owner[c], n)
    <3>1. Owner[c] = Owner[d]
      BY <2>2 DEF Holds, ConnsOf
    <3> QED BY <1>1, <1>2, <2>1, <2>2, <3>1, SendToUserBrings DEF Holds, Pending
  <2>3. CASE \E e \in ConnsOf(Owner[c]) : Serve(d) = Serve(e) /\ WillList(e)
    <3>1. d \in ConnsOf(Owner[c]) /\ stage[d] = "stored" /\ phase[d] = "stored"
      BY <1>2, <2>3 DEF ConnsOf, WillList
    <3>2. WillList(d)'
      BY <1>1, <1>2, <3>1, SendToUserOthers DEF WillList
    <3> QED BY <3>1, <3>2 DEF Pending
  <2>4. ~Brings(Serve(d), c, n)
    BY <1>1, <1>2, SendToUserOthers DEF Brings, Sending
  <2> QED BY <2>1, <2>2, <2>3, <2>4 DEF Mine
<1> QED BY <1>1, <1>2, <1>3, <1>4, SendToUserOthers, StepKeeps

LEMMA PushCreatedDelivers ==
    ASSUME HandlerInv, DeliveryInv, DeliveryFaults, NEW p \in Creators, PushCreated(p)
    PROVE  DeliveryInv'
<1> USE Goroutines
<1>1. PICK m \in Notes : payload[p] = New(m)
  BY DEF HandlerInv, CreatorInv, PushCreated
<1>2. SendToUser(p, Doc[m].userId, "check") /\ PayloadGiven(p)
  BY <1>1 DEF PushCreated, New
<1>3. UNCHANGED <<stage, agenda, received, status>>
  BY DEF PushCreated, serverVars, clientVars, dbVars
<1>4. OthersKeep(p)
  BY <1>2, <1>3, SendToUserOthers DEF OthersKeep
<1>5. ASSUME NEW c \in Conns, NEW n \in Notes, Missing(c, n)'
      PROVE  Pending(c, n)' \/ (Missing(c, n) /\ ~Mine(p, c, n))
  <2>1. Missing(c, n)
    BY <1>2, <1>3, <1>5, SendToUserOthers, MissingBefore
  <2>2. CASE Holds(p, Owner[c], n)
    <3>1. n = m
      BY <1>1, <2>2 DEF Holds, Carried, New
    <3>2. Doc[m].userId = Owner[c]
      BY <2>1, <3>1 DEF Missing, Unread, Repo!FindAll, Repo!OfUser
    <3> QED BY <1>2, <2>1, <2>2, <3>2, SendToUserBrings DEF Holds, Pending
  <2>3. ~Brings(p, c, n) /\ ~\E e \in ConnsOf(Owner[c]) : p = Serve(e) /\ WillList(e)
    BY <1>2, SendToUserOthers DEF Brings, Sending, ConnsOf
  <2> QED BY <2>1, <2>2, <2>3 DEF Mine
<1> QED BY <1>2, <1>4, <1>5, SendToUserOthers, StepKeeps

LEMMA CreateDelivers ==
    ASSUME HandlerInv, DeliveryInv, DeliveryFaults,
           NEW p \in Creators, NEW m \in Notes, CreateNotification(p, m)
    PROVE  DeliveryInv'
<1> USE Goroutines
<1>1. /\ pc[p] = "idle" /\ payload[p] = Nothing
      /\ payload' = [payload EXCEPT ![p] = New(m)]
      /\ status' = [status EXCEPT ![m] = "unread"]
      /\ UNCHANGED <<vars, serverVars, received>>
  BY DEF CreateNotification, Create, Repo!Create, DeliveryFaults, MongoFails, clientVars
<1>2. OthersKeep(p)
  BY <1>1 DEF HandlerInv, HandlerTypeOK, OthersKeep, vars, procVars, sendVars, connVars, serverVars
<1>3. todo'[p] \intersect active'[p] = {}
  BY <1>1 DEF DeliveryInv, TodoInv, vars, procVars, sendVars
<1>4. ASSUME NEW c \in Conns, NEW n \in Notes, Missing(c, n)'
      PROVE  Pending(c, n)' \/ (Missing(c, n) /\ ~Mine(p, c, n))
  <2>1. CASE n = m
    <3>1. payload'[p] = New(n) /\ pc'[p] = "idle"
      BY <1>1, <2>1 DEF HandlerInv, HandlerTypeOK, vars, procVars
    <3>2. Holds(p, Owner[c], n)'
      BY <3>1 DEF Holds, Carried, New
    <3> QED BY <3>2 DEF Pending
  <2>2. CASE n # m
    <3>1. status'[n] = status[n]
      BY <1>1, <2>2 DEF HandlerInv, HandlerTypeOK, Repo!StatusTypeOK
    <3>2. Missing(c, n)
      BY <1>1, <1>4, <3>1
      DEF Missing, Unread, Repo!FindAll, Repo!OfUser, Repo!Stored, vars, connVars
    <3>3. ~Mine(p, c, n)
      BY <1>1 DEF Mine, ConnsOf, Holds, Carried, Nothing, Brings, Sending
    <3> QED BY <3>2, <3>3
  <2> QED BY <2>1, <2>2
<1> QED BY <1>1, <1>2, <1>3, <1>4, StepKeeps

(***************************************************************************)
(* The messages a handler reads from the databases.                        *)
(***************************************************************************)
LEMMA SendAllDelivers ==
    ASSUME HandlerInv, DeliveryInv, DeliveryFaults,
           NEW d \in Conns, SendAllNotificationsToClient(d)
    PROVE  DeliveryInv'
<1> USE Goroutines
<1>1. /\ pc[Serve(d)] = "idle" /\ agenda[d] # <<>>
      /\ payload' = [payload EXCEPT ![Serve(d)] = List(Unread(Owner[d]))]
      /\ UNCHANGED <<vars, agenda, stage, status, received>>
  BY DEF SendAllNotificationsToClient, Due, FindAll, Prepare, Unread, DeliveryFaults, MongoFails,
     clientVars, dbVars
<1>2. payload'[Serve(d)] = List(Unread(Owner[d]))
      /\ \A p \in Procs \ {Serve(d)} : payload'[p] = payload[p]
  BY <1>1 DEF HandlerInv, HandlerTypeOK
<1>3. ASSUME NEW c \in Conns, NEW n \in Notes, Missing(c, n)'
      PROVE  Pending(c, n)' \/ (Missing(c, n) /\ ~Mine(Serve(d), c, n))
  <2>1. Missing(c, n)
    BY <1>1, <1>3, MissingBefore DEF vars, connVars
  <2>2. CASE Owner[c] = Owner[d]
    <3>1. n \in Carried(payload'[Serve(d)])
      BY <1>2, <2>1, <2>2 DEF Missing, Carried, List
    <3>2. Holds(Serve(d), Owner[c], n)'
      BY <1>1, <2>2, <3>1 DEF Holds, ConnsOf, vars, procVars
    <3> QED BY <3>2 DEF Pending
  <2>3. CASE Owner[c] # Owner[d]
    BY <1>1, <2>1, <2>3, OthersNotMine
  <2> QED BY <2>2, <2>3
<1> QED BY <1>1, <1>2, <1>3, HandlerKeeps DEF vars, procVars, sendVars, connVars

LEMMA SendOtherDelivers ==
    ASSUME HandlerInv, DeliveryInv, NEW d \in Conns,
           SendEmptyNotificationListToClient(d) \/ SendConfigurationsToClient(d)
    PROVE  DeliveryInv'
<1> USE Goroutines
<1>1. /\ pc[Serve(d)] = "idle" /\ agenda[d] # <<>> /\ payload[Serve(d)] = Nothing
      /\ stage[d] # "stored" /\ Head(agenda[d]) # "all"
  BY DEF SendEmptyNotificationListToClient, SendConfigurationsToClient, Due
<1>2. UNCHANGED <<vars, stage, status, received>>
      /\ ((\E m : Prepare(d, m)) \/ SkipMessage(d))
  BY DEF SendEmptyNotificationListToClient, SendConfigurationsToClient, clientVars, dbVars
<1>3. /\ \A p \in Procs \ {Serve(d)} : payload'[p] = payload[p]
      /\ \A e \in Conns \ {d} : agenda'[e] = agenda[e]
      /\ agenda'[d] = <<>> => payload'[Serve(d)] = Nothing
  BY <1>1, <1>2 DEF HandlerInv, HandlerTypeOK, Prepare, SkipMessage
<1>4. ASSUME NEW c \in Conns, NEW n \in Notes, Missing(c, n)'
      PROVE  Missing(c, n) /\ ~Mine(Serve(d), c, n)
  <2>1. Missing(c, n)
    BY <1>2, <1>4, MissingBefore DEF vars, connVars
  <2>2. ~Mine(Serve(d), c, n)
    BY <1>1 DEF Mine, ConnsOf, WillList, Holds, Carried, Nothing, Brings, Sending
  <2> QED BY <2>1, <2>2
<1> QED BY <1>2, <1>3, <1>4, HandlerKeeps DEF vars, procVars, sendVars, connVars

(***************************************************************************)
(* The other steps of a handler.                                           *)
(***************************************************************************)
LEMMA StoreDelivers ==
    ASSUME HandlerInv, DeliveryInv, NEW d \in Conns, Store(d)
    PROVE  DeliveryInv'
<1> USE Goroutines
<1>1. /\ At(d, "store")
      /\ \A e \in Conns \ {d} : stage'[e] = stage[e] /\ phase'[e] = phase[e]
      /\ phase'[d] = "storing" /\ pc'[Serve(d)] = "storeLock"
      /\ \A p \in Procs \ {Serve(d)} : pc'[p] = pc[p]
      /\ UNCHANGED <<agenda, payload, gone, alive, user, todo, active, redis, status, received>>
  BY DEF HandlerInv, HandlerTypeOK, IInv, TypeOK, Store, StoreClient, To, Goto, sendVars,
     clientVars, dbVars
<1>2. OthersKeep(Serve(d))
  BY <1>1 DEF OthersKeep
<1>3. todo'[Serve(d)] \intersect active'[Serve(d)] = {}
  BY <1>1 DEF DeliveryInv, TodoInv
<1>4. ASSUME NEW c \in Conns, NEW n \in Notes, Missing(c, n)'
      PROVE  Missing(c, n) /\ ~Mine(Serve(d), c, n)
  <2>1. c # d
    BY <1>1, <1>4 DEF Missing
  <2> QED BY <1>1, <1>4, <2>1, MissingBefore, IdleNotMine
<1> QED BY <1>1, <1>2, <1>3, <1>4, StepKeeps

LEMMA StoreReturnedDelivers ==
    ASSUME HandlerInv, DeliveryInv, NEW d \in Conns, StoreReturned(d)
    PROVE  DeliveryInv'
<1>1. /\ At(d, "stored")
      /\ \A e \in Conns \ {d} : stage'[e] = stage[e]
      /\ UNCHANGED <<payload, phase, gone, pc, user, todo, active, redis, status, received>>
      /\ alive' \subseteq alive
  BY DEF HandlerInv, HandlerTypeOK, StoreReturned, Close, Break, To, vars, procVars, sendVars,
     connVars, clientVars, dbVars
<1>2. CASE phase[d] = "stored"
  <2>1. agenda' = [agenda EXCEPT ![d] = <<"all", "config">>]
    BY <1>2 DEF StoreReturned
  <2>2. <<"all", "config">> # <<>> /\ Head(<<"all", "config">>) = "all"
    OBVIOUS
  <2> QED BY <1>1, <2>1, <2>2, ListDue
<1>3. CASE phase[d] # "stored"
  <2>1. UNCHANGED agenda
    BY <1>3 DEF StoreReturned
  <2>2. ASSUME NEW c \in Conns, NEW n \in Notes, Missing(c, n)'
        PROVE  Missing(c, n) /\ ~Mine(Serve(d), c, n)
    <3>1. Missing(c, n)
      BY <1>1, <2>2, MissingBefore
    <3>2. ~Mine(Serve(d), c, n)
      BY <1>1, <1>3, Goroutines DEF At, Mine, WillList, Holds, Brings, Sending, ConnsOf
    <3> QED BY <3>1, <3>2
  <2>3. agenda'[d] = <<>> => payload'[Serve(d)] = Nothing
    BY <1>1 DEF At, DeliveryInv, MessageInv
  <2> QED BY <1>1, <2>1, <2>2, <2>3, HandlerKeeps
<1> QED BY <1>2, <1>3

LEMMA UpdateInfoDelivers ==
    ASSUME HandlerInv, DeliveryInv, DeliveryFaults, NEW d \in Conns, UpdateInfo(d)
    PROVE  DeliveryInv'
<1>1. /\ At(d, "update")
      /\ \A e \in Conns \ {d} : stage'[e] = stage[e]
      /\ UNCHANGED <<payload, phase, gone, alive, pc, user, todo, active, status, received>>
      /\ redis' = [redis EXCEPT ![Owner[d]] = info[d]]
  BY DEF HandlerInv, HandlerTypeOK, UpdateInfo, UpdateClientInfo, RedisWrite, DeliveryFaults, To,
     procVars, sendVars, connVars, clientVars, dbVars
<1>2. redis'[Owner[d]] = info[d] /\ \A u \in Users \ {Owner[d]} : redis'[u] = redis[u]
  BY <1>1, OwnerAssumption DEF HandlerInv, IInv, TypeOK
<1>3. CASE info[d] = "on"
  <2>1. agenda' = [agenda EXCEPT ![d] = <<"all", "config">>]
    BY <1>3 DEF UpdateInfo
  <2>2. <<"all", "config">> # <<>> /\ Head(<<"all", "config">>) = "all"
    OBVIOUS
  <2> QED BY <1>1, <1>2, <2>1, <2>2, ListDue
<1>4. CASE info[d] # "on"
  <2>1. agenda' = [agenda EXCEPT ![d] = <<"empty", "config">>]
    BY <1>4 DEF UpdateInfo
  <2>2. <<"empty", "config">> # <<>>
    OBVIOUS
  <2> QED BY <1>1, <1>2, <1>4, <2>1, <2>2, ListDue
<1> QED BY <1>3, <1>4

LEMMA WalkingDelivers ==
    ASSUME HandlerInv, DeliveryInv, NEW d \in Conns,
           \/ Upgrade(d) \/ FindConfiguration(d) \/ CreateDefault(d)
           \/ StartReading(d) \/ ReadLoopEnds(d)
           \/ \E f \in Flags : SetNotificationStatusAction(d, f)
    PROVE  DeliveryInv'
<1>1. \E s \in {"dial", "configure", "create", "greet", "close", "read"} : At(d, s)
  BY DEF Upgrade, FindConfiguration, CreateDefault, StartReading, ReadLoopEnds,
     SetNotificationStatusAction, Event
<1>2. \E t \in Stages : To(d, t)
  BY DEF Upgrade, FindConfiguration, CreateDefault, StartReading, ReadLoopEnds,
     SetNotificationStatusAction, Stages
<1>3. /\ UNCHANGED <<agenda, payload, phase, gone, pc, user, todo, active>>
      /\ UNCHANGED <<redis, status, received>>
      /\ alive' \subseteq alive
  BY DEF Upgrade, FindConfiguration, CreateDefault, StartReading, ReadLoopEnds,
     SetNotificationStatusAction, Event, Close, Break, vars, procVars, sendVars, connVars,
     clientVars, dbVars
<1> QED BY <1>1, <1>2, <1>3, HandlerWalks

\* a request of a client makes no notification unread
LEMMA RequestsOnlyRead ==
    ASSUME NEW u, NEW a, NEW g, NEW m \in Notes,
           \/ MarkAsRead(u) \/ MarkAppAsRead(u, a) \/ MarkGroupAsRead(u, a, g)
           \/ MarkNotificationAsRead(u, m)
           \/ DeleteNotifications(u) \/ DeleteAppNotifications(u, a)
           \/ DeleteGroupNotifications(u, a, g) \/ DeleteNotification(u, m)
           \/ UNCHANGED status
    PROVE  \A n \in Notes : status'[n] = "unread" => status[n] = "unread"
BY DEF MarkAsRead, MarkAppAsRead, MarkGroupAsRead, MarkNotificationAsRead, DeleteNotifications,
   DeleteAppNotifications, DeleteGroupNotifications, DeleteNotification, RequestFails,
   Repo!MarkAsRead, Repo!MarkAppAsRead, Repo!MarkGroupAsRead, Repo!MarkNotificationAsRead,
   Repo!DeleteNotifications, Repo!DeleteAppNotifications, Repo!DeleteGroupNotifications,
   Repo!DeleteNotification, Repo!SetReadStatus, Repo!Remove

LEMMA ListAfterDelivers ==
    ASSUME HandlerInv, DeliveryInv, NEW d \in Conns, NEW name, NEW Request,
           ListAfter(d, name, Request),
           \A n \in Notes : status'[n] = "unread" => status[n] = "unread"
    PROVE  DeliveryInv'
<1>1. /\ At(d, "read")
      /\ UNCHANGED <<stage, payload, phase, gone, alive, pc, user, todo, active, redis, received>>
      /\ agenda' = [agenda EXCEPT ![d] = <<"all">>]
  BY DEF ListAfter, Event, vars, procVars, sendVars, connVars, clientVars
<1>2. <<"all">> # <<>> /\ Head(<<"all">>) = "all"
  OBVIOUS
<1> QED BY <1>1, <1>2, ListDue

LEMMA EventDelivers ==
    ASSUME HandlerInv, DeliveryInv, NEW d \in Conns, ClientEvent(d)
    PROVE  DeliveryInv'
<1>1. CASE \E f \in Flags : SetNotificationStatusAction(d, f)
  BY <1>1, WalkingDelivers
<1>2. CASE MarkAsReadAction(d)
  <2>1. \A n \in Notes : status'[n] = "unread" => status[n] = "unread"
    BY <1>2, RequestsOnlyRead DEF MarkAsReadAction, ListAfter
  <2> QED BY <1>2, <2>1, ListAfterDelivers DEF MarkAsReadAction
<1>3. CASE DeleteNotificationsAction(d)
  <2>1. \A n \in Notes : status'[n] = "unread" => status[n] = "unread"
    BY <1>3, RequestsOnlyRead DEF DeleteNotificationsAction, ListAfter
  <2> QED BY <1>3, <2>1, ListAfterDelivers DEF DeleteNotificationsAction
<1>4. CASE ReloadNotifications(d)
  <2>1. \A n \in Notes : status'[n] = "unread" => status[n] = "unread"
    BY <1>4 DEF ReloadNotifications, ListAfter
  <2> QED BY <1>4, <2>1, ListAfterDelivers DEF ReloadNotifications
<1>5. ASSUME NEW m \in Notes,
             \/ MarkAppReadAction(d, m) \/ MarkGroupAsReadAction(d, m)
             \/ MarkNotificationAsReadAction(d, m)
             \/ DeleteAppNotificationsAction(d, m) \/ DeleteGroupNotificationAction(d, m)
             \/ DeleteNotificationAction(d, m)
      PROVE  DeliveryInv'
  <2>1. \A n \in Notes : status'[n] = "unread" => status[n] = "unread"
    BY <1>5, RequestsOnlyRead
    DEF MarkAppReadAction, MarkGroupAsReadAction, MarkNotificationAsReadAction,
        DeleteAppNotificationsAction, DeleteGroupNotificationAction, DeleteNotificationAction,
        ListAfter
  <2> QED BY <1>5, <2>1, ListAfterDelivers
    DEF MarkAppReadAction, MarkGroupAsReadAction, MarkNotificationAsReadAction,
        DeleteAppNotificationsAction, DeleteGroupNotificationAction, DeleteNotificationAction
<1> QED BY <1>1, <1>2, <1>3, <1>4, <1>5 DEF ClientEvent

(***************************************************************************)
(* The ends of a connection, and of the process.                           *)
(***************************************************************************)
LEMMA RemovalDelivers ==
    ASSUME HandlerInv, DeliveryInv, NEW d \in Conns, ReadError(d) \/ PingFails(d)
    PROVE  DeliveryInv'
<1> USE Goroutines
<1>1. PICK p \in Procs :
        \/ p = Serve(d) /\ ReadError(d)
        \/ p = Ping(d) /\ PingFails(d)
  OBVIOUS
<1>2. /\ pc[p] = "idle" /\ pc'[p] = "removeLock"
      /\ \A r \in Procs \ {p} : pc'[r] = pc[r]
      /\ \A e \in Conns : p # Serve(e) => stage'[e] = stage[e]
      /\ UNCHANGED <<agenda, payload, phase, gone, alive, user, todo, active>>
      /\ UNCHANGED <<redis, status, received>>
  BY <1>1 DEF HandlerInv, HandlerTypeOK, IInv, TypeOK, ReadError, PingFails, RemoveConnection, To,
     Goto, sendVars, connVars, clientVars, dbVars
<1>3. OthersKeep(p)
  BY <1>2 DEF OthersKeep
<1>4. todo'[p] \intersect active'[p] = {}
  BY <1>2 DEF DeliveryInv, TodoInv
<1>5. ASSUME NEW c \in Conns, NEW n \in Notes, Missing(c, n)'
      PROVE  Missing(c, n) /\ ~Mine(p, c, n)
  <2>1. Missing(c, n)
    BY <1>2, <1>5, MissingBefore
  <2>2. CASE ReadError(d) /\ p = Serve(d)
    BY <2>1, <2>2, IdleNotMine DEF ReadError
  <2>3. CASE p = Ping(d)
    BY <1>2, <2>1, <2>3 DEF Mine, Holds, Brings, Sending, ConnsOf
  <2> QED BY <1>1, <2>2, <2>3
<1> QED BY <1>2, <1>3, <1>4, <1>5, StepKeeps

LEMMA RedialDelivers ==
    ASSUME HandlerInv, DeliveryInv, NEW d \in Conns, Redial(d)
    PROVE  DeliveryInv'
<1> USE Goroutines
<1>1. /\ At(d, "closed") \/ At(d, "abandoned")
      /\ phase'[d] = "fresh"
      /\ \A e \in Conns \ {d} :
           /\ stage'[e] = stage[e] /\ phase'[e] = phase[e] /\ received'[e] = received[e]
           /\ (e \in alive' => e \in alive) /\ (e \in gone => e \in gone')
      /\ UNCHANGED <<agenda, payload, pc, user, todo, active, redis, status>>
  BY DEF HandlerInv, HandlerTypeOK, IInv, TypeOK, Redial, NewClient, Renew, procVars, sendVars,
     dbVars
<1>2. OthersKeep(Serve(d))
  BY <1>1 DEF OthersKeep
<1>3. todo'[Serve(d)] \intersect active'[Serve(d)] = {}
  BY <1>1 DEF DeliveryInv, TodoInv
<1>4. payload'[Serve(d)] = Nothing
  BY <1>1 DEF At, DeliveryInv, MessageInv
<1>5. ASSUME NEW c \in Conns, NEW n \in Notes, Missing(c, n)'
      PROVE  Missing(c, n) /\ ~Mine(Serve(d), c, n)
  <2>1. c # d
    BY <1>1, <1>5 DEF Missing
  <2> QED BY <1>1, <1>5, <2>1, MissingBefore, IdleNotMine
<1> QED BY <1>2, <1>3, <1>4, <1>5, StepKeeps

LEMMA RestartDelivers == ProcessDies => DeliveryInv'
<1> SUFFICES ASSUME ProcessDies PROVE DeliveryInv'
  OBVIOUS
<1>1. MessageInv'
  BY Goroutines DEF ProcessDies, MessageInv
<1>2. TodoInv'
  BY DEF ProcessDies, Crash, TodoInv
<1>3. PendingInv'
  BY DEF ProcessDies, Crash, PendingInv, Missing
<1> QED BY <1>1, <1>2, <1>3 DEF DeliveryInv

LEMMA NoOtherFaults ==
    ASSUME DeliveryFaults
    PROVE  /\ \A c \in Conns : ~ServePanics(c) /\ ~PeerStalls(c)
           /\ \A p \in Creators : ~CreatorPanics(p)
           /\ \A p, q \in Procs : ~SendersCollide(p, q)
           /\ ~OtherReplicaStores /\ ~OtherReplicaRequests
BY DEF DeliveryFaults, ServePanics, SendPanics, PeerStalls, CreatorPanics, SendersCollide,
   SendBackTorn, OtherReplicaStores, OtherReplica, OtherReplicaRequests

-----------------------------------------------------------------------------
(***************************************************************************)
(* DeliveryInv is inductive, and gives NothingIsLost.                      *)
(***************************************************************************)
LEMMA InitDeliveryInv == HandlerInit => DeliveryInv
<1> SUFFICES ASSUME HandlerInit PROVE DeliveryInv
  OBVIOUS
<1>1. MessageInv
  BY Goroutines DEF HandlerInit, MessageInv
<1>2. TodoInv
  BY DEF HandlerInit, Init, ProcInit, TodoInv
<1>3. PendingInv
  BY DEF HandlerInit, Init, PendingInv, Missing
<1> QED BY <1>1, <1>2, <1>3 DEF DeliveryInv

LEMMA NextDeliveryInv ==
    DeliveryFaults /\ HandlerInv /\ DeliveryInv /\ [HandlerNext]_hvars => DeliveryInv'
<1> SUFFICES ASSUME DeliveryFaults, HandlerInv, DeliveryInv, [HandlerNext]_hvars
             PROVE  DeliveryInv'
  OBVIOUS
<1>1. ASSUME NEW d \in Conns, Upgrade(d) \/ ServeStep(d) \/ ClientEvent(d) PROVE DeliveryInv'
  BY <1>1, WalkingDelivers, StoreDelivers, StoreReturnedDelivers, SendAllDelivers,
     SendOtherDelivers, SendPreparedDelivers, UpdateInfoDelivers, EventDelivers DEF ServeStep
<1>2. ASSUME NEW d \in Conns, ReadError(d) \/ PingFails(d) \/ Redial(d) PROVE DeliveryInv'
  BY <1>2, RemovalDelivers, RedialDelivers
<1>3. CASE ServerRestarts \/ \E c \in Conns : PingPanics(c)
  BY <1>3, RestartDelivers DEF ServerRestarts, PingPanics
<1>4. CASE Rest \/ UNCHANGED hvars \/ \E c \in Conns : ConnectionBreaks(c)
  <2>1. /\ UNCHANGED <<stage, agenda, payload, phase, gone, pc, user, todo, active>>
        /\ UNCHANGED <<redis, status, received>> /\ alive' \subseteq alive
    BY <1>4 DEF Rest, ConnectionBreaks, Break, hvars, vars, procVars, sendVars, connVars,
       serverVars, clientVars, dbVars
  <2> QED BY <2>1, SameGoroutines
<1>5. ASSUME NEW p \in Creators, PushCreated(p) \/ \E n \in Notes : CreateNotification(p, n)
      PROVE  DeliveryInv'
  BY <1>5, PushCreatedDelivers, CreateDelivers
<1> QED BY <1>1, <1>2, <1>3, <1>4, <1>5, StoreStepDelivers, NoOtherFaults DEF HandlerNext

(***************************************************************************)
(* As long as a notification is missing somebody is about to bring it.     *)
(***************************************************************************)
THEOREM DeliveryInvHolds ==
    ASSUME DeliveryFaults
    PROVE  HandlerSpec => []DeliveryInv
<1>1. HandlerInit => DeliveryInv
  BY InitDeliveryInv
<1>2. HandlerInv /\ DeliveryInv /\ [HandlerNext]_hvars => DeliveryInv'
  BY NextDeliveryInv
<1> QED BY <1>1, <1>2, HandlerInvariance, PTL DEF HandlerSpec

(***************************************************************************)
(* Whenever the server is quiet, every unread notification of a user has   *)
(* reached every working connection of his that Redis has as enabled,      *)
(* whatever registrations, removals, pushes, lists, changes of the flag,   *)
(* breaks, reconnections and restarts have come between.                   *)
(***************************************************************************)
THEOREM NothingIsLostHolds ==
    ASSUME DeliveryFaults
    PROVE  HandlerSpec => []NothingIsLost
<1>1. DeliveryInv /\ HandlerInv => NothingIsLost
  <2> SUFFICES ASSUME DeliveryInv, HandlerInv, Quiet, NEW c \in Conns, Reading(c),
                      redis[Owner[c]] = "on", NEW n \in Unread(Owner[c]), n \notin received[c]
               PROVE  FALSE
    BY DEF NothingIsLost
  <2>1. n \in Notes /\ Missing(c, n)
    BY DEF Missing, Reading, HandlerInv, StageInv, Unread, Repo!FindAll, Repo!OfUser
  <2>2. Pending(c, n)
    BY <2>1 DEF DeliveryInv, PendingInv
  <2>3. ASSUME NEW d \in ConnsOf(Owner[c]) PROVE ~WillList(d)
    BY DEF Quiet, ConnsOf, WillList
  <2>4. ASSUME NEW p \in Procs PROVE ~Holds(p, Owner[c], n) /\ ~Brings(p, c, n)
    BY DEF Quiet, Holds, Brings, Sending, Carried, Nothing
  <2> QED BY <2>2, <2>3, <2>4 DEF Pending
<1> QED BY <1>1, DeliveryInvHolds, HandlerInvariance, PTL
=============================================================================
