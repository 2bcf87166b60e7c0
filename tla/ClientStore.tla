---------------------------- MODULE ClientStore ----------------------------
(***************************************************************************)
(* services/client_store.go: the map `clients' from a user to the list of  *)
(* his websocket connections, guarded by the RWMutex `clientsMutex', and   *)
(* the record "client:<id>" that Redis keeps for each connected user.      *)
(*                                                                         *)
(* Goroutines (ping loops, read loops, REST handlers, Event Hub readers)   *)
(* call StoreClient, RemoveConnection, UpdateClientInfo and the Send*      *)
(* wrappers of sendToUser at any moment.  A step of the model is a stretch *)
(* of code between two points where another goroutine can interfere: an    *)
(* acquisition of the mutex, a Redis call, a write to a socket.            *)
(*                                                                         *)
(* A list of connections is a set (no connection is stored twice, and the  *)
(* order of the list decides nothing but the order of the writes).  The    *)
(* Go map has an entry for the users in `keys'; an entry may hold an empty *)
(* list.  Of models.ClientInfo only EnableNotification is kept.            *)
(*                                                                         *)
(* sendToUser writes the map, and to the sockets, under the READ lock: two *)
(* senders, or a sender and a ping loop, race.  If the build resolves such *)
(* a race to anything but one access after the other, then the process     *)
(* dies (Crash), or a sender reads or leaves a torn list, or it panics and *)
(* gin recovers: these outcomes are possible when "race" is in Faults.     *)
(***************************************************************************)
EXTENDS RWMutex, Parties, FiniteSets

VARIABLES
    keys,       \* the users with an entry in the map clients
    clients,    \* the connections listed in that entry
    redis,      \* the record client:<id>: absent, or its flag
    alive,      \* the connections on which a write succeeds
    phase,      \* how far StoreClient has got for a connection
    gone,       \* (history) connections RemoveConnection took out
    pc,         \* where each goroutine is in client_store.go
    conn,       \* the argument conn of its call
    user,       \* the argument userID of its call
    flag,       \* its argument EnableNotification, or bypassNotificationCheck
    todo,       \* sendToUser: connections of conns not yet written to
    active      \* sendToUser: activeConns

mapVars  == <<keys, clients>>
connVars == <<alive, phase, gone>>
sendVars == <<user, todo, active>>
procVars == <<pc, conn, flag, sendVars>>
vars     == <<mutexVars, mapVars, redis, connVars, procVars>>

Phases == {"fresh", "storing", "listed", "stored", "failed"}
PCs    == {"idle", "storeLock", "storeSet", "removeLock", "removeDel",
           "sendInfo", "sendWrite"}

ConnsOf(u) == {c \in Conns : Owner[c] = u}

TypeOK ==
    /\ MutexTypeOK
    /\ keys \subseteq Users
    /\ clients \in [Users -> SUBSET Conns]
    /\ redis \in [Users -> Flags \union {"none"}]
    /\ alive \subseteq Conns
    /\ phase \in [Conns -> Phases]
    /\ gone \subseteq Conns
    /\ pc \in [Procs -> PCs]
    /\ conn \in [Procs -> Conns \union {NoConn}]
    /\ user \in [Procs -> Users \union {NoUser}]
    /\ flag \in [Procs -> Flags \union {"bypass", "check"}]
    /\ todo \in [Procs -> SUBSET Conns]
    /\ active \in [Procs -> SUBSET Conns]

(***************************************************************************)
(* The server starts with an empty map; Redis may still hold the records   *)
(* of an earlier process.                                                  *)
(***************************************************************************)
ProcInit ==
    /\ pc = [p \in Procs |-> "idle"]
    /\ conn = [p \in Procs |-> NoConn]
    /\ user = [p \in Procs |-> NoUser]
    /\ flag = [p \in Procs |-> "check"]
    /\ todo = [p \in Procs |-> {}]
    /\ active = [p \in Procs |-> {}]

Init ==
    /\ MutexInit
    /\ keys = {}
    /\ clients = [u \in Users |-> {}]
    /\ redis = [u \in Users |-> "none"]
    /\ alive = Conns
    /\ phase = [c \in Conns |-> "fresh"]
    /\ gone = {}
    /\ ProcInit

(***************************************************************************)
(* A goroutine moves on to l, or returns to its caller.                    *)
(***************************************************************************)
Goto(p, l) == pc' = [pc EXCEPT ![p] = l]

Return(p) ==
    /\ Goto(p, "idle")
    /\ conn' = [conn EXCEPT ![p] = NoConn]
    /\ flag' = [flag EXCEPT ![p] = "check"]
    /\ UNCHANGED sendVars

SendReturn(p) ==
    /\ Goto(p, "idle")
    /\ user' = [user EXCEPT ![p] = NoUser]
    /\ flag' = [flag EXCEPT ![p] = "check"]
    /\ todo' = [todo EXCEPT ![p] = {}]
    /\ active' = [active EXCEPT ![p] = {}]
    /\ UNCHANGED conn

(***************************************************************************)
(* A Redis write of v to the record of u.  A call that returns an error    *)
(* may or may not have taken effect.                                       *)
(***************************************************************************)
RedisWrite(u, v) == redis' = [redis EXCEPT ![u] = v]
RedisError(u, v) == "redis" \in Faults /\ (RedisWrite(u, v) \/ UNCHANGED redis)

-----------------------------------------------------------------------------
(***************************************************************************)
(* StoreClient(info, c).  The handler calls it once per connection.  The   *)
(* connection is appended under the lock; Redis is written after Unlock.   *)
(***************************************************************************)
StoreClient(p, c, f) ==
    /\ pc[p] = "idle"
    /\ phase[c] = "fresh"
    /\ LockRequest(p)
    /\ phase' = [phase EXCEPT ![c] = "storing"]
    /\ Goto(p, "storeLock")
    /\ conn' = [conn EXCEPT ![p] = c]
    /\ flag' = [flag EXCEPT ![p] = f]
    /\ UNCHANGED <<mapVars, redis, alive, gone, sendVars>>

\* (mutant) the new connection replaces the list
StoreAppendReplaces(p) ==
    LET c == conn[p]  u == Owner[c] IN
    /\ pc[p] = "storeLock"
    /\ LockGranted(p)
    /\ keys' = keys \union {u}
    /\ clients' = [clients EXCEPT ![u] = {c}]
    /\ phase' = [phase EXCEPT ![c] = "listed"]
    /\ Unlock(p)
    /\ Goto(p, "storeSet")
    /\ UNCHANGED <<redis, alive, gone, conn, flag, sendVars>>

StoreAppend(p) ==
    LET c == conn[p]  u == Owner[c] IN
    /\ pc[p] = "storeLock"
    /\ LockGranted(p)
    /\ keys' = keys \union {u}
    /\ clients' = [clients EXCEPT ![u] = @ \union {c}]
    /\ phase' = [phase EXCEPT ![c] = "listed"]
    /\ Unlock(p)
    /\ Goto(p, "storeSet")
    /\ UNCHANGED <<redis, alive, gone, conn, flag, sendVars>>

StoreSet(p) ==
    LET c == conn[p] IN
    /\ pc[p] = "storeSet"
    /\ \/ /\ RedisWrite(Owner[c], flag[p])
          /\ phase' = [phase EXCEPT ![c] = "stored"]
       \/ /\ RedisError(Owner[c], flag[p])
          /\ phase' = [phase EXCEPT ![c] = "failed"]
    /\ Return(p)
    /\ UNCHANGED <<mutexVars, mapVars, alive, gone>>

(***************************************************************************)
(* RemoveConnection(userId, c).  Its callers are the ping loop of c, once  *)
(* a write to c has failed, and the read loop of c, which starts after     *)
(* StoreClient has succeeded.  The mutex is held to the end.               *)
(***************************************************************************)
RemoveConnection(p, c) ==
    /\ pc[p] = "idle"
    /\ c \notin alive \/ phase[c] = "stored"
    /\ LockRequest(p)
    /\ Goto(p, "removeLock")
    /\ conn' = [conn EXCEPT ![p] = c]
    /\ UNCHANGED <<mapVars, redis, connVars, flag, sendVars>>

Listed(c) == phase[c] \in {"listed", "stored", "failed"}

\* (mutant) Unlock before the record is deleted
RemoveFilterUnlocks(p) ==
    LET c == conn[p]
        u == Owner[c]
        remaining == clients[u] \ {c}
    IN
    /\ pc[p] = "removeLock"
    /\ LockGranted(p)
    /\ Unlock(p)
    /\ clients' = [clients EXCEPT ![u] = remaining]
    /\ gone' = IF Listed(c) THEN gone \union {c} ELSE gone
    /\ IF remaining # {} \/ u \notin keys
         THEN Return(p) /\ UNCHANGED keys
         ELSE keys' = keys \ {u} /\ Goto(p, "removeDel") /\ UNCHANGED <<conn, flag, sendVars>>
    /\ UNCHANGED <<redis, alive, phase>>

\* (mutant) the last connection of a user is not taken out
RemoveFilterKeepsLast(p) ==
    LET c == conn[p]
        u == Owner[c]
        remaining == clients[u] \ {c}
    IN
    /\ pc[p] = "removeLock"
    /\ LockGranted(p)
    /\ Unlock(p)
    /\ clients' = IF remaining = {} THEN clients ELSE [clients EXCEPT ![u] = remaining]
    /\ gone' = IF Listed(c) THEN gone \union {c} ELSE gone
    /\ Return(p)
    /\ UNCHANGED <<keys, redis, alive, phase>>

RemoveFilter(p) ==
    LET c == conn[p]
        u == Owner[c]
        remaining == clients[u] \ {c}
        Filter == /\ clients' = [clients EXCEPT ![u] = remaining]
                  /\ gone' = IF Listed(c) THEN gone \union {c} ELSE gone
    IN
    /\ pc[p] = "removeLock"
    /\ LockGranted(p)
    /\ \/ /\ u \notin keys
          /\ gone' = IF Listed(c) THEN gone \union {c} ELSE gone
          /\ Unlock(p)
          /\ Return(p)
          /\ UNCHANGED mapVars
       \/ /\ u \in keys
          /\ remaining # {}
          /\ Filter
          /\ Unlock(p)
          /\ Return(p)
          /\ UNCHANGED keys
       \/ /\ u \in keys
          /\ remaining = {}
          /\ Filter
          /\ keys' = keys \ {u}
          /\ Goto(p, "removeDel")
          /\ UNCHANGED <<mutexVars, conn, flag, sendVars>>
    /\ UNCHANGED <<redis, alive, phase>>

\* (mutant) RemoveConnection returns without Unlock
RemoveDelKeepsLock(p) ==
    /\ pc[p] = "removeDel"
    /\ RedisWrite(Owner[conn[p]], "none") \/ RedisError(Owner[conn[p]], "none")
    /\ Return(p)
    /\ UNCHANGED <<mutexVars, mapVars, connVars>>

RemoveDel(p) ==
    /\ pc[p] = "removeDel"
    /\ RedisWrite(Owner[conn[p]], "none") \/ RedisError(Owner[conn[p]], "none")
    /\ Unlock(p)
    /\ Return(p)
    /\ UNCHANGED <<mapVars, connVars>>

(***************************************************************************)
(* UpdateClientInfo(info): one Redis write, without the mutex.             *)
(***************************************************************************)
UpdateClientInfo(u, f) ==
    /\ RedisWrite(u, f)
    /\ UNCHANGED <<mutexVars, mapVars, connVars, procVars>>

(***************************************************************************)
(* Up to three replicas of the server share one Redis, each with a map of  *)
(* its own.  Another replica writes the record of a user who connects to   *)
(* it or sets the flag there, and deletes it with the last connection the  *)
(* user has there, knowing nothing of the connections here.                *)
(***************************************************************************)
OtherReplica(u, v) ==
    /\ "replica" \in Faults
    /\ RedisWrite(u, v)
    /\ UNCHANGED <<mutexVars, mapVars, connVars, procVars>>

(***************************************************************************)
(* sendToUser(u, payload, bypass): look the user up and read his record    *)
(* (getConnAndInfo), write to one connection after the other, then store   *)
(* the connections that could be written to back into the map -- all of it *)
(* under the READ lock.  Taking the read lock and the look-up are one      *)
(* step: only another sender could come between them, and it might as well *)
(* have come before both.                                                  *)
(*                                                                         *)
(* Torn: a slice is three words, stored and loaded one by one, so that two *)
(* racing accesses can pair the array of one list with the length of the   *)
(* other.  (A length beyond the array is a wild pointer: Crash.)           *)
(***************************************************************************)
WritesBack(p) == pc[p] = "sendWrite" /\ todo[p] = {}

Torn(S, T) ==
    {R \in (SUBSET S) \union (SUBSET T) : Cardinality(R) \in {Cardinality(S), Cardinality(T)}}

ListsRead(u) ==
    {clients[u]} \union
    UNION {Torn(clients[u], active[q]) :
             q \in {r \in Procs : "race" \in Faults /\ WritesBack(r) /\ user[r] = u}}

\* (mutant) the list is read and used without the read lock
SendToUserUnlocked(p, u, f) ==
    /\ pc[p] = "idle"
    /\ u \in keys
    /\ Goto(p, "sendInfo")
    /\ flag' = [flag EXCEPT ![p] = f]
    /\ user' = [user EXCEPT ![p] = u]
    /\ todo' = [todo EXCEPT ![p] = clients[u]]
    /\ UNCHANGED <<mutexVars, mapVars, redis, connVars, conn, active>>

SendToUser(p, u, f) ==
    /\ pc[p] = "idle"
    /\ \/ u \notin keys /\ writer = NoProc
          /\ UNCHANGED <<mutexVars, pc, flag, user, todo>>
       \/ /\ u \in keys
          /\ RLock(p)
          /\ Goto(p, "sendInfo")
          /\ flag' = [flag EXCEPT ![p] = f]
          /\ user' = [user EXCEPT ![p] = u]
          /\ \E list \in ListsRead(u) : todo' = [todo EXCEPT ![p] = list]
    /\ UNCHANGED <<mapVars, redis, connVars, conn, active>>

Permitted(p) == flag[p] = "bypass" \/ redis[user[p]] = "on"

\* (mutant) the read lock is given back once the record has been read
SendInfoUnlocks(p) ==
    /\ pc[p] = "sendInfo"
    /\ RUnlock(p)
    /\ \/ redis[user[p]] = "none" /\ SendReturn(p)
       \/ /\ redis[user[p]] # "none"
          /\ Goto(p, "sendWrite")
          /\ UNCHANGED <<conn, flag, sendVars>>
    /\ UNCHANGED <<mapVars, redis, connVars>>

SendInfo(p) ==
    /\ pc[p] = "sendInfo"
    /\ \/ /\ \/ redis[user[p]] = "none"
             \/ ~Permitted(p)
             \/ "redis" \in Faults
          /\ RUnlock(p)
          /\ SendReturn(p)
       \/ /\ redis[user[p]] # "none"
          /\ Permitted(p)
          /\ Goto(p, "sendWrite")
          /\ UNCHANGED <<mutexVars, conn, flag, sendVars>>
    /\ UNCHANGED <<mapVars, redis, connVars>>

\* (mutant) a failed write ends the loop instead of going on
SendWriteStops(p) ==
    /\ pc[p] = "sendWrite"
    /\ \E c \in todo[p] :
          IF c \in alive
            THEN /\ todo' = [todo EXCEPT ![p] = @ \ {c}]
                 /\ active' = [active EXCEPT ![p] = @ \union {c}]
            ELSE todo' = [todo EXCEPT ![p] = {}] /\ UNCHANGED active
    /\ UNCHANGED <<mutexVars, mapVars, redis, connVars, pc, conn, flag, user>>

SendWrite(p) ==
    /\ pc[p] = "sendWrite"
    /\ \E c \in todo[p] :
          /\ todo' = [todo EXCEPT ![p] = @ \ {c}]
          /\ active' = [active EXCEPT ![p] = @ \union ({c} \intersect alive)]
    /\ UNCHANGED <<mutexVars, mapVars, redis, connVars, pc, conn, flag, user>>

\* (mutant) sendToUser returns without RUnlock
SendBackKeepsLock(p) ==
    /\ WritesBack(p)
    /\ keys' = keys \union {user[p]}
    /\ clients' = [clients EXCEPT ![user[p]] = active[p]]
    /\ SendReturn(p)
    /\ UNCHANGED <<mutexVars, redis, connVars>>

SendBack(p) ==
    /\ WritesBack(p)
    /\ keys' = keys \union {user[p]}
    /\ clients' = [clients EXCEPT ![user[p]] = active[p]]
    /\ RUnlock(p)
    /\ SendReturn(p)
    /\ UNCHANGED <<redis, connVars>>

\* two senders store their lists under the same key at the same time
SendBackTorn(p, q) ==
    /\ "race" \in Faults
    /\ p # q
    /\ WritesBack(p) /\ WritesBack(q)
    /\ user[p] = user[q]
    /\ keys' = keys \union {user[p]}
    /\ \E list \in Torn(active[p], active[q]) :
          clients' = [clients EXCEPT ![user[p]] = list]
    /\ readers' = readers \ {p, q}
    /\ pc' = [pc EXCEPT ![p] = "idle", ![q] = "idle"]
    /\ user' = [user EXCEPT ![p] = NoUser, ![q] = NoUser]
    /\ flag' = [flag EXCEPT ![p] = "check", ![q] = "check"]
    /\ active' = [active EXCEPT ![p] = {}, ![q] = {}]
    /\ UNCHANGED <<writer, redis, connVars, conn, todo>>

\* WriteMessage finds another write to the connection under way (in a race, or
\* stuck in a peer that stalls) and panics; the deferred RUnlock is run, and the
\* caller's goroutine recovers
SendPanics(p) ==
    /\ {"race", "stall"} \intersect Faults # {}
    /\ pc[p] = "sendWrite"
    /\ todo[p] \union active[p] # {}
    /\ RUnlock(p)
    /\ SendReturn(p)
    /\ UNCHANGED <<mapVars, redis, connVars>>

-----------------------------------------------------------------------------
(***************************************************************************)
(* The environment.  A connection breaks (the peer is gone, or a deadline  *)
(* or Close() has made every later write fail).  Its name is used again    *)
(* for a new connection once nothing refers to it.  The process dies and   *)
(* is started again: memory is lost, the connections are closed, and Redis *)
(* keeps its records.                                                      *)
(***************************************************************************)
Break(c) ==
    /\ c \in alive
    /\ alive' = alive \ {c}
    /\ UNCHANGED <<mutexVars, mapVars, redis, phase, gone, procVars>>

Unreferenced(c) ==
    /\ c \notin clients[Owner[c]]
    /\ \A p \in Procs : conn[p] # c /\ c \notin todo[p] \union active[p]

Renew(c) ==
    /\ phase[c] \in {"stored", "failed"}
    /\ c \notin alive
    /\ Unreferenced(c)
    /\ alive' = alive \union {c}
    /\ phase' = [phase EXCEPT ![c] = "fresh"]
    /\ gone' = gone \ {c}
    /\ UNCHANGED <<mutexVars, mapVars, redis, procVars>>

Crash ==
    /\ readers' = {} /\ writer' = NoProc
    /\ keys' = {}
    /\ clients' = [u \in Users |-> {}]
    /\ alive' = Conns
    /\ phase' = [c \in Conns |-> "fresh"]
    /\ gone' = {}
    /\ pc' = [p \in Procs |-> "idle"]
    /\ conn' = [p \in Procs |-> NoConn]
    /\ user' = [p \in Procs |-> NoUser]
    /\ flag' = [p \in Procs |-> "check"]
    /\ todo' = [p \in Procs |-> {}]
    /\ active' = [p \in Procs |-> {}]
    /\ UNCHANGED redis

Call(p) ==
    \/ \E c \in Conns, f \in Flags : StoreClient(p, c, f)
    \/ \E c \in Conns : RemoveConnection(p, c)
    \/ \E u \in Users, f \in {"bypass", "check"} : SendToUser(p, u, f)

Continue(p) ==
    \/ StoreAppend(p)
    \/ StoreSet(p)
    \/ RemoveFilter(p)
    \/ RemoveDel(p)
    \/ SendInfo(p)
    \/ SendWrite(p)
    \/ SendBack(p)

Next ==
    \/ \E p \in Procs : Call(p) \/ Continue(p)
    \/ \E p \in Procs : SendPanics(p) \/ \E q \in Procs : SendBackTorn(p, q)
    \/ \E u \in Users, f \in Flags : UpdateClientInfo(u, f)
    \/ \E u \in Users, v \in Flags \union {"none"} : OtherReplica(u, v)
    \/ \E c \in Conns : Break(c) \/ Renew(c)
    \/ Crash

Spec == Init /\ [][Next]_vars

-----------------------------------------------------------------------------
(***************************************************************************)
(* What the store promises.                                                *)
(*                                                                         *)
(* RegisteredHaveInfo: a connection whose StoreClient has succeeded and    *)
(* that is still in the list of its user finds a record of its user in     *)
(* Redis, so that a push to it is not refused as "not connected" -- though *)
(* the record is written after Unlock and deleted by whoever removes the   *)
(* user's last connection.  The code keeps this for one replica; of two,   *)
(* the one that loses the user's last local connection deletes the record  *)
(* of both (client_store.go:87-88: RemoveConnection "removes the user from *)
(* the in-memory map and from Redis" if "the last connection is removed"). *)
(***************************************************************************)
RegisteredHaveInfo ==
    \A c \in Conns :
        phase[c] = "stored" /\ c \in clients[Owner[c]]
            => redis[Owner[c]] # "none"

(***************************************************************************)
(* GoneStaysGone: no write-back of an old list by sendToUser, and no later *)
(* registration of another connection, brings a removed connection back.   *)
(***************************************************************************)
GoneStaysGone == \A c \in gone : \A u \in Users : c \notin clients[u]

(***************************************************************************)
(* LiveStayRegistered: a connection that works stays in the list of its    *)
(* user from StoreClient until RemoveConnection is called for it, whatever *)
(* the senders write back and whichever other connections come and go.     *)
(* This one, SendReachesAll and RefinesRegistry need races to be benign.   *)
(***************************************************************************)
LiveStayRegistered ==
    \A c \in alive : Listed(c) /\ c \notin gone => c \in clients[Owner[c]]

(***************************************************************************)
(* SendReachesAll (client_store.go:253: "sendToUser sends a payload to all *)
(* active websocket connections for a specified user"): when it is about   *)
(* to return nil, every connection of the user that works and is           *)
(* registered then has got the message: nobody registered behind the back  *)
(* of the loop over the list.                                              *)
(***************************************************************************)
SendReachesAll ==
    \A p \in Procs : WritesBack(p) =>
        clients[user[p]] \intersect alive \subseteq active[p]

(***************************************************************************)
(* CallsReturn: every call of the store returns, and so gives the mutex    *)
(* back, on every path through it.                                         *)
(***************************************************************************)
CallsReturn == \A p \in Procs : pc[p] # "idle" ~> pc[p] = "idle"

(***************************************************************************)
(* Seen from its callers the store is a register of reachable connections. *)
(***************************************************************************)
Reachable == {c \in alive : c \in clients[Owner[c]]}

Registry == INSTANCE ConnRegistry WITH reachable <- Reachable
RefinesRegistry == Registry!Spec

(***************************************************************************)
(* DroppedStaysDropped (client_store.go:257, of sendToUser: "Connections   *)
(* that fail to receive the message are removed from the active list"): a  *)
(* connection that was listed and is no longer is not listed again.  The   *)
(* code does not keep it: the write-back is done under the READ lock, so a *)
(* second sender with an older list puts the connection back.              *)
(***************************************************************************)
DroppedStaysDropped ==
    [][\A c \in Conns :
         Listed(c) /\ c \notin clients[Owner[c]] => c \notin clients'[Owner[c]]]_vars

-----------------------------------------------------------------------------
(***************************************************************************)
(* The inductive invariant behind these properties.                        *)
(*                                                                         *)
(* LockInv: who holds which side of the mutex, and that the deletion of    *)
(* the record happens with the mutex held and the entry already gone.      *)
(***************************************************************************)
Writing(p) == pc[p] \in {"storeLock", "removeLock", "removeDel"}
Sending(p) == pc[p] \in {"sendInfo", "sendWrite"}

LockInv ==
    \A p \in Procs :
        /\ Writing(p) <=> writer = p
        /\ Sending(p) <=> p \in readers
        /\ pc[p] = "removeDel" => readers = {} /\ Owner[conn[p]] \notin keys

(***************************************************************************)
(* CallInv: the arguments of the calls that are under way.                 *)
(***************************************************************************)
CallInv ==
    \A p \in Procs :
        /\ pc[p] \in {"storeLock", "storeSet", "removeLock", "removeDel"} => conn[p] \in Conns
        /\ pc[p] \in {"storeLock", "storeSet"} => flag[p] \in Flags
        /\ pc[p] = "storeLock" => phase[conn[p]] = "storing"
        /\ pc[p] = "storeSet" => Listed(conn[p])
        /\ Sending(p) => user[p] \in Users
        /\ pc[p] # "sendWrite" => active[p] = {}
        /\ ~Sending(p) => todo[p] = {}

(***************************************************************************)
(* ListInv: what is in the lists.                                          *)
(***************************************************************************)
ListInv ==
    /\ \A u \in Users : \A c \in clients[u] : Owner[c] = u /\ Listed(c) /\ u \in keys
    /\ \A c \in gone : Listed(c)

(***************************************************************************)
(* SendInv: what a sender's old list may hold, and must hold still.        *)
(***************************************************************************)
RacesAreBenign == "race" \notin Faults
OneReplica     == "replica" \notin Faults

SendInv ==
    \A p \in Procs : Sending(p) =>
        /\ \A c \in todo[p] \union active[p] : Owner[c] = user[p] /\ Listed(c) /\ c \notin gone
        /\ RacesAreBenign => clients[user[p]] \intersect alive \subseteq todo[p] \union active[p]
        /\ OneReplica /\ pc[p] = "sendWrite" => redis[user[p]] # "none"

IInv ==
    /\ TypeOK
    /\ LockInv
    /\ CallInv
    /\ ListInv
    /\ SendInv
    /\ OneReplica => RegisteredHaveInfo
    /\ GoneStaysGone
    /\ RacesAreBenign => LiveStayRegistered
=============================================================================
