-------------------------- MODULE ServerInvariants --------------------------
(***************************************************************************)
(* Safety properties of the whole server beyond those of WebSocketHandler, *)
(* and the invariants from which they, OrphanFree and FlagsAgree follow.   *)
(***************************************************************************)
EXTENDS WebSocketHandler

(***************************************************************************)
(* LifeInv: the life of a connection, under every fault.  It is pinged for *)
(* as long as it works; only its own handler, while it waits for           *)
(* StoreClient, registers it; and it is removed only once a write to it    *)
(* has failed, or by its read loop at the end.                             *)
(***************************************************************************)
LifeInv ==
    /\ \A c \in Conns :
         /\ stage[c] = "dial" => c \in alive
         /\ stage[c] = "closed" => c \notin alive
         /\ c \in alive /\ stage[c] # "dial" => pinging[c]
         /\ phase[c] \in {"storing", "listed"} => stage[c] = "stored"
    /\ \A p \in Procs :
         pc[p] \in {"removeLock", "removeDel"} =>
             conn[p] \notin alive \/ stage[conn[p]] = "close"

(***************************************************************************)
(* NobodyIsStuck: calls of the store never all wait for one another.  As   *)
(* long as a goroutine is inside the store, or the mutex is taken or       *)
(* claimed, the next step of one of them can be taken: it waits neither    *)
(* for the mutex nor for a peer that has stopped reading -- or the ping    *)
(* loop of that peer's connection is about to end the process.             *)
(***************************************************************************)
CanMove(p) ==
    \/ pc[p] \in {"storeSet", "removeDel", "sendInfo"}
    \/ pc[p] \in {"storeLock", "removeLock"} /\ LockGranted(p)
    \/ WritesBack(p)
    \/ pc[p] = "sendWrite" /\ \E c \in todo[p] : ~Blocked(p, c)

PingWillPanic(c) == pinging[c] /\ \E p \in Procs : Blocked(p, c)

NobodyIsStuck ==
    (readers # {} \/ writer # NoProc \/ \E p \in Procs : pc[p] # "idle")
        => \/ \E p \in Procs : CanMove(p)
           \/ \E c \in Conns : PingWillPanic(c)

(***************************************************************************)
(* DeadHaveRemover: a connection that is broken and listed always has a    *)
(* goroutine that is going to take it out: its ping loop, its handler or   *)
(* read loop, or a call of RemoveConnection that waits for the mutex.      *)
(* This is what DeadAreRemoved needs besides fair scheduling.              *)
(***************************************************************************)
HasRemover(c) ==
    \/ pinging[c]
    \/ stage[c] \in {"stored", "greet", "read", "update"}
    \/ \E p \in Procs : pc[p] = "removeLock" /\ conn[p] = c

DeadHaveRemover == \A c \in Conns : c \in clients[Owner[c]] \ alive => HasRemover(c)

\* a failed StoreClient, and a handler that panics, leave the connection listed
NoneLeft == {"redis", "race", "stall"} \intersect Faults = {}

NoneLeftInv == \A c \in Conns : phase[c] # "failed" /\ stage[c] # "abandoned"

-----------------------------------------------------------------------------
(***************************************************************************)
(* OnlyOwn: whatever is in flight while lists are read, pushed and torn,   *)
(* and whatever fails, a client has got only notifications of its own user *)
(* that have been stored.                                                  *)
(***************************************************************************)
Born       == {n \in Notes : status[n] # "unborn"}
OwnNotes(u) == {n \in Born : Doc[n].userId = u}

OnlyOwn == \A c \in Conns : view[c] \union received[c] \subseteq OwnNotes(Owner[c])

(***************************************************************************)
(* OwnInv: why.  A message is for one user from the moment it is prepared, *)
(* and sendToUser writes it to connections of that user (SendInv).         *)
(***************************************************************************)
MessageOwn(p) ==
    /\ p \in Creators => Carried(payload[p]) \subseteq Born
    /\ \A c \in Conns : p = Serve(c) => Carried(payload[p]) \subseteq OwnNotes(Owner[c])
    /\ Sending(p) => Carried(payload[p]) \subseteq OwnNotes(user[p])

OwnInv == OnlyOwn /\ \A p \in Procs : MessageOwn(p)

-----------------------------------------------------------------------------
(***************************************************************************)
(* RecordInv: why no record is left behind (OrphanFree).  Without breaks a *)
(* connection works until it has been removed; so whenever Redis has a     *)
(* record of a user he has a connection in the map, which will be removed, *)
(* or the one who removed the last is about to delete the record.  (No     *)
(* client stalls, so no ping ends the process, which would leave records.) *)
(***************************************************************************)
OrphanFaults == Faults \subseteq {"mongo", "redial"}

RecordInv ==
    /\ stalled = {}
    /\ \A c \in Conns : c \in alive \/ stage[c] = "closed"
    /\ \A c \in Conns : phase[c] # "failed"
    /\ \A c \in gone : stage[c] \in {"close", "closed"}
    /\ \A u \in Users :
         redis[u] # "none" =>
             \/ clients[u] # {}
             \/ \E p \in Procs : pc[p] = "removeDel" /\ Owner[conn[p]] = u

(***************************************************************************)
(* FlagInv: why MongoDB and Redis agree on the flag of a user with one     *)
(* connection (FlagsAgree).  The flag that its handler carries is the one  *)
(* in MongoDB from the moment it has been read, created or set; it is what *)
(* StoreClient and UpdateClientInfo write; and no removal of an earlier    *)
(* connection is still to delete the record.                               *)
(***************************************************************************)
FlagFaults == {"redis", "mongo", "replica"} \intersect Faults = {}

FlagKept(c) ==
    /\ stage[c] = "create" => config[Owner[c]] = "none" /\ info[c] = "on"
    /\ stage[c] \in {"store", "stored", "greet", "read", "update"}
         => config[Owner[c]] = info[c]
    /\ pc[Serve(c)] \in {"storeLock", "storeSet"} => flag[Serve(c)] = info[c]
    /\ phase[c] = "stored" /\ stage[c] \in {"stored", "greet", "read"} /\ c \in alive
         => redis[Owner[c]] = config[Owner[c]]

FlagInv == \A c \in Conns : Alone(c) => FlagKept(c)
=============================================================================
