-------------------------- MODULE ClientStoreProofs --------------------------
(***************************************************************************)
(* Proofs about ClientStore, for any users, connections and goroutines and *)
(* any subset of the faults.  The inductive invariant is IInv; each of its *)
(* parts is shown to survive each action by one lemma per action           *)
(* (<Action>Step).  The safety properties are conjuncts or consequences of *)
(* IInv, and the implementation of ConnRegistry is shown step by step from *)
(* it.  RacesAreBenign is assumed where it is needed and nowhere else.     *)
(***************************************************************************)
EXTENDS ClientStore, TLAPS

-----------------------------------------------------------------------------
(***************************************************************************)
(* A step that changes nothing.                                            *)
(***************************************************************************)
LEMMA StutterIInv ==
    ASSUME IInv, UNCHANGED vars
    PROVE  IInv'
<1> USE DEF vars, mutexVars, mapVars, connVars, procVars, sendVars
<1>1. TypeOK' /\ LockInv' /\ CallInv'
  BY DEF IInv, TypeOK, MutexTypeOK, LockInv, CallInv, Writing, Sending, Listed
<1>2. ListInv' /\ SendInv'
  BY DEF IInv, ListInv, SendInv, Sending, Listed
<1>3. (OneReplica => RegisteredHaveInfo)' /\ GoneStaysGone' /\ (RacesAreBenign => LiveStayRegistered)'
  BY DEF IInv, RegisteredHaveInfo, GoneStaysGone, LiveStayRegistered, Listed
<1> QED BY <1>1, <1>2, <1>3 DEF IInv

(***************************************************************************)
(* StoreClient only announces itself to the mutex and marks the            *)
(* connection.                                                             *)
(***************************************************************************)
LEMMA StoreClientStep ==
    ASSUME NEW p \in Procs, NEW c \in Conns, NEW f \in Flags,
           IInv, StoreClient(p, c, f)
    PROVE  IInv'
<1> USE NoProcAssumption DEF IInv, StoreClient, LockRequest, Goto, mapVars,
        sendVars
<1>1. TypeOK'
  BY DEF TypeOK, MutexTypeOK, Phases, PCs
<1>2. LockInv'
  BY DEF TypeOK, LockInv, Writing, Sending
<1>3. CallInv'
  BY DEF TypeOK, CallInv, Sending, Listed
<1>4. ListInv'
  BY DEF ListInv, Listed
<1>5. SendInv'
  BY DEF SendInv, Sending, Listed
<1>6. (OneReplica => RegisteredHaveInfo)'
  BY DEF RegisteredHaveInfo
<1>7. GoneStaysGone'
  BY DEF GoneStaysGone
<1>8. (RacesAreBenign => LiveStayRegistered)'
  BY DEF LiveStayRegistered, Listed
<1> QED BY <1>1, <1>2, <1>3, <1>4, <1>5, <1>6, <1>7, <1>8

(***************************************************************************)
(* The connection enters the list while no reader and no other writer is   *)
(* inside.                                                                 *)
(***************************************************************************)
LEMMA StoreAppendStep ==
    ASSUME NEW p \in Procs, IInv, StoreAppend(p)
    PROVE  IInv'
<1> USE OwnerAssumption, NoProcAssumption DEF IInv, StoreAppend, LockGranted,
        Unlock, Goto, sendVars
<1>1. TypeOK'
  <2>1. conn[p] \in Conns /\ Owner[conn[p]] \in Users
    BY DEF CallInv
  <2>2. MutexTypeOK' /\ keys' \subseteq Users
    BY <2>1 DEF TypeOK, MutexTypeOK
  <2>3. clients' \in [Users -> SUBSET Conns]
    BY <2>1 DEF TypeOK
  <2>4. phase' \in [Conns -> Phases] /\ pc' \in [Procs -> PCs]
    BY <2>1 DEF TypeOK, Phases, PCs
  <2> QED BY <2>2, <2>3, <2>4 DEF TypeOK
<1>2. LockInv'
  BY DEF TypeOK, LockInv, Writing, Sending
<1>3. CallInv'
  BY DEF TypeOK, LockInv, Writing, Sending, CallInv, Listed
<1>4. ListInv'
  BY DEF TypeOK, CallInv, Listed, ListInv
<1>5. SendInv'
  BY DEF LockInv, Sending, SendInv
<1>6. (OneReplica => RegisteredHaveInfo)'
  BY DEF TypeOK, RegisteredHaveInfo
<1>7. GoneStaysGone'
  BY DEF LockInv, CallInv, Listed, ListInv, GoneStaysGone
<1>8. (RacesAreBenign => LiveStayRegistered)'
  BY DEF TypeOK, LiveStayRegistered, Listed
<1> QED BY <1>1, <1>2, <1>3, <1>4, <1>5, <1>6, <1>7, <1>8

(***************************************************************************)
(* StoreClient returns: only the phase of its connection and the record    *)
(* change.                                                                 *)
(***************************************************************************)
LEMMA StoreSetStep ==
    ASSUME NEW p \in Procs, IInv, StoreSet(p)
    PROVE  IInv'
<1> USE OwnerAssumption DEF IInv, StoreSet, RedisWrite, RedisError, Return,
        Goto, mutexVars, mapVars, sendVars
<1>1. TypeOK'
  BY DEF TypeOK, MutexTypeOK, Phases, PCs, LockInv, CallInv
<1>2. LockInv'
  BY DEF LockInv, Writing, Sending
<1>3. CallInv'
  BY DEF TypeOK, CallInv, Sending, Listed
<1>4. ListInv'
  <2>1. ASSUME NEW c \in Conns, Listed(c) PROVE Listed(c)'
    BY <2>1 DEF TypeOK, Listed
  <2>2. clients \in [Users -> SUBSET Conns] /\ gone \subseteq Conns
    BY DEF TypeOK
  <2> QED BY <2>1, <2>2 DEF ListInv
<1>5. SendInv'
  BY DEF TypeOK, Flags, CallInv, Sending, Listed, SendInv
<1>6. (OneReplica => RegisteredHaveInfo)'
  BY DEF TypeOK, Flags, RegisteredHaveInfo
<1>7. GoneStaysGone'
  BY DEF GoneStaysGone
<1>8. (RacesAreBenign => LiveStayRegistered)'
  BY DEF TypeOK, CallInv, Listed, LiveStayRegistered
<1> QED BY <1>1, <1>2, <1>3, <1>4, <1>5, <1>6, <1>7, <1>8

(***************************************************************************)
(* RemoveConnection announces itself to the mutex.                         *)
(***************************************************************************)
LEMMA RemoveConnectionStep ==
    ASSUME NEW p \in Procs, NEW c \in Conns, IInv, RemoveConnection(p, c)
    PROVE  IInv'
<1> USE NoProcAssumption DEF IInv, RemoveConnection, LockRequest, Goto,
        mapVars, connVars, sendVars
<1>1. TypeOK'
  BY DEF TypeOK, MutexTypeOK, PCs
<1>2. LockInv'
  BY DEF TypeOK, LockInv, Writing, Sending
<1>3. CallInv'
  BY DEF TypeOK, CallInv, Sending, Listed
<1>4. ListInv'
  BY DEF ListInv, Listed
<1>5. SendInv'
  BY DEF SendInv, Sending, Listed
<1>6. (OneReplica => RegisteredHaveInfo)'
  BY DEF RegisteredHaveInfo
<1>7. GoneStaysGone'
  BY DEF GoneStaysGone
<1>8. (RacesAreBenign => LiveStayRegistered)'
  BY DEF LiveStayRegistered, Listed
<1> QED BY <1>1, <1>2, <1>3, <1>4, <1>5, <1>6, <1>7, <1>8

(***************************************************************************)
(* The connection leaves the list; nobody holds an older list then.        *)
(***************************************************************************)
LEMMA RemoveFilterStep ==
    ASSUME NEW p \in Procs, IInv, RemoveFilter(p)
    PROVE  IInv'
<1> USE OwnerAssumption, NoProcAssumption DEF IInv, RemoveFilter, LockGranted,
        Unlock, Return, Goto, mutexVars, mapVars, sendVars
<1>1. TypeOK'
  BY DEF TypeOK, MutexTypeOK, PCs, CallInv
<1>2. LockInv'
  BY DEF TypeOK, LockInv, Writing, Sending
<1>3. CallInv'
  BY DEF TypeOK, CallInv, Sending, Listed
<1>4. ListInv'
  BY DEF TypeOK, ListInv, Listed
<1>5. SendInv'
  BY DEF TypeOK, LockInv, Sending, SendInv
<1>6. (OneReplica => RegisteredHaveInfo)'
  BY DEF TypeOK, RegisteredHaveInfo
<1>7. GoneStaysGone'
  BY DEF TypeOK, CallInv, ListInv, GoneStaysGone
<1>8. (RacesAreBenign => LiveStayRegistered)'
  BY DEF TypeOK, LiveStayRegistered, Listed
<1> QED BY <1>1, <1>2, <1>3, <1>4, <1>5, <1>6, <1>7, <1>8

(***************************************************************************)
(* The record is deleted while the entry is absent and the mutex is held.  *)
(***************************************************************************)
LEMMA RemoveDelStep ==
    ASSUME NEW p \in Procs, IInv, RemoveDel(p)
    PROVE  IInv'
<1> USE OwnerAssumption, NoProcAssumption DEF IInv, RemoveDel, RedisWrite,
        RedisError, Unlock, Return, Goto, mapVars, connVars, sendVars
<1>1. TypeOK'
  BY DEF TypeOK, MutexTypeOK, PCs
<1>2. LockInv'
  BY DEF TypeOK, LockInv, Writing, Sending
<1>3. CallInv'
  BY DEF TypeOK, CallInv, Sending, Listed
<1>4. ListInv'
  BY DEF ListInv, Listed
<1>5. SendInv'
  BY DEF LockInv, Sending, SendInv
<1>6. (OneReplica => RegisteredHaveInfo)'
  BY DEF TypeOK, LockInv, CallInv, ListInv, RegisteredHaveInfo
<1>7. GoneStaysGone'
  BY DEF GoneStaysGone
<1>8. (RacesAreBenign => LiveStayRegistered)'
  BY DEF LiveStayRegistered, Listed
<1> QED BY <1>1, <1>2, <1>3, <1>4, <1>5, <1>6, <1>7, <1>8

(***************************************************************************)
(* UpdateClientInfo may create a record, never delete one.                 *)
(***************************************************************************)
LEMMA UpdateClientInfoStep ==
    ASSUME NEW u \in Users, NEW f \in Flags, IInv, UpdateClientInfo(u, f)
    PROVE  IInv'
<1> USE DEF IInv, UpdateClientInfo, RedisWrite, mutexVars, mapVars, connVars,
        procVars, sendVars
<1>1. TypeOK'
  BY DEF TypeOK, MutexTypeOK
<1>2. LockInv'
  BY DEF LockInv, Writing, Sending
<1>3. CallInv'
  BY DEF CallInv, Sending, Listed
<1>4. ListInv'
  BY DEF ListInv, Listed
<1>5. SendInv'
  BY DEF Flags, SendInv, Sending, Listed
<1>6. (OneReplica => RegisteredHaveInfo)'
  BY DEF Flags, RegisteredHaveInfo
<1>7. GoneStaysGone'
  BY DEF GoneStaysGone
<1>8. (RacesAreBenign => LiveStayRegistered)'
  BY DEF LiveStayRegistered, Listed
<1> QED BY <1>1, <1>2, <1>3, <1>4, <1>5, <1>6, <1>7, <1>8

(***************************************************************************)
(* Another replica touches the record only.                                *)
(***************************************************************************)
LEMMA OtherReplicaStep ==
    ASSUME NEW u \in Users, NEW v \in Flags \union {"none"}, IInv, OtherReplica(u, v)
    PROVE  IInv'
<1> USE DEF IInv, OtherReplica, RedisWrite, mutexVars, mapVars, connVars,
        procVars, sendVars
<1>1. TypeOK'
  BY DEF TypeOK, MutexTypeOK
<1>2. LockInv'
  BY DEF LockInv, Writing, Sending
<1>3. CallInv'
  BY DEF CallInv, Sending, Listed
<1>4. ListInv'
  BY DEF ListInv, Listed
<1>5. ~OneReplica
  BY DEF OneReplica
<1>6. SendInv'
  BY <1>5 DEF SendInv, Sending, Listed
<1>7. GoneStaysGone'
  BY DEF GoneStaysGone
<1>8. (RacesAreBenign => LiveStayRegistered)'
  BY DEF LiveStayRegistered, Listed
<1> QED BY <1>1, <1>2, <1>3, <1>4, <1>5, <1>6, <1>7, <1>8

(***************************************************************************)
(* A torn list holds nothing that neither list held; if races are benign,  *)
(* the list read is the one in the map.                                    *)
(***************************************************************************)
LEMMA TornIsPart ==
    ASSUME NEW S, NEW T, NEW R \in Torn(S, T)
    PROVE  R \subseteq S \/ R \subseteq T
BY DEF Torn

LEMMA ListsReadArePart ==
    ASSUME NEW u \in Users, NEW R \in ListsRead(u)
    PROVE  \/ R \subseteq clients[u]
           \/ \E q \in Procs : WritesBack(q) /\ user[q] = u /\ R \subseteq active[q]
BY TornIsPart DEF ListsRead

LEMMA ListReadIsList ==
    ASSUME RacesAreBenign, NEW u \in Users, NEW R \in ListsRead(u)
    PROVE  R = clients[u]
BY DEF ListsRead, RacesAreBenign

(***************************************************************************)
(* The list is read under the read lock: nothing in it is gone.            *)
(***************************************************************************)
LEMMA SendToUserStep ==
    ASSUME NEW p \in Procs, NEW u \in Users, NEW f \in {"bypass", "check"},
           IInv, SendToUser(p, u, f)
    PROVE  IInv'
<1> USE NoProcAssumption DEF IInv, RLock, Goto, mutexVars, mapVars, connVars
<1>1. CASE u \notin keys
  <2>1. UNCHANGED vars
    BY <1>1 DEF SendToUser, vars, procVars, sendVars
  <2> QED BY <2>1, StutterIInv
<1>2. CASE u \in keys
  <2> USE <1>2
  <2>1. PICK list \in ListsRead(u) : todo' = [todo EXCEPT ![p] = list]
    BY DEF SendToUser
  <2>2. \A c \in list : Owner[c] = u /\ Listed(c) /\ c \notin gone /\ c \in Conns
    BY ListsReadArePart DEF TypeOK, ListInv, SendInv, WritesBack, Sending, GoneStaysGone
  <2>3. RacesAreBenign => list = clients[u]
    BY ListReadIsList
  <2> USE <2>1 DEF SendToUser
  <2>4. TypeOK'
    BY <2>2 DEF TypeOK, MutexTypeOK, PCs
  <2>5. LockInv'
    BY DEF TypeOK, LockInv, Writing, Sending
  <2>6. CallInv'
    BY DEF TypeOK, CallInv, Sending, Listed
  <2>7. ListInv'
    BY DEF ListInv, Listed
  <2>8. SendInv'
    BY <2>2, <2>3 DEF TypeOK, LockInv, Sending, CallInv, Listed, SendInv
  <2>9. (OneReplica => RegisteredHaveInfo)' /\ GoneStaysGone' /\ (RacesAreBenign => LiveStayRegistered)'
    BY DEF RegisteredHaveInfo, GoneStaysGone, LiveStayRegistered, Listed
  <2> QED BY <2>4, <2>5, <2>6, <2>7, <2>8, <2>9
<1> QED BY <1>1, <1>2

(***************************************************************************)
(* The record is read.                                                     *)
(***************************************************************************)
LEMMA SendInfoStep ==
    ASSUME NEW p \in Procs, IInv, SendInfo(p)
    PROVE  IInv'
<1> USE DEF IInv, SendInfo, RUnlock, SendReturn, Goto, mutexVars, mapVars,
        connVars, sendVars
<1>1. TypeOK'
  BY DEF TypeOK, MutexTypeOK, PCs
<1>2. LockInv'
  BY DEF TypeOK, LockInv, Writing, Sending
<1>3. CallInv'
  BY DEF TypeOK, CallInv, Sending, Listed
<1>4. ListInv'
  BY DEF ListInv, Listed
<1>5. SendInv'
  BY DEF TypeOK, SendInv, Sending, Listed
<1>6. (OneReplica => RegisteredHaveInfo)'
  BY DEF RegisteredHaveInfo
<1>7. GoneStaysGone'
  BY DEF GoneStaysGone
<1>8. (RacesAreBenign => LiveStayRegistered)'
  BY DEF LiveStayRegistered, Listed
<1> QED BY <1>1, <1>2, <1>3, <1>4, <1>5, <1>6, <1>7, <1>8

(***************************************************************************)
(* A connection passes from conns to activeConns, or is dropped if it is   *)
(* broken.                                                                 *)
(***************************************************************************)
LEMMA SendWriteStep ==
    ASSUME NEW p \in Procs, IInv, SendWrite(p)
    PROVE  IInv'
<1> USE DEF IInv, SendWrite, mutexVars, mapVars, connVars
<1>1. TypeOK'
  BY DEF TypeOK, MutexTypeOK
<1>2. LockInv'
  BY DEF LockInv, Writing, Sending
<1>3. CallInv'
  BY DEF CallInv, Sending, Listed
<1>4. ListInv'
  BY DEF ListInv, Listed
<1>5. SendInv'
  BY DEF TypeOK, SendInv, Sending, Listed
<1>6. (OneReplica => RegisteredHaveInfo)'
  BY DEF RegisteredHaveInfo
<1>7. GoneStaysGone'
  BY DEF GoneStaysGone
<1>8. (RacesAreBenign => LiveStayRegistered)'
  BY DEF LiveStayRegistered, Listed
<1> QED BY <1>1, <1>2, <1>3, <1>4, <1>5, <1>6, <1>7, <1>8

(***************************************************************************)
(* The write-back restores no removed connection (SendInv) and loses no    *)
(* working one, and the record cannot have been deleted since SendInfo.    *)
(***************************************************************************)
LEMMA SendBackStep ==
    ASSUME NEW p \in Procs, IInv, SendBack(p)
    PROVE  IInv'
<1> USE DEF IInv, SendBack, WritesBack, RUnlock, SendReturn, Goto, connVars
<1>1. TypeOK'
  BY DEF TypeOK, MutexTypeOK, PCs, CallInv, Sending
<1>2. LockInv'
  BY DEF TypeOK, LockInv, Writing, Sending
<1>3. CallInv'
  BY DEF TypeOK, CallInv, Sending, Listed
<1>4. ListInv'
  BY DEF LockInv, Sending, CallInv, Listed, ListInv, SendInv
<1>5. SendInv'
  BY DEF TypeOK, LockInv, Sending, CallInv, Listed, ListInv, SendInv,
     LiveStayRegistered
<1>6. (OneReplica => RegisteredHaveInfo)'
  BY DEF LockInv, Sending, CallInv, ListInv, SendInv, RegisteredHaveInfo
<1>7. GoneStaysGone'
  BY DEF LockInv, Sending, CallInv, SendInv, GoneStaysGone
<1>8. (RacesAreBenign => LiveStayRegistered)'
  BY DEF LockInv, Sending, CallInv, Listed, ListInv, SendInv, LiveStayRegistered
<1> QED BY <1>1, <1>2, <1>3, <1>4, <1>5, <1>6, <1>7, <1>8

(***************************************************************************)
(* A panic gives the read lock back and changes nothing else.              *)
(***************************************************************************)
LEMMA SendPanicsStep ==
    ASSUME NEW p \in Procs, IInv, SendPanics(p)
    PROVE  IInv'
<1> USE DEF IInv, SendPanics, RUnlock, SendReturn, Goto, mutexVars, mapVars,
        connVars
<1>1. TypeOK'
  BY DEF TypeOK, MutexTypeOK, PCs
<1>2. LockInv'
  BY DEF TypeOK, LockInv, Writing, Sending
<1>3. CallInv'
  BY DEF TypeOK, CallInv, Sending, Listed
<1>4. ListInv'
  BY DEF ListInv, Listed
<1>5. SendInv'
  BY DEF TypeOK, SendInv, Sending, Listed
<1>6. (OneReplica => RegisteredHaveInfo)'
  BY DEF RegisteredHaveInfo
<1>7. GoneStaysGone'
  BY DEF GoneStaysGone
<1>8. (RacesAreBenign => LiveStayRegistered)'
  BY DEF LiveStayRegistered, Listed
<1> QED BY <1>1, <1>2, <1>3, <1>4, <1>5, <1>6, <1>7, <1>8

(***************************************************************************)
(* The torn list is part of one of two lists, and each of them may be      *)
(* written back.                                                           *)
(***************************************************************************)
LEMMA SendBackTornStep ==
    ASSUME NEW p \in Procs, NEW q \in Procs, IInv, SendBackTorn(p, q)
    PROVE  IInv'
<1> USE DEF IInv, SendBackTorn, WritesBack, connVars
<1>1. PICK list \in Torn(active[p], active[q]) : clients' = [clients EXCEPT ![user[p]] = list]
  OBVIOUS
<1>2. user[p] \in Users /\ Sending(p) /\ Sending(q) /\ p \in readers /\ q \in readers
  BY DEF CallInv, LockInv, Sending
<1>3. \A c \in list : Owner[c] = user[p] /\ Listed(c) /\ c \notin gone /\ c \in Conns
  BY <1>1, <1>2, TornIsPart DEF TypeOK, SendInv
<1>4. ~RacesAreBenign
  BY DEF RacesAreBenign
<1>5. TypeOK'
  BY <1>1, <1>2, <1>3 DEF TypeOK, MutexTypeOK, PCs
<1>6. LockInv'
  BY <1>2 DEF TypeOK, LockInv, Writing, Sending
<1>7. CallInv'
  BY DEF TypeOK, CallInv, Sending, Listed
<1>8. ListInv'
  BY <1>1, <1>2, <1>3 DEF TypeOK, ListInv, Listed
<1>9. SendInv'
  BY <1>4 DEF TypeOK, SendInv, Sending, Listed
<1>10. (OneReplica => RegisteredHaveInfo)'
  BY <1>1, <1>2, <1>3 DEF TypeOK, SendInv, RegisteredHaveInfo
<1>11. GoneStaysGone'
  BY <1>1, <1>2, <1>3 DEF TypeOK, GoneStaysGone
<1>12. (RacesAreBenign => LiveStayRegistered)'
  BY <1>4
<1> QED BY <1>5, <1>6, <1>7, <1>8, <1>9, <1>10, <1>11, <1>12

(***************************************************************************)
(* A connection breaks.                                                    *)
(***************************************************************************)
LEMMA BreakStep ==
    ASSUME NEW c \in Conns, IInv, Break(c)
    PROVE  IInv'
<1> USE DEF IInv, Break, mutexVars, mapVars, procVars, sendVars
<1>1. TypeOK'
  BY DEF TypeOK, MutexTypeOK
<1>2. LockInv'
  BY DEF LockInv, Writing, Sending
<1>3. CallInv'
  BY DEF CallInv, Sending, Listed
<1>4. ListInv'
  BY DEF ListInv, Listed
<1>5. SendInv'
  BY DEF SendInv, Sending, Listed
<1>6. (OneReplica => RegisteredHaveInfo)'
  BY DEF RegisteredHaveInfo
<1>7. GoneStaysGone'
  BY DEF GoneStaysGone
<1>8. (RacesAreBenign => LiveStayRegistered)'
  BY DEF LiveStayRegistered, Listed
<1> QED BY <1>1, <1>2, <1>3, <1>4, <1>5, <1>6, <1>7, <1>8

(***************************************************************************)
(* A name is used again that nothing refers to.                            *)
(***************************************************************************)
LEMMA RenewStep ==
    ASSUME NEW c \in Conns, IInv, Renew(c)
    PROVE  IInv'
<1> USE DEF IInv, Renew, Unreferenced, mutexVars, mapVars, procVars, sendVars
<1>1. TypeOK'
  BY DEF TypeOK, MutexTypeOK, Phases
<1>2. LockInv'
  BY DEF LockInv, Writing, Sending
<1>3. CallInv'
  BY DEF CallInv, Sending, Listed
<1>4. ListInv'
  BY DEF ListInv, Listed
<1>5. SendInv'
  BY DEF LockInv, Sending, CallInv, Listed, ListInv, SendInv
<1>6. (OneReplica => RegisteredHaveInfo)'
  BY DEF RegisteredHaveInfo
<1>7. GoneStaysGone'
  BY DEF GoneStaysGone
<1>8. (RacesAreBenign => LiveStayRegistered)'
  BY DEF TypeOK, LiveStayRegistered, Listed
<1> QED BY <1>1, <1>2, <1>3, <1>4, <1>5, <1>6, <1>7, <1>8

(***************************************************************************)
(* Everything but Redis starts anew.                                       *)
(***************************************************************************)
LEMMA CrashStep ==
    ASSUME IInv, Crash
    PROVE  IInv'
<1> USE NoProcAssumption DEF IInv, Crash
<1>1. TypeOK'
  BY DEF TypeOK, MutexTypeOK, Phases, PCs
<1>2. LockInv'
  BY DEF LockInv, Writing, Sending
<1>3. CallInv'
  BY DEF CallInv, Sending
<1>4. ListInv'
  BY DEF ListInv
<1>5. SendInv'
  BY DEF SendInv, Sending
<1>6. (OneReplica => RegisteredHaveInfo)'
  BY DEF RegisteredHaveInfo
<1>7. GoneStaysGone'
  BY DEF GoneStaysGone
<1>8. (RacesAreBenign => LiveStayRegistered)'
  BY DEF LiveStayRegistered, Listed
<1> QED BY <1>1, <1>2, <1>3, <1>4, <1>5, <1>6, <1>7, <1>8

-----------------------------------------------------------------------------
(***************************************************************************)
(* IInv is an inductive invariant.                                         *)
(***************************************************************************)
LEMMA InitIInv == Init => IInv
<1> SUFFICES ASSUME Init PROVE IInv
  OBVIOUS
<1> USE NoProcAssumption DEF Init, MutexInit, ProcInit
<1>1. TypeOK
  BY DEF TypeOK, MutexTypeOK, Flags, Phases, PCs
<1>2. LockInv /\ CallInv /\ SendInv
  BY DEF LockInv, CallInv, SendInv, Writing, Sending
<1>3. ListInv /\ RegisteredHaveInfo /\ GoneStaysGone /\ LiveStayRegistered
  BY OwnerAssumption DEF ListInv, RegisteredHaveInfo, GoneStaysGone, LiveStayRegistered, Listed
<1> QED BY <1>1, <1>2, <1>3 DEF IInv

LEMMA NextIInv == IInv /\ [Next]_vars => IInv'
<1> SUFFICES ASSUME IInv, [Next]_vars PROVE IInv'
  OBVIOUS
<1>1. ASSUME NEW p \in Procs, Call(p) PROVE IInv'
  BY <1>1, StoreClientStep, RemoveConnectionStep, SendToUserStep DEF Call
<1>2. ASSUME NEW p \in Procs, Continue(p) PROVE IInv'
  BY <1>2, StoreAppendStep, StoreSetStep, RemoveFilterStep, RemoveDelStep,
     SendInfoStep, SendWriteStep, SendBackStep DEF Continue
<1>3. ASSUME NEW u \in Users, NEW f \in Flags, UpdateClientInfo(u, f) PROVE IInv'
  BY <1>3, UpdateClientInfoStep
<1>4. ASSUME NEW c \in Conns, Break(c) \/ Renew(c) PROVE IInv'
  BY <1>4, BreakStep, RenewStep
<1>5. CASE Crash
  BY <1>5, CrashStep
<1>6. ASSUME NEW p \in Procs, SendPanics(p) \/ \E q \in Procs : SendBackTorn(p, q)
      PROVE  IInv'
  BY <1>6, SendPanicsStep, SendBackTornStep
<1>7. ASSUME NEW u \in Users, NEW v \in Flags \union {"none"}, OtherReplica(u, v)
      PROVE  IInv'
  BY <1>7, OtherReplicaStep
<1>8. CASE UNCHANGED vars
  BY <1>8, StutterIInv
<1> QED BY <1>1, <1>2, <1>3, <1>4, <1>5, <1>6, <1>7, <1>8 DEF Next

THEOREM Invariance == Spec => []IInv
<1>1. Init => IInv
  BY InitIInv
<1>2. IInv /\ [Next]_vars => IInv'
  BY NextIInv
<1> QED BY <1>1, <1>2, PTL DEF Spec

-----------------------------------------------------------------------------
(***************************************************************************)
(* The type invariant of the store, for any users, connections, goroutines *)
(* and faults.                                                             *)
(***************************************************************************)
THEOREM TypeCorrect == Spec => []TypeOK
<1>1. IInv => TypeOK
  BY DEF IInv
<1> QED BY <1>1, Invariance, PTL

(***************************************************************************)
(* A stored connection that is still listed finds its user's record in     *)
(* Redis, whatever interleaving of StoreClient, RemoveConnection and the   *)
(* senders led there, if no other replica shares the records.              *)
(***************************************************************************)
THEOREM RegisteredHaveInfoHolds ==
    ASSUME OneReplica
    PROVE  Spec => []RegisteredHaveInfo
<1>1. IInv => RegisteredHaveInfo
  BY DEF IInv
<1> QED BY <1>1, Invariance, PTL

(***************************************************************************)
(* A connection RemoveConnection took out is never listed again.           *)
(***************************************************************************)
THEOREM GoneStaysGoneHolds == Spec => []GoneStaysGone
<1>1. IInv => GoneStaysGone
  BY DEF IInv
<1> QED BY <1>1, Invariance, PTL

(***************************************************************************)
(* A connection that works stays listed until it is removed, if the build  *)
(* resolves every race to one access after the other.                      *)
(***************************************************************************)
THEOREM LiveStayRegisteredHolds ==
    ASSUME RacesAreBenign
    PROVE  Spec => []LiveStayRegistered
<1>1. IInv => LiveStayRegistered
  BY DEF IInv
<1> QED BY <1>1, Invariance, PTL

(***************************************************************************)
(* A sendToUser about to return nil has written to every working           *)
(* connection that is listed then, under the same assumption.              *)
(***************************************************************************)
THEOREM SendReachesAllHolds ==
    ASSUME RacesAreBenign
    PROVE  Spec => []SendReachesAll
<1>1. IInv => SendReachesAll
  BY DEF IInv, SendInv, SendReachesAll, Sending, WritesBack
<1> QED BY <1>1, Invariance, PTL

-----------------------------------------------------------------------------
(***************************************************************************)
(* The store implements ConnRegistry: of all its steps only StoreAppend,   *)
(* RemoveFilter, Break and Crash move the set of reachable connections, as *)
(* Register, Remove, Break and Restart do.                                 *)
(***************************************************************************)
LEMMA InitRegistry == Init => Registry!Init
BY OwnerAssumption DEF Init, Registry!Init, Reachable

LEMMA KeepsReachable ==
    ASSUME alive' = alive, clients' = clients
    PROVE  Reachable' = Reachable
BY DEF Reachable

LEMMA StoreAppendRegistry ==
    ASSUME NEW p \in Procs, IInv, StoreAppend(p)
    PROVE  [Registry!Next]_(Registry!rvars)
<1> DEFINE c == conn[p]
<1>1. c \in Conns /\ c \notin gone /\ Owner[c] \in Users
  BY OwnerAssumption DEF IInv, CallInv, StoreAppend, ListInv, Listed
<1>2. Reachable' = IF c \in alive THEN Reachable \union {c} ELSE Reachable
  BY <1>1, OwnerAssumption DEF IInv, TypeOK, StoreAppend, Reachable
<1>3. UNCHANGED <<alive, gone>>
  BY DEF StoreAppend
<1>4. CASE c \in alive
  BY <1>1, <1>2, <1>3, <1>4 DEF Registry!Next, Registry!Register
<1>5. CASE c \notin alive
  BY <1>2, <1>3, <1>5 DEF Registry!rvars
<1> QED BY <1>4, <1>5

LEMMA RemoveFilterRegistry ==
    ASSUME NEW p \in Procs, IInv, RemoveFilter(p)
    PROVE  [Registry!Next]_(Registry!rvars)
<1> DEFINE c == conn[p]
<1>1. c \in Conns /\ Owner[c] \in Users
  BY OwnerAssumption DEF IInv, CallInv, RemoveFilter
<1>2. Reachable' = Reachable \ {c}
  <2>1. CASE Owner[c] \in keys
    BY <1>1, <2>1, OwnerAssumption DEF IInv, TypeOK, RemoveFilter, Reachable
  <2>2. CASE Owner[c] \notin keys
    BY <1>1, <2>2 DEF IInv, ListInv, RemoveFilter, mapVars, Reachable
  <2> QED BY <2>1, <2>2
<1>3. gone' = (IF Listed(c) THEN gone \union {c} ELSE gone) /\ UNCHANGED alive
  BY DEF RemoveFilter
<1>4. CASE Listed(c)
  BY <1>1, <1>2, <1>3, <1>4 DEF Registry!Next, Registry!Remove
<1>5. CASE ~Listed(c)
  <2>1. c \notin Reachable
    BY <1>1, <1>5 DEF IInv, ListInv, Reachable
  <2> QED BY <1>2, <1>3, <1>5, <2>1 DEF Registry!rvars
<1> QED BY <1>4, <1>5

LEMMA SendBackRegistry ==
    ASSUME RacesAreBenign, NEW p \in Procs, IInv, SendBack(p)
    PROVE  UNCHANGED Registry!rvars
<1>1. user[p] \in Users /\ UNCHANGED <<alive, gone>>
  BY DEF IInv, CallInv, Sending, SendBack, WritesBack, connVars
<1>2. ASSUME NEW c \in alive PROVE c \in clients[Owner[c]] <=> c \in clients'[Owner[c]]
  <2>1. CASE Owner[c] # user[p]
    BY <2>1 DEF IInv, TypeOK, SendBack, WritesBack
  <2>2. CASE Owner[c] = user[p] /\ c \in clients[Owner[c]]
    BY <1>1, <2>2 DEF IInv, TypeOK, SendInv, Sending, SendBack, WritesBack
  <2>3. CASE Owner[c] = user[p] /\ c \in active[p]
    BY <1>1, <1>2, <2>3 DEF IInv, TypeOK, SendInv, Sending, LiveStayRegistered, SendBack, WritesBack
  <2> QED BY <1>1, <2>1, <2>2, <2>3 DEF IInv, TypeOK, SendBack, WritesBack
<1>3. Reachable' = Reachable
  BY <1>1, <1>2 DEF Reachable
<1> QED BY <1>1, <1>3 DEF Registry!rvars

LEMMA BreakRegistry ==
    ASSUME NEW c \in Conns, Break(c)
    PROVE  Registry!Next
<1>1. Reachable' = Reachable \ {c}
  BY DEF Break, Reachable, mapVars
<1> QED BY <1>1 DEF Break, Registry!Next, Registry!Break

LEMMA RenewRegistry ==
    ASSUME NEW c \in Conns, Renew(c)
    PROVE  Registry!Next
<1>1. Reachable' = Reachable
  BY DEF Renew, Unreferenced, Reachable, mapVars
<1> QED BY <1>1 DEF Renew, Registry!Next, Registry!Renew

LEMMA CrashRegistry ==
    ASSUME Crash
    PROVE  Registry!Next
<1>1. Reachable' = {}
  BY OwnerAssumption DEF Crash, Reachable
<1> QED BY <1>1 DEF Crash, Registry!Next, Registry!Restart

LEMMA NextRegistry ==
    ASSUME RacesAreBenign
    PROVE  IInv /\ [Next]_vars => [Registry!Next]_(Registry!rvars)
<1> SUFFICES ASSUME IInv, [Next]_vars PROVE [Registry!Next]_(Registry!rvars)
  OBVIOUS
<1>1. ASSUME UNCHANGED <<mapVars, alive, gone>> PROVE UNCHANGED Registry!rvars
  BY <1>1, KeepsReachable DEF mapVars, Registry!rvars
<1>2. ASSUME NEW p \in Procs, Call(p) PROVE UNCHANGED <<mapVars, alive, gone>>
  BY <1>2 DEF Call, StoreClient, RemoveConnection, SendToUser, connVars
<1>3. ASSUME NEW p \in Procs,
             StoreSet(p) \/ RemoveDel(p) \/ SendInfo(p) \/ SendWrite(p)
      PROVE  UNCHANGED <<mapVars, alive, gone>>
  BY <1>3 DEF StoreSet, RemoveDel, SendInfo, SendWrite, connVars
<1>4. ASSUME NEW p \in Procs, Continue(p) PROVE [Registry!Next]_(Registry!rvars)
  BY <1>1, <1>3, <1>4, StoreAppendRegistry, RemoveFilterRegistry, SendBackRegistry DEF Continue
<1>5. ASSUME NEW u \in Users, NEW f \in Flags, UpdateClientInfo(u, f)
      PROVE  UNCHANGED <<mapVars, alive, gone>>
  BY <1>5 DEF UpdateClientInfo, connVars
<1>6. ASSUME NEW u \in Users, NEW v \in Flags \union {"none"}, OtherReplica(u, v)
      PROVE  UNCHANGED <<mapVars, alive, gone>>
  BY <1>6 DEF OtherReplica, connVars
<1>7. ASSUME NEW c \in Conns, Break(c) \/ Renew(c) PROVE Registry!Next
  BY <1>7, BreakRegistry, RenewRegistry
<1>8. CASE Crash
  BY <1>8, CrashRegistry
<1>9. ASSUME NEW p \in Procs
      PROVE  /\ SendPanics(p) => UNCHANGED <<mapVars, alive, gone>>
             /\ \A q \in Procs : ~SendBackTorn(p, q)
  BY DEF RacesAreBenign, SendPanics, SendBackTorn, connVars
<1>10. CASE UNCHANGED vars
  BY <1>1, <1>10 DEF vars, connVars
<1> QED BY <1>1, <1>2, <1>4, <1>5, <1>7, <1>8, <1>9, <1>10, <1>6 DEF Next

(***************************************************************************)
(* Whatever its callers do, a push reaches the connections that were       *)
(* registered and neither removed nor broken: if races are benign, the     *)
(* store refines the register of reachable connections.                    *)
(***************************************************************************)
THEOREM StoreImplementsRegistry ==
    ASSUME RacesAreBenign
    PROVE  Spec => RefinesRegistry
<1>1. Init => Registry!Init
  BY InitRegistry
<1>2. IInv /\ [Next]_vars => [Registry!Next]_(Registry!rvars)
  BY NextRegistry
<1> QED BY <1>1, <1>2, Invariance, PTL DEF Spec, RefinesRegistry, Registry!Spec
=============================================================================
