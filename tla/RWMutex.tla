------------------------------ MODULE RWMutex ------------------------------
(***************************************************************************)
(* sync.RWMutex as services/client_store.go uses it (clientsMutex, l. 17): *)
(* any number of readers or one writer, and a writer that has called       *)
(* Lock() keeps new readers out while it waits for the present ones.  Lock *)
(* is therefore two steps, LockRequest (the writer announces itself) and   *)
(* LockGranted (the last reader has left).  This is library code, modelled *)
(* from its documented behaviour.                                          *)
(***************************************************************************)
CONSTANTS
    Procs,      \* the goroutines
    NoProc      \* no goroutine

ASSUME NoProcAssumption == NoProc \notin Procs

VARIABLES
    readers,    \* the goroutines between RLock and RUnlock
    writer      \* the goroutine that called Lock and has not called Unlock

mutexVars == <<readers, writer>>

MutexTypeOK ==
    /\ readers \subseteq Procs
    /\ writer \in Procs \union {NoProc}

MutexInit == readers = {} /\ writer = NoProc

RLock(p) ==
    /\ writer = NoProc
    /\ readers' = readers \union {p}
    /\ UNCHANGED writer

RUnlock(p) ==
    /\ readers' = readers \ {p}
    /\ UNCHANGED writer

LockRequest(p) ==
    /\ writer = NoProc
    /\ writer' = p
    /\ UNCHANGED readers

LockGranted(p) == writer = p /\ readers = {}

Unlock(p) ==
    /\ writer' = NoProc
    /\ UNCHANGED readers
=============================================================================
