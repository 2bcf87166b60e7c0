--------------------------- MODULE ConnRegistry ---------------------------
(***************************************************************************)
(* What services/client_store.go promises to the rest of the server: a set *)
(* of connections a push reaches.  A connection enters it by being         *)
(* registered and leaves it by being removed, by breaking, or because the  *)
(* process restarts; a sender never changes it.                            *)
(***************************************************************************)
CONSTANTS Conns

VARIABLES
    alive,      \* the connections that work
    reachable,  \* the connections a push is written to
    gone        \* the connections that were removed

rvars == <<alive, reachable, gone>>

Init == alive = Conns /\ reachable = {} /\ gone = {}

Register(c) ==
    /\ c \in alive \ gone
    /\ reachable' = reachable \union {c}
    /\ UNCHANGED <<alive, gone>>

Remove(c) ==
    /\ reachable' = reachable \ {c}
    /\ gone' = gone \union {c}
    /\ UNCHANGED alive

Break(c) ==
    /\ alive' = alive \ {c}
    /\ reachable' = reachable \ {c}
    /\ UNCHANGED gone

Renew(c) ==
    /\ c \notin alive
    /\ alive' = alive \union {c}
    /\ gone' = gone \ {c}
    /\ UNCHANGED reachable

Restart == alive' = Conns /\ reachable' = {} /\ gone' = {}

Next ==
    \/ \E c \in Conns : Register(c) \/ Remove(c) \/ Break(c) \/ Renew(c)
    \/ Restart

Spec == Init /\ [][Next]_rvars
=============================================================================
