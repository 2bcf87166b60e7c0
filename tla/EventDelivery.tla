--------------------------- MODULE EventDelivery ---------------------------
(***************************************************************************)
(* What one replica promises for the events of the Event Hub: an event is  *)
(* turned into a notification at most twice, and then in a row; those of a *)
(* partition in the order in which they were sent; and one that has been   *)
(* given up is never stored afterwards.  An event that is sent while       *)
(* nobody listens is lost.  Of the events that are owed, one is skipped    *)
(* only for a fault of its own; and they may be given up at any time, but  *)
(* no later one is kept.                                                   *)
(***************************************************************************)
EXTENDS Naturals

CONSTANTS
    HubEvents,
    PartitionOf,
    MayFail     \* the events that may be skipped

VARIABLES
    offset,     \* the place of an event in its partition, 0 before it is sent
    fate        \* "unsent", "owed", "stored", "twice" or "lost"

dvars == <<offset, fate>>

Init ==
    /\ offset = [e \in HubEvents |-> 0]
    /\ fate = [e \in HubEvents |-> "unsent"]

Earlier(d, e) == PartitionOf[d] = PartitionOf[e] /\ offset[d] < offset[e]

Send(e) ==
    /\ fate[e] = "unsent"
    /\ \/ fate' = [fate EXCEPT ![e] = "owed"]
       \/ fate' = [fate EXCEPT ![e] = "lost"]
    /\ offset' = [offset EXCEPT ![e] = offset'[e]]
    /\ \A d \in HubEvents : PartitionOf[d] = PartitionOf[e] => offset[d] < offset'[e]

\* the next event its partition has to handle
First(e) ==
    /\ fate[e] = "owed"
    /\ \A d \in HubEvents : Earlier(d, e) => fate[d] # "owed"

Store(e) ==
    /\ First(e)
    /\ fate' = [fate EXCEPT ![e] = "stored"]
    /\ UNCHANGED offset

\* a second notification, before any for a later event
StoreAgain(e) ==
    /\ fate[e] = "stored"
    /\ \A d \in HubEvents : Earlier(e, d) => fate[d] \notin {"stored", "twice"}
    /\ fate' = [fate EXCEPT ![e] = "twice"]
    /\ UNCHANGED offset

Skip(e) ==
    /\ e \in MayFail
    /\ First(e)
    /\ fate' = [fate EXCEPT ![e] = "lost"]
    /\ UNCHANGED offset

GiveUp(S) ==
    /\ \A e \in S : fate[e] = "owed"
    /\ \A d \in S, e \in HubEvents : Earlier(d, e) /\ fate[e] = "owed" => e \in S
    /\ fate' = [e \in HubEvents |-> IF e \in S THEN "lost" ELSE fate[e]]
    /\ UNCHANGED offset

Next ==
    \/ \E e \in HubEvents : Send(e) \/ Store(e) \/ StoreAgain(e) \/ Skip(e)
    \/ \E S \in SUBSET HubEvents : GiveUp(S)

Spec == Init /\ [][Next]_dvars
=============================================================================
