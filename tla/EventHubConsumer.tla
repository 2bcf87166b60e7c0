-------------------------- MODULE EventHubConsumer --------------------------
(***************************************************************************)
(* event-hub/consumer/consumer.go: StartEventHubConsumer, the receiver of  *)
(* each partition and its handler, in one replica of the server, over an   *)
(* Event Hub that outlives it.  (Replicas read the default consumer group  *)
(* independently of each other: each one is a consumer of its own.)        *)
(*                                                                         *)
(* A handler is called for one event of its partition at a time.  It       *)
(* always returns nil: that an event cannot be parsed or inserted is no    *)
(* reason to send it again.  The first link of a receiver starts at the    *)
(* latest place.  The client library replaces one that breaks, and resumes *)
(* behind the event whose handler returned last, which it keeps in memory. *)
(***************************************************************************)
EXTENDS Naturals

CONSTANTS
    Partitions,
    HubEvents,      \* the events ever sent
    NoEvent,
    PartitionOf,
    Valid,          \* the events whose data can be parsed
    Failing,        \* the events whose insert may return an error
    EnableEventHub,
    Failures        \* what else may fail

ASSUME PartitionOfAssumption == PartitionOf \in [HubEvents -> Partitions]
ASSUME NoEventAssumption == NoEvent \notin HubEvents
ASSUME EnableEventHubAssumption == EnableEventHub \in BOOLEAN
\* "hub": a request to it or a link is lost for good, "link": a link is replaced,
\* "early": even while the first event of its receiver is in the handler
ASSUME FailuresAssumption ==
    Failures \subseteq {"hub", "link", "early", "env", "mongo", "redis", "port", "crash"}

\* the hypothesis of what is said about the order and the number of deliveries
NoEarlyBreak == "early" \notin Failures

VARIABLES
    offset,     \* the Event Hub: the place of an event in its partition, or 0
    size,       \* the number of events in a partition
    starter,    \* where StartEventHubConsumer is
    cancelled,  \* its context has been cancelled
    receiver,   \* the receiver of each partition
    next,       \* the place it reads next
    step,       \* where its handler is
    current,    \* the event its handler was called for
    checkpoint, \* the place of the event whose handler returned last, or 0
    copies      \* (history) the documents inserted for an event

hubVars      == <<offset, size>>
receiverVars == <<receiver, next>>
handlerVars  == <<step, current, checkpoint>>
cvars == <<hubVars, starter, cancelled, receiverVars, handlerVars, copies>>

Starters  == {"off", "info", "wait", "returned", "error"}
Receivers == {"none", "starting", "linked", "ended"}

ConsumerTypeOK ==
    /\ offset \in [HubEvents -> Nat]
    /\ size \in [Partitions -> Nat]
    /\ starter \in Starters
    /\ cancelled \in BOOLEAN
    /\ receiver \in [Partitions -> Receivers]
    /\ next \in [Partitions -> Nat]
    /\ step \in [Partitions -> {"idle", "insert", "push"}]
    /\ current \in [Partitions -> HubEvents \union {NoEvent}]
    /\ checkpoint \in [Partitions -> Nat]
    /\ copies \in [HubEvents -> Nat]

ConsumerInit ==
    /\ offset = [e \in HubEvents |-> 0]
    /\ size = [pt \in Partitions |-> 0]
    /\ starter = "off"
    /\ cancelled = FALSE
    /\ receiver = [pt \in Partitions |-> "none"]
    /\ next = [pt \in Partitions |-> 0]
    /\ step = [pt \in Partitions |-> "idle"]
    /\ current = [pt \in Partitions |-> NoEvent]
    /\ checkpoint = [pt \in Partitions |-> 0]
    /\ copies = [e \in HubEvents |-> 0]

-----------------------------------------------------------------------------
(***************************************************************************)
(* The producers.                                                          *)
(***************************************************************************)
Publish(e) ==
    LET pt == PartitionOf[e] IN
    /\ offset[e] = 0
    /\ size' = [size EXCEPT ![pt] = @ + 1]
    /\ offset' = [offset EXCEPT ![e] = size[pt] + 1]
    /\ UNCHANGED <<starter, cancelled, receiverVars, handlerVars, copies>>

(***************************************************************************)
(* StartEventHubConsumer: one request for the partitions, which fails when *)
(* its context is cancelled; a goroutine with a receiver for each of them; *)
(* then it waits for the end.  hub.Close ends the receivers.               *)
(***************************************************************************)
StartEventHubConsumer ==
    /\ starter = "off"
    /\ starter' = IF EnableEventHub THEN "info" ELSE "returned"
    /\ UNCHANGED <<hubVars, cancelled, receiverVars, handlerVars, copies>>

GetRuntimeInformation ==
    /\ starter = "info"
    /\ \/ /\ starter' = "wait"
          /\ receiver' = [pt \in Partitions |-> "starting"]
       \/ /\ cancelled \/ "hub" \in Failures
          /\ starter' = "error"
          /\ UNCHANGED receiver
    /\ UNCHANGED <<hubVars, cancelled, next, handlerVars, copies>>

Close ==
    /\ starter = "wait"
    /\ cancelled
    /\ starter' = "returned"
    /\ receiver' = [pt \in Partitions |-> "ended"]
    /\ UNCHANGED <<hubVars, cancelled, next, handlerVars, copies>>

(***************************************************************************)
(* A receiver and its first link.  What Receive returns is ignored: nobody *)
(* is told that a receiver has not started, or has ended.                  *)
(***************************************************************************)
\* (mutant) from the beginning of the partition
ReceiveFromEarliest(pt) ==
    /\ receiver[pt] = "starting"
    /\ receiver' = [receiver EXCEPT ![pt] = "linked"]
    /\ next' = [next EXCEPT ![pt] = 1]
    /\ UNCHANGED <<hubVars, starter, cancelled, handlerVars, copies>>

Receive(pt) ==
    /\ receiver[pt] = "starting"
    /\ receiver' = [receiver EXCEPT ![pt] = "linked"]
    /\ next' = [next EXCEPT ![pt] = size[pt] + 1]
    /\ UNCHANGED <<hubVars, starter, cancelled, handlerVars, copies>>

ReceiverEnds(pt) ==
    /\ receiver[pt] \in {"starting", "linked"}
    /\ cancelled \/ "hub" \in Failures
    /\ receiver' = [receiver EXCEPT ![pt] = "ended"]
    /\ UNCHANGED <<hubVars, starter, cancelled, next, handlerVars, copies>>

(***************************************************************************)
(* A link breaks and is replaced, while the handler goes on.  The event in *)
(* the handler is not behind the checkpoint and is sent again.  If no      *)
(* event has been handled yet, the new link starts at the latest place     *)
(* once more, and what was not read is lost.                               *)
(***************************************************************************)
LinkRecovers(pt) ==
    /\ "link" \in Failures
    /\ receiver[pt] = "linked"
    /\ checkpoint[pt] = 0 /\ step[pt] # "idle" => "early" \in Failures
    /\ next' = [next EXCEPT ![pt] =
                  1 + IF checkpoint[pt] = 0 THEN size[pt] ELSE checkpoint[pt]]
    /\ UNCHANGED <<hubVars, starter, cancelled, receiver, handlerVars, copies>>

(***************************************************************************)
(* The handler.                                                            *)
(***************************************************************************)
OnEventReceived(pt, e) ==
    /\ receiver[pt] = "linked"
    /\ step[pt] = "idle"
    /\ PartitionOf[e] = pt /\ offset[e] = next[pt]
    /\ next' = [next EXCEPT ![pt] = @ + 1]
    /\ IF e \in Valid
         THEN /\ step' = [step EXCEPT ![pt] = "insert"]
              /\ current' = [current EXCEPT ![pt] = e]
              /\ UNCHANGED checkpoint
         ELSE /\ checkpoint' = [checkpoint EXCEPT ![pt] = offset[e]]
              /\ UNCHANGED <<step, current>>
    /\ UNCHANGED <<hubVars, starter, cancelled, receiver, copies>>

HandlerReturns(pt) ==
    /\ step' = [step EXCEPT ![pt] = "idle"]
    /\ current' = [current EXCEPT ![pt] = NoEvent]
    /\ checkpoint' = [checkpoint EXCEPT ![pt] = offset[current[pt]]]

Inserted(e) == copies' = [copies EXCEPT ![e] = @ + 1]

\* (mutant) the handler gives up once the context is cancelled
InsertUnlessCancelled(pt) ==
    /\ step[pt] = "insert"
    /\ IF cancelled
         THEN HandlerReturns(pt) /\ UNCHANGED copies
         ELSE /\ Inserted(current[pt])
              /\ step' = [step EXCEPT ![pt] = "push"]
              /\ UNCHANGED <<current, checkpoint>>
    /\ UNCHANGED <<hubVars, starter, cancelled, receiverVars>>

\* (mutant) a failed insert is tried until it succeeds
InsertUntilStored(pt) ==
    /\ step[pt] = "insert"
    /\ current[pt] \notin Failing
    /\ Inserted(current[pt])
    /\ step' = [step EXCEPT ![pt] = "push"]
    /\ UNCHANGED <<hubVars, starter, cancelled, receiverVars, current, checkpoint>>

\* an insert that returns an error may or may not have taken effect
Insert(pt) ==
    /\ step[pt] = "insert"
    /\ \/ /\ Inserted(current[pt])
          /\ step' = [step EXCEPT ![pt] = "push"]
          /\ UNCHANGED <<current, checkpoint>>
       \/ /\ current[pt] \in Failing
          /\ Inserted(current[pt]) \/ UNCHANGED copies
          /\ HandlerReturns(pt)
    /\ UNCHANGED <<hubVars, starter, cancelled, receiverVars>>

\* SendNotificationToUser, whose result is ignored (see WebSocketHandler)
Push(pt) ==
    /\ step[pt] = "push"
    /\ HandlerReturns(pt)
    /\ UNCHANGED <<hubVars, starter, cancelled, receiverVars, copies>>

-----------------------------------------------------------------------------
(***************************************************************************)
(* What the process does to its consumer.                                  *)
(***************************************************************************)
Cancel ==
    /\ ~cancelled
    /\ cancelled' = TRUE
    /\ UNCHANGED <<hubVars, starter, receiverVars, handlerVars, copies>>

ProcessEnds ==
    /\ starter' = "off"
    /\ cancelled' = FALSE
    /\ receiver' = [pt \in Partitions |-> "none"]
    /\ next' = [pt \in Partitions |-> 0]
    /\ step' = [pt \in Partitions |-> "idle"]
    /\ current' = [pt \in Partitions |-> NoEvent]
    /\ checkpoint' = [pt \in Partitions |-> 0]
    /\ UNCHANGED <<hubVars, copies>>

ReceiverStep(pt) == Receive(pt) \/ ReceiverEnds(pt) \/ LinkRecovers(pt)

HandlerStep(pt) == Insert(pt) \/ Push(pt) \/ \E e \in HubEvents : OnEventReceived(pt, e)

ConsumerStep ==
    \/ GetRuntimeInformation
    \/ Close
    \/ \E pt \in Partitions : ReceiverStep(pt) \/ HandlerStep(pt)

ConsumerNext ==
    \/ \E e \in HubEvents : Publish(e)
    \/ ConsumerStep
    \/ StartEventHubConsumer
    \/ Cancel
    \/ ProcessEnds

ConsumerSpec == ConsumerInit /\ [][ConsumerNext]_cvars

-----------------------------------------------------------------------------
(***************************************************************************)
(* AtMostTwice: an event that is being handled while its link is replaced  *)
(* is inserted a second time, and that is all: no event is stored three    *)
(* times by this replica, though links break again and again, inserts fail *)
(* after they have taken effect, and receivers and the process end and     *)
(* start again.                                                            *)
(***************************************************************************)
AtMostTwice == \A e \in HubEvents : copies[e] <= 2

(***************************************************************************)
(* InOrder: the notifications of a partition are stored in the order in    *)
(* which its events were sent.  Once a later event has been stored, an     *)
(* earlier one is not stored, or stored again, not even after links were   *)
(* replaced, or receivers or the process have ended, while handlers still  *)
(* ran, and started again.                                                 *)
(***************************************************************************)
InOrder ==
    [][\A d, e \in HubEvents :
         PartitionOf[d] = PartitionOf[e] /\ 0 < offset[d] /\ offset[d] < offset[e]
           /\ copies[e] > 0
         => copies'[d] = copies[d]]_cvars

(***************************************************************************)
(* The fate of an event, and the promise of EventDelivery.                 *)
(***************************************************************************)
Owed(e) ==
    LET pt == PartitionOf[e] IN
    \/ receiver[pt] = "linked" /\ next[pt] <= offset[e] /\ offset[e] > 0
    \/ step[pt] = "insert" /\ current[pt] = e

Fate(e) ==
    CASE offset[e] = 0 -> "unsent"
      [] offset[e] > 0 /\ copies[e] > 1 -> "twice"
      [] offset[e] > 0 /\ copies[e] = 1 -> "stored"
      [] offset[e] > 0 /\ copies[e] = 0 /\ Owed(e) -> "owed"
      [] OTHER -> "lost"

Delivery == INSTANCE EventDelivery WITH
    fate <- [e \in HubEvents |-> Fate(e)],
    MayFail <- Failing \union (HubEvents \ Valid)
RefinesDelivery == Delivery!Spec

(***************************************************************************)
(* EventsSettle: an event that is owed is stored or given up in the end:   *)
(* no handler keeps the events of its partition waiting for ever.          *)
(***************************************************************************)
EventsSettle == \A e \in HubEvents : Fate(e) = "owed" ~> Fate(e) # "owed"

-----------------------------------------------------------------------------
(***************************************************************************)
(* The inductive invariant behind AtMostTwice, InOrder and RefinesDelivery *)
(* (if NoEarlyBreak).  A receiver reads behind every event that has been   *)
(* stored, but for one: the event in its handler, or the last one that was *)
(* there, may be before it once more, and then only for the second time.   *)
(***************************************************************************)
PlacesInv ==
    /\ \A e \in HubEvents : offset[e] <= size[PartitionOf[e]]
    /\ \A d, e \in HubEvents :
         PartitionOf[d] = PartitionOf[e] /\ offset[d] = offset[e] /\ offset[e] > 0 => d = e

ReceiverInv ==
    \A pt \in Partitions :
        /\ receiver[pt] = "linked" => next[pt] > 0
        /\ starter \in {"off", "info"} => receiver[pt] = "none"
        /\ receiver[pt] \in {"none", "starting"} => checkpoint[pt] = 0
        /\ checkpoint[pt] <= size[pt]

HandlerInv ==
    \A pt \in Partitions :
        /\ step[pt] = "idle" <=> current[pt] = NoEvent
        /\ step[pt] # "idle" =>
             /\ receiver[pt] \in {"linked", "ended"}
             /\ PartitionOf[current[pt]] = pt
             /\ offset[current[pt]] > 0

\* the place of the event in the handler, or of the last one
Handled(pt) == IF step[pt] = "idle" THEN checkpoint[pt] ELSE offset[current[pt]]

\* what has been read, and what is read again
ResumeInv ==
    \A pt \in Partitions : receiver[pt] = "linked" =>
        LET h == Handled(pt) IN
        IF step[pt] = "idle"
          THEN h > 0 => next[pt] \in {h, h + 1}
          ELSE \/ next[pt] = h + 1 /\ checkpoint[pt] \in {0, h, h - 1}
               \/ next[pt] = h /\ checkpoint[pt] = h - 1

StoredInv ==
    \A e \in HubEvents :
        LET pt == PartitionOf[e] IN
        copies[e] > 0 =>
            /\ offset[e] > 0
            /\ receiver[pt] = "linked" => offset[e] < next[pt] \/ offset[e] = Handled(pt)

\* what is in a handler is not earlier than what has been stored
OrderInv ==
    \A pt \in Partitions : step[pt] # "idle" =>
        \A d \in HubEvents :
            PartitionOf[d] = pt /\ copies[d] > 0 => offset[d] <= offset[current[pt]]

\* the documents of the event in a handler: only the second delivery makes a second one
CopiesInv ==
    \A pt \in Partitions : step[pt] # "idle" =>
        LET e == current[pt]
            deliveries == IF checkpoint[pt] = offset[e] THEN 2 ELSE 1
        IN  IF step[pt] = "insert" THEN copies[e] < deliveries ELSE copies[e] \in 1..deliveries

\* the last event that has been handled: stored, or skipped for a fault of its own
LastInv ==
    \A e \in HubEvents :
        LET pt == PartitionOf[e] IN
        offset[e] > 0 /\ offset[e] = checkpoint[pt] =>
            /\ copies[e] = 0 => e \in Failing \/ e \notin Valid
            /\ step[pt] = "idle" /\ receiver[pt] = "linked" /\ next[pt] = offset[e] => copies[e] <= 1

HubInv ==
    /\ ConsumerTypeOK
    /\ PlacesInv
    /\ ReceiverInv
    /\ HandlerInv
    /\ ResumeInv
    /\ StoredInv
    /\ OrderInv
    /\ CopiesInv
    /\ LastInv
    /\ AtMostTwice
=============================================================================
