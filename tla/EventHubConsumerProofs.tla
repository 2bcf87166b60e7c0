----------------------- MODULE EventHubConsumerProofs -----------------------
(***************************************************************************)
(* Proofs about EventHubConsumer, for every set of events, every           *)
(* partitioning and every combination of failures but "early": HubInv is   *)
(* inductive, no event is stored three times or after a later one, and the *)
(* consumer implements EventDelivery.                                      *)
(***************************************************************************)
EXTENDS EventHubConsumer, TLAPS

LEMMA InitHub == ConsumerInit => HubInv
<1> SUFFICES ASSUME ConsumerInit PROVE HubInv
  OBVIOUS
<1>1. ConsumerTypeOK
  BY DEF ConsumerInit, ConsumerTypeOK, Starters, Receivers
<1>2. PlacesInv
  BY PartitionOfAssumption DEF ConsumerInit, PlacesInv
<1>3. ReceiverInv /\ HandlerInv /\ ResumeInv /\ StoredInv
  BY PartitionOfAssumption DEF ConsumerInit, ReceiverInv, HandlerInv, ResumeInv, StoredInv
<1>4. OrderInv /\ CopiesInv /\ LastInv /\ AtMostTwice
  BY PartitionOfAssumption DEF ConsumerInit, OrderInv, CopiesInv, LastInv, AtMostTwice
<1> QED BY <1>1, <1>2, <1>3, <1>4 DEF HubInv

(***************************************************************************)
(* One lemma for each part of the system that takes a step.                *)
(***************************************************************************)
LEMMA PublishHub ==
    ASSUME HubInv, NEW e \in HubEvents, Publish(e)
    PROVE  HubInv'
<1> DEFINE pt == PartitionOf[e]
<1>0. /\ pt \in Partitions /\ size[pt] \in Nat
      /\ size' = [size EXCEPT ![pt] = size[pt] + 1]
      /\ offset' = [offset EXCEPT ![e] = size[pt] + 1]
  BY PartitionOfAssumption DEF HubInv, ConsumerTypeOK, Publish
<1>1. /\ offset'[e] = size[pt] + 1 /\ offset'[e] > 0
      /\ \A d \in HubEvents \ {e} : offset'[d] = offset[d]
      /\ \A d \in HubEvents : offset[d] <= size[PartitionOf[d]]
      /\ size'[pt] = size[pt] + 1
      /\ \A qt \in Partitions \ {pt} : size'[qt] = size[qt]
  BY <1>0 DEF HubInv, ConsumerTypeOK, PlacesInv
<1>2. ConsumerTypeOK'
  BY <1>0 DEF HubInv, ConsumerTypeOK, Publish, receiverVars, handlerVars
<1>3. PlacesInv'
  <2>1. ASSUME NEW d \in HubEvents PROVE offset'[d] <= size'[PartitionOf[d]]
    BY <1>0, <1>1, PartitionOfAssumption DEF HubInv, ConsumerTypeOK
  <2>2. ASSUME NEW d \in HubEvents, d # e, PartitionOf[d] = pt
        PROVE  offset'[d] # offset'[e]
    BY <1>0, <1>1, <2>2, PartitionOfAssumption DEF HubInv, ConsumerTypeOK
  <2>3. ASSUME NEW c \in HubEvents, NEW d \in HubEvents,
               PartitionOf[c] = PartitionOf[d], offset'[c] = offset'[d], offset'[d] > 0
        PROVE  c = d
    BY <1>1, <2>2, <2>3 DEF HubInv, PlacesInv
  <2> QED BY <2>1, <2>3 DEF PlacesInv
<1>4. /\ UNCHANGED <<starter, receiver, next, step, current, checkpoint, copies>>
      /\ copies[e] = 0
      /\ \A d \in HubEvents : offset[d] > 0 => offset'[d] = offset[d]
      /\ \A qt \in Partitions : size[qt] <= size'[qt] /\ checkpoint[qt] <= size[qt]
      /\ \A qt \in Partitions : step[qt] # "idle" =>
           /\ current[qt] \in HubEvents /\ PartitionOf[current[qt]] = qt
           /\ offset[current[qt]] > 0 /\ offset'[current[qt]] = offset[current[qt]]
  <2>1. copies[e] = 0 /\ \A d \in HubEvents : offset[d] > 0 => offset'[d] = offset[d]
    BY <1>1 DEF HubInv, ConsumerTypeOK, StoredInv, Publish
  <2>2. \A qt \in Partitions : step[qt] # "idle" =>
           /\ current[qt] \in HubEvents /\ PartitionOf[current[qt]] = qt
           /\ offset[current[qt]] > 0
    BY DEF HubInv, ConsumerTypeOK, HandlerInv
  <2> QED BY <1>0, <1>1, <2>1, <2>2
          DEF HubInv, ConsumerTypeOK, ReceiverInv, Publish, receiverVars, handlerVars
<1>5. ReceiverInv' /\ HandlerInv'
  BY <1>0, <1>4 DEF HubInv, ConsumerTypeOK, ReceiverInv, HandlerInv
<1>6. \A qt \in Partitions : Handled(qt)' = Handled(qt)
  BY <1>4 DEF Handled
<1>7. ResumeInv' /\ StoredInv'
  BY <1>4, <1>6, PartitionOfAssumption DEF HubInv, ResumeInv, StoredInv
<1>8. OrderInv' /\ CopiesInv' /\ AtMostTwice'
  BY <1>4 DEF HubInv, ConsumerTypeOK, StoredInv, OrderInv, CopiesInv, AtMostTwice
<1>9. LastInv'
  BY <1>0, <1>1, <1>4, PartitionOfAssumption DEF HubInv, ConsumerTypeOK, LastInv
<1> QED BY <1>2, <1>3, <1>5, <1>7, <1>8, <1>9 DEF HubInv

\* steps of the starter and of the receivers leave the handlers alone
LEMMA SameHandlers ==
    ASSUME HubInv, UNCHANGED <<hubVars, handlerVars, copies>>
    PROVE  /\ PlacesInv' /\ OrderInv' /\ CopiesInv' /\ AtMostTwice'
           /\ \A pt \in Partitions : Handled(pt)' = Handled(pt)
BY DEF HubInv, PlacesInv, OrderInv, CopiesInv, AtMostTwice, Handled, hubVars, handlerVars

\* links that end, or none that begins
LEMMA NoNewLinks ==
    ASSUME HubInv, UNCHANGED <<hubVars, handlerVars, copies, next>>, starter' \in Starters,
           cancelled' \in BOOLEAN, receiver' \in [Partitions -> Receivers],
           \A pt \in Partitions :
             /\ receiver'[pt] = "linked" => receiver[pt] = "linked"
             /\ receiver'[pt] \in {"none", "starting"} => receiver[pt] \in {"none", "starting"}
             /\ receiver[pt] \in {"linked", "ended"} => receiver'[pt] \in {"linked", "ended"}
             /\ starter' \in {"off", "info"} => receiver'[pt] = "none"
    PROVE  HubInv'
<1>1. PlacesInv' /\ OrderInv' /\ CopiesInv' /\ AtMostTwice'
      /\ \A pt \in Partitions : Handled(pt)' = Handled(pt)
  BY SameHandlers
<1>2. ConsumerTypeOK'
  BY DEF HubInv, ConsumerTypeOK, hubVars, handlerVars
<1>3. ReceiverInv' /\ HandlerInv'
  BY DEF HubInv, ReceiverInv, HandlerInv, hubVars, handlerVars
<1>4. ResumeInv' /\ StoredInv' /\ LastInv'
  BY <1>1, PartitionOfAssumption DEF HubInv, ResumeInv, StoredInv, LastInv, hubVars, handlerVars
<1> QED BY <1>1, <1>2, <1>3, <1>4 DEF HubInv

LEMMA StarterHub ==
    ASSUME HubInv, StartEventHubConsumer \/ GetRuntimeInformation \/ Close \/ Cancel
    PROVE  HubInv'
<1> USE DEF HubInv, ConsumerTypeOK, ReceiverInv, Starters, Receivers
<1>1. CASE StartEventHubConsumer
  BY <1>1, NoNewLinks DEF StartEventHubConsumer, receiverVars
<1>2. CASE GetRuntimeInformation
  <2>1. \A pt \in Partitions : receiver[pt] = "none" /\ receiver'[pt] \in {"none", "starting"}
    BY <1>2 DEF GetRuntimeInformation
  <2>2. starter' \in {"wait", "error"} /\ receiver' \in [Partitions -> Receivers]
        /\ UNCHANGED <<hubVars, cancelled, next, handlerVars, copies>>
    BY <1>2 DEF GetRuntimeInformation
  <2> QED BY <2>1, <2>2, NoNewLinks
<1>3. CASE Close
  BY <1>3, NoNewLinks DEF Close
<1>4. CASE Cancel
  BY <1>4, NoNewLinks DEF Cancel, receiverVars
<1> QED BY <1>1, <1>2, <1>3, <1>4

\* a receiver that has a link is behind what it has read
LEMMA ReceiverHub ==
    ASSUME HubInv, NoEarlyBreak, NEW pt \in Partitions, ReceiverStep(pt)
    PROVE  HubInv'
<1>1. starter \notin {"off", "info"}
  BY DEF HubInv, ReceiverInv, ReceiverStep, Receive, ReceiverEnds, LinkRecovers
<1>2. CASE ReceiverEnds(pt)
  BY <1>1, <1>2, NoNewLinks
     DEF ReceiverEnds, HubInv, ConsumerTypeOK, Starters, Receivers
<1>3. CASE Receive(pt) \/ LinkRecovers(pt)
  <2>1. /\ receiver' = [receiver EXCEPT ![pt] = "linked"]
        /\ next'[pt] \in Nat /\ next' = [next EXCEPT ![pt] = next'[pt]]
        /\ UNCHANGED <<hubVars, starter, cancelled, handlerVars, copies>>
    BY <1>3 DEF HubInv, ConsumerTypeOK, Receive, LinkRecovers
  <2>2. PlacesInv' /\ OrderInv' /\ CopiesInv' /\ AtMostTwice'
        /\ \A qt \in Partitions : Handled(qt)' = Handled(qt)
    BY <2>1, SameHandlers
  <2>3. ConsumerTypeOK'
    BY <2>1 DEF HubInv, ConsumerTypeOK, Receivers, hubVars, handlerVars
  <2>4. /\ step[pt] = "idle" /\ checkpoint[pt] = 0 => next'[pt] = size[pt] + 1
        /\ step[pt] = "idle" /\ checkpoint[pt] > 0 => next'[pt] = checkpoint[pt] + 1
        /\ step[pt] # "idle" =>
             /\ receiver[pt] = "linked" /\ checkpoint[pt] > 0
             /\ next'[pt] = checkpoint[pt] + 1
             /\ checkpoint[pt] \in {Handled(pt), Handled(pt) - 1}
    <3>1. CASE Receive(pt)
      BY <3>1 DEF HubInv, ConsumerTypeOK, ReceiverInv, HandlerInv, Receive
    <3>2. CASE LinkRecovers(pt)
      BY <3>2 DEF HubInv, ConsumerTypeOK, ResumeInv, LinkRecovers, NoEarlyBreak
    <3> QED BY <1>3, <3>1, <3>2
  <2>5. ReceiverInv' /\ HandlerInv'
    BY <1>1, <2>1, <2>4 DEF HubInv, ConsumerTypeOK, ReceiverInv, HandlerInv, hubVars, handlerVars
  <2>6. ResumeInv'
    <3>1. ASSUME NEW qt \in Partitions, receiver'[qt] = "linked" PROVE ResumeInv!(qt)'
      <4>1. CASE qt = pt
        <5>1. step'[pt] = step[pt] /\ checkpoint'[pt] = checkpoint[pt]
              /\ Handled(pt)' = Handled(pt) /\ checkpoint[pt] \in Nat
          BY <2>1, <2>2 DEF handlerVars, HubInv, ConsumerTypeOK
        <5>2. CASE step[pt] = "idle"
          BY <2>4, <4>1, <5>1, <5>2 DEF Handled
        <5>3. CASE step[pt] # "idle"
          <6>1. Handled(pt) \in Nat
            BY <5>3 DEF HubInv, ConsumerTypeOK, HandlerInv, Handled
          <6> QED BY <2>4, <4>1, <5>1, <5>3, <6>1
        <5> QED BY <5>2, <5>3
      <4>2. CASE qt # pt
        <5>1. receiver[qt] = "linked" /\ next'[qt] = next[qt] /\ Handled(qt)' = Handled(qt)
              /\ step'[qt] = step[qt] /\ checkpoint'[qt] = checkpoint[qt]
          BY <2>1, <2>2, <3>1, <4>2 DEF HubInv, ConsumerTypeOK, handlerVars
        <5> QED BY <5>1 DEF HubInv, ResumeInv
      <4> QED BY <4>1, <4>2
    <3> QED BY <3>1 DEF ResumeInv
  <2>7. StoredInv'
    <3>1. ASSUME NEW e \in HubEvents, PartitionOf[e] = pt, copies[e] > 0
          PROVE  offset[e] > 0 /\ (offset[e] < next'[pt] \/ offset[e] = Handled(pt))
      <4>1. offset[e] > 0 /\ offset[e] <= size[pt] /\ Handled(pt) \in Nat
        BY <3>1 DEF HubInv, ConsumerTypeOK, StoredInv, PlacesInv, HandlerInv, Handled
      <4>2. CASE step[pt] = "idle" /\ checkpoint[pt] = 0
        BY <2>4, <4>1, <4>2 DEF HubInv, ConsumerTypeOK
      <4>3. CASE step[pt] = "idle" /\ checkpoint[pt] > 0
        BY <2>4, <3>1, <4>1, <4>3, <1>3
           DEF HubInv, ConsumerTypeOK, StoredInv, ResumeInv, ReceiverInv, Handled, Receive, LinkRecovers
      <4>4. CASE step[pt] # "idle"
        BY <2>4, <3>1, <4>1, <4>4 DEF HubInv, ConsumerTypeOK, StoredInv, ResumeInv
      <4> QED BY <4>2, <4>3, <4>4 DEF HubInv, ConsumerTypeOK
    <3> QED BY <2>1, <2>2, <3>1, PartitionOfAssumption
            DEF HubInv, ConsumerTypeOK, StoredInv, hubVars
  <2>8. LastInv'
    BY <2>1, <2>4, PartitionOfAssumption
       DEF HubInv, ConsumerTypeOK, LastInv, hubVars, handlerVars
  <2> QED BY <2>2, <2>3, <2>5, <2>6, <2>7, <2>8 DEF HubInv
<1> QED BY <1>2, <1>3 DEF ReceiverStep

\* a handler is given what comes next, or what it has had already
LEMMA ReceivedIsLatest ==
    ASSUME HubInv, NEW pt \in Partitions, NEW e \in HubEvents, OnEventReceived(pt, e)
    PROVE  /\ offset[e] \in Nat /\ offset[e] > 0 /\ next'[pt] = offset[e] + 1
           /\ checkpoint[pt] \in {0, offset[e], offset[e] - 1}
           /\ copies[e] < IF checkpoint[pt] = offset[e] THEN 2 ELSE 1
           /\ \A d \in HubEvents : PartitionOf[d] = pt /\ copies[d] > 0 => offset[d] <= offset[e]
<1>1. /\ PartitionOf[e] = pt /\ receiver[pt] = "linked" /\ step[pt] = "idle"
      /\ offset[e] = next[pt] /\ offset[e] \in Nat /\ offset[e] > 0
      /\ checkpoint[pt] \in Nat /\ next'[pt] = next[pt] + 1 /\ copies[e] \in Nat
  BY DEF HubInv, ConsumerTypeOK, ReceiverInv, OnEventReceived
<1>2. Handled(pt) = checkpoint[pt] /\ (checkpoint[pt] > 0 => next[pt] \in {checkpoint[pt], checkpoint[pt] + 1})
  BY <1>1 DEF HubInv, ResumeInv, Handled
<1>3. ASSUME NEW d \in HubEvents, PartitionOf[d] = pt, copies[d] > 0
      PROVE  offset[d] \in Nat /\ offset[d] > 0
             /\ (offset[d] < next[pt] \/ offset[d] = checkpoint[pt])
  BY <1>1, <1>2, <1>3 DEF HubInv, ConsumerTypeOK, StoredInv
<1>4. \A d \in HubEvents : PartitionOf[d] = pt /\ copies[d] > 0 => offset[d] <= offset[e]
  BY <1>1, <1>2, <1>3
<1>5. copies[e] < IF checkpoint[pt] = offset[e] THEN 2 ELSE 1
  <2>1. CASE checkpoint[pt] = offset[e]
    BY <1>1, <2>1 DEF HubInv, LastInv
  <2>2. CASE checkpoint[pt] # offset[e]
    BY <1>1, <1>3, <2>2
  <2> QED BY <2>1, <2>2
<1> QED BY <1>1, <1>2, <1>4, <1>5

LEMMA ReceivedHub ==
    ASSUME HubInv, NEW pt \in Partitions, NEW e \in HubEvents, OnEventReceived(pt, e)
    PROVE  HubInv'
<1>1. /\ PartitionOf[e] = pt /\ receiver[pt] = "linked" /\ step[pt] = "idle"
      /\ next' = [next EXCEPT ![pt] = offset[e] + 1]
      /\ UNCHANGED <<hubVars, starter, cancelled, receiver, copies>>
      /\ \/ /\ step' = [step EXCEPT ![pt] = "insert"]
            /\ current' = [current EXCEPT ![pt] = e]
            /\ checkpoint' = checkpoint
         \/ /\ UNCHANGED <<step, current>>
            /\ checkpoint' = [checkpoint EXCEPT ![pt] = offset[e]]
            /\ e \notin Valid
  BY DEF HubInv, ConsumerTypeOK, OnEventReceived
<1>2. /\ offset[e] \in Nat /\ offset[e] > 0
      /\ checkpoint[pt] \in {0, offset[e], offset[e] - 1}
      /\ copies[e] < IF checkpoint[pt] = offset[e] THEN 2 ELSE 1
      /\ \A d \in HubEvents : PartitionOf[d] = pt /\ copies[d] > 0 => offset[d] <= offset[e]
  BY ReceivedIsLatest
<1>3. ConsumerTypeOK'
  BY <1>1, <1>2 DEF HubInv, ConsumerTypeOK, hubVars
<1>4. PlacesInv' /\ AtMostTwice'
  BY <1>1 DEF HubInv, PlacesInv, AtMostTwice, hubVars
<1>5. ReceiverInv'
  BY <1>1, <1>2 DEF HubInv, ConsumerTypeOK, PlacesInv, ReceiverInv, hubVars
<1>6. HandlerInv'
  BY <1>1, <1>2, NoEventAssumption DEF HubInv, ConsumerTypeOK, HandlerInv, hubVars
<1>7. /\ Handled(pt)' = offset[e]
      /\ \A qt \in Partitions \ {pt} :
           /\ Handled(qt)' = Handled(qt) /\ next'[qt] = next[qt]
           /\ step'[qt] = step[qt] /\ current'[qt] = current[qt] /\ checkpoint'[qt] = checkpoint[qt]
      /\ next'[pt] = offset[e] + 1
      /\ step'[pt] = "idle" \/ checkpoint'[pt] = checkpoint[pt]
  BY <1>1 DEF HubInv, ConsumerTypeOK, Handled, hubVars
<1>8. ResumeInv'
  BY <1>1, <1>2, <1>7 DEF HubInv, ResumeInv
<1>9. StoredInv'
  BY <1>1, <1>2, <1>7, PartitionOfAssumption DEF HubInv, ConsumerTypeOK, StoredInv, hubVars
<1>10. OrderInv' /\ CopiesInv'
  BY <1>1, <1>2, <1>7 DEF HubInv, ConsumerTypeOK, OrderInv, CopiesInv, hubVars
<1>11. LastInv'
  <2> SUFFICES ASSUME NEW d \in HubEvents, offset[d] > 0, offset[d] = checkpoint'[PartitionOf[d]]
               PROVE  LastInv!(d)'
    BY <1>1 DEF LastInv, hubVars
  <2>1. CASE PartitionOf[d] # pt
    BY <1>1, <1>7, <2>1, PartitionOfAssumption DEF HubInv, LastInv, hubVars
  <2>2. CASE PartitionOf[d] = pt /\ step'[pt] # "idle"
    BY <1>1, <1>7, <2>2 DEF HubInv, LastInv, hubVars
  <2>3. CASE PartitionOf[d] = pt /\ step'[pt] = "idle"
    <3>1. offset[d] = offset[e] /\ e \notin Valid
      BY <1>1, <2>3 DEF HubInv, ConsumerTypeOK
    <3>2. d = e
      BY <1>1, <1>2, <2>3, <3>1 DEF HubInv, PlacesInv
    <3> QED BY <1>1, <1>2, <1>7, <3>1, <3>2 DEF hubVars
  <2> QED BY <2>1, <2>2, <2>3
<1> QED BY <1>3, <1>4, <1>5, <1>6, <1>8, <1>9, <1>10, <1>11 DEF HubInv

\* the other steps of a handler: to its push, or to its end
LEMMA HandlerHub ==
    ASSUME HubInv, NEW pt \in Partitions, Insert(pt) \/ Push(pt)
    PROVE  HubInv'
<1> DEFINE e == current[pt]
           deliveries == IF checkpoint[pt] = offset[e] THEN 2 ELSE 1
<1>1. /\ e \in HubEvents /\ PartitionOf[e] = pt
      /\ offset[e] \in Nat /\ offset[e] > 0 /\ copies[e] \in Nat
      /\ receiver[pt] \in {"linked", "ended"} /\ step[pt] # "idle"
      /\ Handled(pt) = offset[e]
      /\ UNCHANGED <<hubVars, starter, cancelled, receiver, next>>
  BY DEF HubInv, ConsumerTypeOK, HandlerInv, Handled, Insert, Push, receiverVars
<1>2. /\ copies' = [copies EXCEPT ![e] = copies'[e]]
      /\ copies'[e] \in Nat /\ copies[e] <= copies'[e] /\ copies'[e] <= deliveries
      /\ \/ /\ step' = [step EXCEPT ![pt] = "push"]
            /\ UNCHANGED <<current, checkpoint>>
            /\ copies'[e] > 0
         \/ /\ HandlerReturns(pt)
            /\ copies'[e] > 0 \/ e \in Failing
  <2>1. CASE Insert(pt)
    <3>1. copies[e] < deliveries
      BY <1>1, <2>1 DEF HubInv, CopiesInv, Insert
    <3> QED BY <1>1, <2>1, <3>1 DEF HubInv, ConsumerTypeOK, Insert, Inserted
  <2>2. CASE Push(pt)
    BY <1>1, <2>2 DEF HubInv, ConsumerTypeOK, CopiesInv, Push
  <2> QED BY <2>1, <2>2
<1>3. /\ Handled(pt)' = offset[e]
      /\ step'[pt] = "push" => /\ copies'[e] > 0 /\ current'[pt] = e
                               /\ checkpoint'[pt] = checkpoint[pt]
      /\ step'[pt] # "push" => /\ copies'[e] > 0 \/ e \in Failing
                               /\ current'[pt] = NoEvent /\ step'[pt] = "idle"
                               /\ checkpoint'[pt] = offset[e]
      /\ \A qt \in Partitions \ {pt} :
           /\ Handled(qt)' = Handled(qt)
           /\ step'[qt] = step[qt] /\ current'[qt] = current[qt] /\ checkpoint'[qt] = checkpoint[qt]
      /\ \A d \in HubEvents \ {e} : copies'[d] = copies[d]
  BY <1>1, <1>2 DEF HubInv, ConsumerTypeOK, HandlerReturns, Handled, hubVars
<1>4. ConsumerTypeOK'
  BY <1>1, <1>2 DEF HubInv, ConsumerTypeOK, HandlerReturns, hubVars
<1>5. PlacesInv'
  BY <1>1 DEF HubInv, PlacesInv, hubVars
<1>6. AtMostTwice'
  BY <1>2, <1>3 DEF HubInv, AtMostTwice
<1>7. ReceiverInv'
  BY <1>1, <1>3 DEF HubInv, PlacesInv, ReceiverInv, hubVars
<1>8. HandlerInv'
  BY <1>1, <1>3, NoEventAssumption DEF HubInv, ConsumerTypeOK, HandlerInv, hubVars
<1>9. ResumeInv'
  BY <1>1, <1>3 DEF HubInv, ConsumerTypeOK, ResumeInv
<1>10. StoredInv'
  BY <1>1, <1>3, PartitionOfAssumption DEF HubInv, ConsumerTypeOK, StoredInv, hubVars
<1>11. OrderInv'
  <2> SUFFICES ASSUME NEW qt \in Partitions, step'[qt] # "idle",
                      NEW d \in HubEvents, PartitionOf[d] = qt, copies'[d] > 0
               PROVE  offset[d] <= offset[current'[qt]]
    BY <1>1 DEF OrderInv, hubVars
  <2>1. CASE d = e
    BY <1>1, <1>3, <2>1
  <2>2. CASE d # e
    BY <1>1, <1>3, <2>2 DEF HubInv, OrderInv
  <2> QED BY <2>1, <2>2
<1>12. CopiesInv'
  <2> SUFFICES ASSUME NEW qt \in Partitions, step'[qt] # "idle" PROVE CopiesInv!(qt)'
    BY DEF CopiesInv
  <2>1. CASE qt = pt
    BY <1>1, <1>2, <1>3, <2>1 DEF hubVars
  <2>2. CASE qt # pt
    <3>1. current[qt] # e /\ current[qt] \in HubEvents /\ step[qt] # "idle"
      BY <1>1, <1>3, <2>2 DEF HubInv, ConsumerTypeOK, HandlerInv
    <3> QED BY <1>1, <1>3, <2>2, <3>1 DEF HubInv, CopiesInv, hubVars
  <2> QED BY <2>1, <2>2
<1>13. LastInv'
  <2> SUFFICES ASSUME NEW d \in HubEvents, offset[d] > 0, offset[d] = checkpoint'[PartitionOf[d]]
               PROVE  LastInv!(d)'
    BY <1>1 DEF LastInv, hubVars
  <2>1. CASE PartitionOf[d] # pt
    BY <1>1, <1>3, <2>1, PartitionOfAssumption DEF HubInv, LastInv, hubVars
  <2>2. CASE PartitionOf[d] = pt /\ step'[pt] = "push"
    <3>1. copies[d] <= copies'[d] /\ copies[d] \in Nat /\ copies'[d] \in Nat
      BY <1>2, <1>3 DEF HubInv, ConsumerTypeOK
    <3>2. copies'[d] = 0 => d \in Failing \/ d \notin Valid
      BY <1>3, <2>2, <3>1 DEF HubInv, LastInv
    <3> QED BY <1>1, <1>3, <2>2, <3>2 DEF hubVars
  <2>3. CASE PartitionOf[d] = pt /\ step'[pt] # "push"
    <3>1. d = e
      BY <1>1, <1>3, <2>3 DEF HubInv, PlacesInv
    <3>2. receiver[pt] = "linked" /\ next[pt] = offset[e] => checkpoint[pt] = offset[e] - 1
      BY <1>1 DEF HubInv, ConsumerTypeOK, ResumeInv
    <3>3. receiver[pt] = "linked" /\ next[pt] = offset[e] => copies'[e] <= 1
      BY <1>1, <1>2, <3>2
    <3> QED BY <1>1, <1>3, <2>3, <3>1, <3>3 DEF hubVars
  <2> QED BY <2>1, <2>2, <2>3
<1> QED BY <1>4, <1>5, <1>6, <1>7, <1>8, <1>9, <1>10, <1>11, <1>12, <1>13 DEF HubInv

LEMMA EndHub ==
    ASSUME HubInv, ProcessEnds
    PROVE  HubInv'
<1>1. ConsumerTypeOK'
  BY DEF HubInv, ConsumerTypeOK, ProcessEnds, Starters, Receivers, hubVars
<1>2. PlacesInv' /\ AtMostTwice'
  BY DEF HubInv, PlacesInv, AtMostTwice, ProcessEnds, hubVars
<1>3. ReceiverInv' /\ HandlerInv' /\ ResumeInv' /\ StoredInv'
  BY PartitionOfAssumption
     DEF HubInv, ConsumerTypeOK, ReceiverInv, HandlerInv, ResumeInv, StoredInv, ProcessEnds, hubVars
<1>4. OrderInv' /\ CopiesInv' /\ LastInv'
  BY PartitionOfAssumption DEF OrderInv, CopiesInv, LastInv, ProcessEnds
<1> QED BY <1>1, <1>2, <1>3, <1>4 DEF HubInv

LEMMA StutterHub == HubInv /\ UNCHANGED cvars => HubInv'
<1> SUFFICES ASSUME HubInv, UNCHANGED cvars PROVE HubInv'
  OBVIOUS
<1> QED BY NoNewLinks DEF HubInv, ConsumerTypeOK, ReceiverInv, cvars, receiverVars

LEMMA NextHub == NoEarlyBreak /\ HubInv /\ [ConsumerNext]_cvars => HubInv'
BY PublishHub, StarterHub, ReceiverHub, ReceivedHub, HandlerHub, EndHub, StutterHub
   DEF ConsumerNext, ConsumerStep, HandlerStep

(***************************************************************************)
(* HubInvHolds: the consumer's invariant, in every state.                  *)
(***************************************************************************)
THEOREM HubInvHolds ==
    ASSUME NoEarlyBreak
    PROVE  ConsumerSpec => []HubInv
<1>1. HubInv /\ [ConsumerNext]_cvars => HubInv'
  BY NextHub
<1> QED BY <1>1, InitHub, PTL DEF ConsumerSpec

(***************************************************************************)
(* AtMostTwiceHolds: a replica inserts no event three times, however its   *)
(* inserts fail and whenever links, receivers and its process end and      *)
(* start again (consumer.go:57, 92, 101 and 129): what is delivered again  *)
(* is the event that was in the handler, whose second delivery moves the   *)
(* place behind it.                                                        *)
(***************************************************************************)
THEOREM AtMostTwiceHolds ==
    ASSUME NoEarlyBreak
    PROVE  ConsumerSpec => []AtMostTwice
<1>1. HubInv => AtMostTwice
  BY DEF HubInv
<1> QED BY <1>1, HubInvHolds, PTL

(***************************************************************************)
(* The order of what is stored.                                            *)
(***************************************************************************)
\* only an insert stores an event, and the one that it stores is the latest
LEMMA StoresLatest ==
    ASSUME HubInv, [ConsumerNext]_cvars,
           NEW d \in HubEvents, NEW e \in HubEvents, PartitionOf[d] = PartitionOf[e],
           offset[d] < offset[e], copies[e] > 0
    PROVE  copies'[d] = copies[d]
<1> USE DEF HubInv, ConsumerTypeOK
<1>1. ASSUME NEW pt \in Partitions, Insert(pt) PROVE copies'[d] = copies[d]
  <2>1. d # current[pt]
    BY <1>1 DEF Insert, HandlerInv, OrderInv
  <2> QED BY <1>1, <2>1 DEF Insert, Inserted
<1>2. CASE ~ \E pt \in Partitions : Insert(pt)
  BY <1>2 DEF ConsumerNext, ConsumerStep, HandlerStep, ReceiverStep, Publish, OnEventReceived,
     StartEventHubConsumer, GetRuntimeInformation, Close, Cancel, ProcessEnds, Receive,
     ReceiverEnds, LinkRecovers, Push, cvars
<1> QED BY <1>1, <1>2

(***************************************************************************)
(* InOrderHolds: the documents of a partition are inserted in the order of *)
(* its events, across every failure and restart: what a new link sends     *)
(* again is the last event that was stored, a receiver that starts again   *)
(* starts behind all of them, and the handler of one that has ended holds  *)
(* an event that is not earlier (consumer.go:57-129).                      *)
(***************************************************************************)
THEOREM InOrderHolds ==
    ASSUME NoEarlyBreak
    PROVE  ConsumerSpec => InOrder
<1> DEFINE Latest == \A d, e \in HubEvents :
                       PartitionOf[d] = PartitionOf[e] /\ 0 < offset[d]
                         /\ offset[d] < offset[e] /\ copies[e] > 0
                       => copies'[d] = copies[d]
<1>1. HubInv /\ [ConsumerNext]_cvars => [Latest]_cvars
  BY StoresLatest
<1> QED BY <1>1, HubInvHolds, PTL DEF ConsumerSpec, InOrder

(***************************************************************************)
(* ConsumerImplementsDelivery.  A fate changes only as EventDelivery says: *)
(* the lemmas give, for each step, the events whose fate it changes.       *)
(***************************************************************************)
LEMMA FateIs ==
    ASSUME HubInv, NEW e \in HubEvents
    PROVE  /\ Fate(e) = "unsent" <=> offset[e] = 0
           /\ Fate(e) \in {"stored", "twice"} <=> copies[e] > 0
           /\ Fate(e) = "stored" <=> copies[e] = 1
           /\ Fate(e) = "owed" <=> offset[e] > 0 /\ copies[e] = 0 /\ Owed(e)
           /\ Fate(e) = "lost" <=> offset[e] > 0 /\ copies[e] = 0 /\ ~Owed(e)
<1>1. /\ offset[e] \in Nat /\ copies[e] \in Nat
      /\ copies[e] > 0 => offset[e] > 0
  BY DEF HubInv, ConsumerTypeOK, StoredInv
<1> QED BY <1>1 DEF Fate

\* the fate of an event none of whose parts changes
LEMMA SameFate ==
    ASSUME NEW e \in HubEvents,
           offset'[e] = offset[e], copies'[e] = copies[e],
           copies[e] = 0 => (Owed(e)' <=> Owed(e))
    PROVE  Fate(e)' = Fate(e)
BY DEF Fate

LEMMA PublishImplements ==
    ASSUME HubInv, HubInv', NEW e \in HubEvents, Publish(e)
    PROVE  Delivery!Send(e)
<1>1. \A d \in HubEvents \ {e} : Fate(d)' = Fate(d)
  <2> SUFFICES ASSUME NEW d \in HubEvents, d # e PROVE Fate(d)' = Fate(d)
    OBVIOUS
  <2>1. offset'[d] = offset[d] /\ copies'[d] = copies[d]
    BY DEF HubInv, ConsumerTypeOK, Publish
  <2>2. Owed(d)' <=> Owed(d)
    BY <2>1 DEF Owed, Publish, receiverVars, handlerVars
  <2> QED BY <2>1, <2>2, SameFate
<1>2. Fate(e) = "unsent"
  BY FateIs DEF Publish
<1>3. offset'[e] > 0 /\ copies'[e] = 0
  BY PartitionOfAssumption DEF HubInv, ConsumerTypeOK, StoredInv, Publish
<1>4. Fate(e)' \in {"owed", "lost"}
  BY <1>3 DEF Fate
<1>5. offset' = [offset EXCEPT ![e] = offset'[e]]
  BY DEF HubInv, ConsumerTypeOK, Publish
<1>6. \A d \in HubEvents : PartitionOf[d] = PartitionOf[e] => offset[d] < offset'[e]
  BY PartitionOfAssumption DEF HubInv, ConsumerTypeOK, PlacesInv, Publish
<1> QED BY <1>1, <1>2, <1>4, <1>5, <1>6 DEF Delivery!Send

LEMMA StarterImplements ==
    ASSUME HubInv, HubInv', StartEventHubConsumer \/ GetRuntimeInformation \/ Cancel
    PROVE  UNCHANGED Delivery!dvars
<1>1. offset' = offset /\ copies' = copies /\ step' = step /\ current' = current /\ next' = next
  BY DEF StartEventHubConsumer, GetRuntimeInformation, Cancel, hubVars, receiverVars, handlerVars
<1>2. \A pt \in Partitions : receiver'[pt] = "linked" <=> receiver[pt] = "linked"
  <2>1. CASE GetRuntimeInformation
    BY <2>1 DEF HubInv, ReceiverInv, GetRuntimeInformation
  <2>2. CASE StartEventHubConsumer \/ Cancel
    BY <2>2 DEF StartEventHubConsumer, Cancel, receiverVars
  <2> QED BY <2>1, <2>2
<1>3. \A e \in HubEvents : Fate(e)' = Fate(e)
  <2> SUFFICES ASSUME NEW e \in HubEvents PROVE Fate(e)' = Fate(e)
    OBVIOUS
  <2>1. Owed(e)' <=> Owed(e)
    BY <1>1, <1>2, PartitionOfAssumption DEF Owed
  <2> QED BY <1>1, <2>1, SameFate
<1> QED BY <1>1, <1>3 DEF Delivery!dvars

(***************************************************************************)
(* Receivers that end, with or without their handlers, or that start over: *)
(* of the events that are owed, those that wait in their partitions are    *)
(* given up.                                                               *)
(***************************************************************************)
LEMMA EndsImplements ==
    ASSUME HubInv, HubInv',
           offset' = offset, copies' = copies,
           \A e \in HubEvents : Owed(e)' => Owed(e),
           \A d, e \in HubEvents :
               /\ PartitionOf[d] = PartitionOf[e] /\ offset[d] < offset[e]
               /\ offset[d] > 0 /\ Owed(d) /\ ~Owed(d)' /\ Owed(e)
               => ~Owed(e)'
    PROVE  \E S \in SUBSET HubEvents : Delivery!GiveUp(S)
<1> DEFINE S == {e \in HubEvents : Fate(e) = "owed" /\ Fate(e)' = "lost"}
<1>1. \A e \in HubEvents : /\ copies'[e] = copies[e] /\ offset'[e] = offset[e]
                           /\ Fate(e)' = "lost" <=> offset'[e] > 0 /\ copies'[e] = 0 /\ ~Owed(e)'
                           /\ Fate(e)' = "owed" <=> offset'[e] > 0 /\ copies'[e] = 0 /\ Owed(e)'
  <2> SUFFICES ASSUME NEW e \in HubEvents
               PROVE  /\ copies'[e] = copies[e] /\ offset'[e] = offset[e]
                      /\ Fate(e)' = "lost" <=> offset'[e] > 0 /\ copies'[e] = 0 /\ ~Owed(e)'
                      /\ Fate(e)' = "owed" <=> offset'[e] > 0 /\ copies'[e] = 0 /\ Owed(e)'
    OBVIOUS
  <2>1. offset'[e] \in Nat /\ copies'[e] \in Nat
    BY DEF HubInv, ConsumerTypeOK
  <2> QED BY <2>1 DEF Fate
<1>2. \A e \in HubEvents : Fate(e)' = IF e \in S THEN "lost" ELSE Fate(e)
  <2> SUFFICES ASSUME NEW e \in HubEvents
               PROVE  Fate(e)' = IF e \in S THEN "lost" ELSE Fate(e)
    OBVIOUS
  <2>1. CASE Fate(e) = "owed"
    BY <1>1, <2>1, FateIs
  <2>2. CASE Fate(e) # "owed" /\ (Owed(e)' <=> Owed(e))
    BY <1>1, <2>2, SameFate
  <2>3. CASE Fate(e) # "owed" /\ ~(Owed(e)' <=> Owed(e))
    <3>1. offset[e] = 0 \/ copies[e] > 0
      BY <2>3, FateIs DEF HubInv, ConsumerTypeOK
    <3> QED BY <1>1, <2>3, <3>1 DEF Fate, HubInv, ConsumerTypeOK
  <2> QED BY <2>1, <2>2, <2>3
<1>3. ASSUME NEW d \in S, NEW e \in HubEvents, PartitionOf[d] = PartitionOf[e],
             offset[d] < offset[e], Fate(e) = "owed"
      PROVE  e \in S
  <2>1. offset[d] > 0 /\ Owed(d) /\ ~Owed(d)'
    BY <1>1, FateIs
  <2>2. Owed(e) /\ offset[e] > 0 /\ copies[e] = 0
    BY <1>3, FateIs
  <2>3. ~Owed(e)'
    BY <1>3, <2>1, <2>2
  <2> QED BY <1>1, <1>3, <2>2, <2>3
<1>4. Delivery!GiveUp(S)
  BY <1>2, <1>3 DEF Delivery!GiveUp, Delivery!Earlier
<1> QED BY <1>4

LEMMA CloseImplements ==
    ASSUME HubInv, HubInv', Close \/ ProcessEnds \/ \E pt \in Partitions : ReceiverEnds(pt)
    PROVE  \E S \in SUBSET HubEvents : Delivery!GiveUp(S)
<1>1. offset' = offset /\ copies' = copies
  BY DEF Close, ProcessEnds, ReceiverEnds, hubVars
<1>2. \/ step' = [pt \in Partitions |-> "idle"]
      \/ step' = step /\ current' = current
  BY DEF Close, ProcessEnds, ReceiverEnds, handlerVars
<1>3. \A pt \in Partitions : receiver'[pt] = "linked" => receiver[pt] = "linked" /\ next'[pt] = next[pt]
  BY DEF HubInv, ConsumerTypeOK, Close, ProcessEnds, ReceiverEnds
<1>4. \A e \in HubEvents : Owed(e)' => Owed(e)
  BY <1>1, <1>2, <1>3, PartitionOfAssumption DEF Owed
<1>5. ASSUME NEW d \in HubEvents, NEW e \in HubEvents,
             PartitionOf[d] = PartitionOf[e], offset[d] < offset[e],
             offset[d] > 0, Owed(d), ~Owed(d)', Owed(e)
      PROVE  ~Owed(e)'
  <2> DEFINE pt == PartitionOf[e]
  <2>1. pt \in Partitions /\ offset[d] \in Nat /\ offset[e] \in Nat /\ next[pt] \in Nat
    BY PartitionOfAssumption DEF HubInv, ConsumerTypeOK
  <2>2. SUFFICES ASSUME Owed(e)' PROVE FALSE
    OBVIOUS
  <2>3. CASE receiver'[pt] = "linked" /\ next'[pt] <= offset[e]
    <3>1. receiver[pt] = "linked" /\ next'[pt] = next[pt]
      BY <1>3, <2>1, <2>3
    <3>2. ~(next[pt] <= offset[d])
      BY <1>1, <1>5, <2>3, <3>1 DEF Owed
    <3>3. step[pt] = "insert" /\ current[pt] = d
      BY <1>5, <3>2 DEF Owed
    <3>4. step'[pt] = "idle"
      BY <1>2, <1>5, <2>1, <3>3 DEF Owed
    <3> QED BY <2>1, <2>3, <3>4, <3>3 DEF Close, ProcessEnds, ReceiverEnds, handlerVars
  <2>4. CASE step'[pt] = "insert" /\ current'[pt] = e
    <3>1. step[pt] = "insert" /\ current[pt] = e
      BY <1>2, <2>1, <2>4
    <3>2. receiver[pt] = "linked" => next[pt] \in {offset[e], offset[e] + 1}
      BY <2>1, <3>1 DEF HubInv, ResumeInv, Handled
    <3> QED BY <1>5, <2>1, <3>1, <3>2 DEF Owed
  <2> QED BY <1>1, <2>2, <2>3, <2>4 DEF Owed
<1> QED BY <1>1, <1>4, <1>5, EndsImplements

LEMMA ReceiveImplements ==
    ASSUME HubInv, HubInv', NEW pt \in Partitions, Receive(pt)
    PROVE  UNCHANGED Delivery!dvars
<1>1. offset' = offset /\ copies' = copies /\ step' = step /\ current' = current
  BY DEF Receive, hubVars, handlerVars
<1>2. \A e \in HubEvents : Fate(e)' = Fate(e)
  <2> SUFFICES ASSUME NEW e \in HubEvents PROVE Fate(e)' = Fate(e)
    OBVIOUS
  <2>1. CASE PartitionOf[e] # pt
    <3>1. receiver'[PartitionOf[e]] = receiver[PartitionOf[e]] /\ next'[PartitionOf[e]] = next[PartitionOf[e]]
      BY <2>1, PartitionOfAssumption DEF HubInv, ConsumerTypeOK, Receive
    <3> QED BY <1>1, <3>1, SameFate DEF Owed
  <2>2. CASE PartitionOf[e] = pt
    <3>1. offset[e] \in Nat /\ size[pt] \in Nat /\ offset[e] <= size[pt]
      BY <2>2 DEF HubInv, ConsumerTypeOK, PlacesInv
    <3>2. receiver[pt] # "linked" /\ next'[pt] = size[pt] + 1
      BY DEF HubInv, ConsumerTypeOK, Receive
    <3>3. ~(next'[pt] <= offset'[e])
      BY <1>1, <3>1, <3>2
    <3> QED BY <1>1, <2>2, <3>2, <3>3, SameFate DEF Owed
  <2> QED BY <2>1, <2>2
<1> QED BY <1>1, <1>2 DEF Delivery!dvars

\* a link that is replaced sends again what may be skipped, or has been stored
LEMMA RecoversImplements ==
    ASSUME HubInv, HubInv', NoEarlyBreak, NEW pt \in Partitions, LinkRecovers(pt)
    PROVE  \/ \E S \in SUBSET HubEvents : Delivery!GiveUp(S)
           \/ \E e \in HubEvents : Delivery!Skip(e)
           \/ UNCHANGED Delivery!dvars
<1>1. /\ offset' = offset /\ copies' = copies /\ step' = step /\ current' = current
      /\ receiver' = receiver /\ receiver[pt] = "linked"
      /\ next[pt] \in Nat /\ next'[pt] \in Nat /\ checkpoint[pt] \in Nat /\ size[pt] \in Nat
      /\ \A qt \in Partitions \ {pt} : next'[qt] = next[qt]
  BY DEF HubInv, ConsumerTypeOK, LinkRecovers, hubVars, handlerVars
<1>2. \A e \in HubEvents : PartitionOf[e] # pt => (Owed(e)' <=> Owed(e))
  BY <1>1, PartitionOfAssumption DEF Owed
<1>3. CASE step[pt] = "idle" /\ checkpoint[pt] = 0
  <2>1. \A e \in HubEvents : PartitionOf[e] = pt => ~Owed(e)'
    BY <1>1, <1>3 DEF HubInv, ConsumerTypeOK, PlacesInv, LinkRecovers, Owed
  <2> QED BY <1>1, <1>2, <2>1, EndsImplements
<1>4. CASE ~(step[pt] = "idle" /\ checkpoint[pt] = 0)
  <2>1. /\ checkpoint[pt] > 0 /\ next'[pt] = checkpoint[pt] + 1
        /\ Handled(pt) \in Nat
        /\ next[pt] \in {Handled(pt), Handled(pt) + 1}
        /\ next'[pt] \in {Handled(pt), Handled(pt) + 1}
        /\ step[pt] = "idle" => checkpoint[pt] = Handled(pt)
    BY <1>1, <1>4
       DEF HubInv, ConsumerTypeOK, HandlerInv, ResumeInv, Handled, LinkRecovers, NoEarlyBreak
  <2>2. ASSUME NEW e \in HubEvents, PartitionOf[e] = pt, offset[e] # Handled(pt)
        PROVE  Owed(e)' <=> Owed(e)
    <3>1. offset[e] \in Nat
      BY DEF HubInv, ConsumerTypeOK
    <3> QED BY <1>1, <2>1, <2>2, <3>1 DEF Owed
  <2>3. ASSUME NEW e \in HubEvents, PartitionOf[e] = pt, offset[e] = Handled(pt), step[pt] # "idle"
        PROVE  copies[e] = 0 => (Owed(e)' <=> Owed(e))
    <3>1. e = current[pt]
      BY <2>3 DEF HubInv, ConsumerTypeOK, HandlerInv, PlacesInv, Handled
    <3>2. step[pt] \in {"insert", "push"} /\ (step[pt] = "push" => copies[e] # 0)
      BY <2>3, <3>1 DEF HubInv, ConsumerTypeOK, CopiesInv
    <3> QED BY <1>1, <2>3, <3>1, <3>2 DEF Owed
  <2>4. CASE \A e \in HubEvents : copies[e] = 0 => (Owed(e)' <=> Owed(e))
    BY <1>1, <2>4, SameFate DEF Delivery!dvars
  <2>5. CASE \E e \in HubEvents : copies[e] = 0 /\ ~(Owed(e)' <=> Owed(e))
    <3>1. PICK e \in HubEvents : copies[e] = 0 /\ ~(Owed(e)' <=> Owed(e))
      BY <2>5
    <3>2. PartitionOf[e] = pt /\ offset[e] = Handled(pt) /\ step[pt] = "idle"
          /\ offset[e] = checkpoint[pt] /\ offset[e] \in Nat /\ offset[e] > 0
      BY <1>2, <2>1, <2>2, <2>3, <3>1 DEF HubInv, ConsumerTypeOK
    <3>3. Owed(e) /\ ~Owed(e)' /\ next[pt] = offset[e]
      BY <1>1, <2>1, <3>1, <3>2 DEF Owed
    <3>4. e \in Failing \/ e \notin Valid
      BY <3>1, <3>2 DEF HubInv, LastInv
    <3>5. \A d \in HubEvents \ {e} : Fate(d)' = Fate(d)
      <4> SUFFICES ASSUME NEW d \in HubEvents, d # e PROVE Fate(d)' = Fate(d)
        OBVIOUS
      <4>1. PartitionOf[d] = pt => offset[d] # Handled(pt)
        BY <3>2 DEF HubInv, PlacesInv
      <4> QED BY <1>1, <1>2, <2>2, <4>1, SameFate
    <3>6. Fate(e) = "owed" /\ Fate(e)' = "lost"
      BY <1>1, <3>1, <3>2, <3>3, FateIs DEF Fate
    <3>7. ASSUME NEW d \in HubEvents, PartitionOf[d] = pt, offset[d] < offset[e]
          PROVE  Fate(d) # "owed"
      <4>1. offset[d] \in Nat
        BY DEF HubInv, ConsumerTypeOK
      <4>2. ~Owed(d)
        BY <3>2, <3>3, <3>7, <4>1 DEF Owed
      <4> QED BY <4>2, FateIs
    <3> QED BY <1>1, <3>2, <3>4, <3>5, <3>6, <3>7
            DEF Delivery!Skip, Delivery!First, Delivery!Earlier, Delivery!dvars
  <2> QED BY <2>4, <2>5
<1> QED BY <1>3, <1>4

(***************************************************************************)
(* The event a handler is given, and the one it inserts, are the first of  *)
(* those that are owed in their partition, or have been stored already.    *)
(***************************************************************************)
LEMMA HandlesFirst ==
    ASSUME HubInv, NEW pt \in Partitions, NEW e \in HubEvents, PartitionOf[e] = pt,
           \/ receiver[pt] = "linked" /\ step[pt] = "idle" /\ next[pt] = offset[e]
           \/ step[pt] = "insert" /\ current[pt] = e
    PROVE  /\ offset[e] \in Nat /\ offset[e] > 0 /\ Owed(e)
           /\ copies[e] = 0 => Delivery!First(e)
<1>1. offset[e] \in Nat /\ next[pt] \in Nat
  BY DEF HubInv, ConsumerTypeOK
<1>2. offset[e] > 0
  BY <1>1 DEF HubInv, ReceiverInv, HandlerInv
<1>3. Owed(e)
  BY <1>1, <1>2 DEF Owed
<1>4. receiver[pt] = "linked" => offset[e] <= next[pt]
  BY <1>1 DEF HubInv, ResumeInv, Handled
<1>5. ASSUME NEW d \in HubEvents, PartitionOf[d] = pt, offset[d] < offset[e]
      PROVE  Fate(d) # "owed"
  <2>1. offset[d] \in Nat
    BY DEF HubInv, ConsumerTypeOK
  <2>2. ~Owed(d)
    BY <1>1, <1>4, <1>5, <2>1 DEF Owed
  <2> QED BY <2>2, FateIs
<1>6. copies[e] = 0 => Delivery!First(e)
  BY <1>2, <1>3, <1>5, FateIs DEF Delivery!First, Delivery!Earlier
<1> QED BY <1>1, <1>2, <1>3, <1>6

LEMMA ReceivedImplements ==
    ASSUME HubInv, HubInv', NEW pt \in Partitions, NEW e \in HubEvents, OnEventReceived(pt, e)
    PROVE  Delivery!Skip(e) \/ UNCHANGED Delivery!dvars
<1>1. /\ offset' = offset /\ copies' = copies /\ receiver' = receiver
      /\ next[pt] = offset[e] /\ next'[pt] = offset[e] + 1
      /\ receiver[pt] = "linked" /\ step[pt] = "idle"
      /\ PartitionOf[e] = pt
  BY DEF HubInv, ConsumerTypeOK, OnEventReceived, hubVars
<1>2. /\ offset[e] \in Nat /\ offset[e] > 0 /\ Owed(e)
      /\ copies[e] = 0 => Delivery!First(e)
  BY <1>1, HandlesFirst
<1>3. \A d \in HubEvents \ {e} : Fate(d)' = Fate(d)
  <2> SUFFICES ASSUME NEW d \in HubEvents, d # e PROVE Fate(d)' = Fate(d)
    OBVIOUS
  <2>1. CASE PartitionOf[d] # pt
    <3>1. /\ next'[PartitionOf[d]] = next[PartitionOf[d]]
          /\ step'[PartitionOf[d]] = step[PartitionOf[d]]
          /\ current'[PartitionOf[d]] = current[PartitionOf[d]]
      BY <2>1, PartitionOfAssumption DEF HubInv, ConsumerTypeOK, OnEventReceived
    <3> QED BY <1>1, <3>1, SameFate DEF Owed
  <2>2. CASE PartitionOf[d] = pt
    <3>1. offset[d] \in Nat /\ offset[d] # offset[e]
      BY <1>1, <1>2, <2>2 DEF HubInv, ConsumerTypeOK, PlacesInv
    <3>2. ~(step'[pt] = "insert" /\ current'[pt] = d)
      BY <1>1 DEF HubInv, ConsumerTypeOK, OnEventReceived
    <3>3. Owed(d)' <=> Owed(d)
      BY <1>1, <1>2, <2>2, <3>1, <3>2 DEF Owed
    <3> QED BY <1>1, <3>3, SameFate
  <2> QED BY <2>1, <2>2
<1>4. CASE e \in Valid \/ copies[e] # 0
  <2>1. copies[e] = 0 => Owed(e)'
    BY <1>1, <1>4 DEF HubInv, ConsumerTypeOK, OnEventReceived, Owed
  <2>2. Fate(e)' = Fate(e)
    BY <1>1, <1>2, <2>1, SameFate
  <2> QED BY <1>1, <1>3, <2>2 DEF Delivery!dvars
<1>5. CASE e \notin Valid /\ copies[e] = 0
  <2>1. ~Owed(e)'
    BY <1>1, <1>2, <1>5 DEF OnEventReceived, Owed
  <2>2. Fate(e)' = "lost"
    BY <1>1, <1>2, <1>5, <2>1 DEF Fate
  <2> QED BY <1>1, <1>2, <1>3, <1>5, <2>2 DEF Delivery!Skip
<1> QED BY <1>4, <1>5

LEMMA InsertImplements ==
    ASSUME HubInv, HubInv', NEW pt \in Partitions, Insert(pt)
    PROVE  \/ \E e \in HubEvents : Delivery!Store(e) \/ Delivery!StoreAgain(e) \/ Delivery!Skip(e)
           \/ UNCHANGED Delivery!dvars
<1>0. PICK e \in HubEvents : e = current[pt]
  BY DEF HubInv, ConsumerTypeOK, HandlerInv, Insert
<1>1. /\ PartitionOf[e] = pt /\ step[pt] = "insert" /\ current[pt] = e
      /\ offset' = offset /\ next' = next /\ receiver' = receiver
      /\ step'[pt] # "insert"
  BY <1>0 DEF HubInv, ConsumerTypeOK, HandlerInv, Insert, HandlerReturns, hubVars, receiverVars
<1>2. /\ offset[e] \in Nat /\ offset[e] > 0 /\ Owed(e)
      /\ copies[e] = 0 => Delivery!First(e)
  BY <1>1, HandlesFirst
<1>3. copies[e] \in {0, 1}
  BY <1>1 DEF HubInv, ConsumerTypeOK, CopiesInv
<1>4. \/ copies' = [copies EXCEPT ![e] = copies[e] + 1]
      \/ copies' = copies /\ e \in Failing
  BY <1>1 DEF Insert, Inserted
<1>5. \A d \in HubEvents \ {e} : Fate(d)' = Fate(d)
  <2> SUFFICES ASSUME NEW d \in HubEvents, d # e PROVE Fate(d)' = Fate(d)
    OBVIOUS
  <2>1. copies'[d] = copies[d]
    BY <1>4 DEF HubInv, ConsumerTypeOK
  <2>2. CASE PartitionOf[d] # pt
    <3>1. /\ step'[PartitionOf[d]] = step[PartitionOf[d]]
          /\ current'[PartitionOf[d]] = current[PartitionOf[d]]
      BY <2>2, PartitionOfAssumption DEF HubInv, ConsumerTypeOK, Insert, HandlerReturns
    <3> QED BY <1>1, <2>1, <3>1, SameFate DEF Owed
  <2>3. CASE PartitionOf[d] = pt
    BY <1>1, <2>1, <2>3, SameFate DEF Owed
  <2> QED BY <2>2, <2>3
<1>6. CASE copies' = [copies EXCEPT ![e] = copies[e] + 1] /\ copies[e] = 0
  <2>1. Fate(e)' = "stored"
    BY <1>1, <1>2, <1>6 DEF Fate, HubInv, ConsumerTypeOK
  <2> QED BY <1>1, <1>2, <1>5, <1>6, <2>1 DEF Delivery!Store
<1>7. CASE copies' = [copies EXCEPT ![e] = copies[e] + 1] /\ copies[e] = 1
  <2>1. Fate(e) = "stored" /\ Fate(e)' = "twice"
    BY <1>1, <1>2, <1>7 DEF Fate, HubInv, ConsumerTypeOK
  <2>2. ASSUME NEW d \in HubEvents, PartitionOf[d] = pt, offset[e] < offset[d]
        PROVE  Fate(d) \notin {"stored", "twice"}
    <3>1. ~(copies[d] > 0)
      BY <1>1, <1>2, <2>2 DEF HubInv, ConsumerTypeOK, OrderInv
    <3> QED BY <3>1, FateIs
  <2> QED BY <1>1, <1>5, <2>1, <2>2 DEF Delivery!StoreAgain, Delivery!Earlier
<1>8. CASE copies' = copies /\ e \in Failing /\ copies[e] = 0 /\ ~Owed(e)'
  <2>1. Fate(e)' = "lost"
    BY <1>1, <1>2, <1>8 DEF Fate
  <2> QED BY <1>1, <1>2, <1>5, <1>8, <2>1 DEF Delivery!Skip
<1>9. CASE copies' = copies /\ (copies[e] = 0 => Owed(e)')
  <2>1. Fate(e)' = Fate(e)
    BY <1>1, <1>2, <1>9, SameFate
  <2> QED BY <1>1, <1>5, <2>1 DEF Delivery!dvars
<1> QED BY <1>3, <1>4, <1>6, <1>7, <1>8, <1>9

LEMMA PushImplements ==
    ASSUME HubInv, NEW pt \in Partitions, Push(pt)
    PROVE  UNCHANGED Delivery!dvars
<1>1. /\ offset' = offset /\ copies' = copies /\ receiver' = receiver /\ next' = next
      /\ step[pt] = "push" /\ step'[pt] = "idle"
      /\ \A qt \in Partitions \ {pt} : step'[qt] = step[qt] /\ current'[qt] = current[qt]
  BY DEF HubInv, ConsumerTypeOK, Push, HandlerReturns, hubVars, receiverVars
<1>2. \A e \in HubEvents : Fate(e)' = Fate(e)
  BY <1>1, SameFate, PartitionOfAssumption DEF Owed
<1> QED BY <1>1, <1>2 DEF Delivery!dvars

LEMMA InitImplements == ConsumerInit => Delivery!Init
BY DEF ConsumerInit, Delivery!Init, Fate

LEMMA StutterImplements == UNCHANGED cvars => UNCHANGED Delivery!dvars
BY DEF cvars, hubVars, receiverVars, handlerVars, Delivery!dvars, Fate, Owed

LEMMA NextImplements ==
    ASSUME NoEarlyBreak, HubInv, HubInv', [ConsumerNext]_cvars
    PROVE  [Delivery!Next]_(Delivery!dvars)
<1>1. ASSUME NEW e \in HubEvents, Publish(e) PROVE Delivery!Next
  BY <1>1, PublishImplements DEF Delivery!Next
<1>2. CASE StartEventHubConsumer \/ GetRuntimeInformation \/ Cancel
  BY <1>2, StarterImplements
<1>3. CASE Close \/ ProcessEnds \/ \E pt \in Partitions : ReceiverEnds(pt)
  BY <1>3, CloseImplements DEF Delivery!Next
<1>4. ASSUME NEW pt \in Partitions, Receive(pt) \/ Push(pt)
      PROVE  UNCHANGED Delivery!dvars
  BY <1>4, ReceiveImplements, PushImplements
<1>5. ASSUME NEW pt \in Partitions, LinkRecovers(pt)
      PROVE  [Delivery!Next]_(Delivery!dvars)
  BY <1>5, RecoversImplements DEF Delivery!Next
<1>6. ASSUME NEW pt \in Partitions, NEW e \in HubEvents, OnEventReceived(pt, e)
      PROVE  [Delivery!Next]_(Delivery!dvars)
  BY <1>6, ReceivedImplements DEF Delivery!Next
<1>7. ASSUME NEW pt \in Partitions, Insert(pt) PROVE [Delivery!Next]_(Delivery!dvars)
  BY <1>7, InsertImplements DEF Delivery!Next
<1>8. CASE UNCHANGED cvars
  BY <1>8, StutterImplements
<1> QED BY <1>1, <1>2, <1>3, <1>4, <1>5, <1>6, <1>7, <1>8
           DEF ConsumerNext, ConsumerStep, ReceiverStep, HandlerStep

(***************************************************************************)
(* ConsumerImplementsDelivery: in every run of the consumer an event       *)
(* becomes a notification at most twice, and then in a row, the events of  *)
(* a partition in their order, and one that was given up never does; only  *)
(* an event with a fault of its own is skipped (consumer.go:57-129).       *)
(***************************************************************************)
THEOREM ConsumerImplementsDelivery ==
    ASSUME NoEarlyBreak
    PROVE  ConsumerSpec => RefinesDelivery
<1>1. HubInv /\ HubInv' /\ [ConsumerNext]_cvars => [Delivery!Next]_(Delivery!dvars)
  BY NextImplements
<1> QED BY <1>1, InitImplements, HubInvHolds, PTL DEF ConsumerSpec, RefinesDelivery, Delivery!Spec
=============================================================================
