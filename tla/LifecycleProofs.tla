-------------------------- MODULE LifecycleProofs --------------------------
(***************************************************************************)
(* Proofs about Lifecycle: whatever main does, its consumer behaves as     *)
(* EventHubConsumer says, so that what is proved there holds of the        *)
(* process; and a shutdown drains the requests.                            *)
(***************************************************************************)
EXTENDS Lifecycle, EventHubConsumerProofs

LEMMA StepConsumer == [LifecycleNext]_lvars => [ConsumerNext]_cvars
<1> SUFFICES ASSUME [LifecycleNext]_lvars PROVE [ConsumerNext]_cvars
  OBVIOUS
<1>1. ASSUME NEW code, Exit(code) PROVE ConsumerNext
  BY <1>1 DEF Exit, ConsumerNext
<1>2. CASE Boot
  BY <1>1, <1>2 DEF Boot, Start, MongoConnection, InitRedis, GoConsumer, GoListen, Notify, ConsumerNext
<1>3. CASE Signal \/ Stop
  BY <1>1, <1>3 DEF Signal, Stop, Shutdown, ShutdownReturns, ShutdownTimesOut, ConsumerNext
<1>4. CASE ListenAndServe \/ ConsumerFails \/ Consume \/ Dies
  BY <1>1, <1>4 DEF ListenAndServe, ConsumerFails, Consume, Dies, ConsumerNext
<1>5. ASSUME NEW q \in Requests, Accept(q) \/ Respond(q) PROVE UNCHANGED cvars
  BY <1>5 DEF Accept, Respond
<1>6. ASSUME NEW e \in HubEvents, Produce(e) PROVE ConsumerNext
  BY <1>6 DEF Produce, ConsumerNext
<1>7. CASE UNCHANGED lvars
  BY <1>7 DEF lvars
<1> QED BY <1>2, <1>3, <1>4, <1>5, <1>6, <1>7 DEF LifecycleNext

(***************************************************************************)
(* LifecycleUsesConsumer: main starts, cancels and ends its consumer only  *)
(* in the ways EventHubConsumer allows (main.go:86-98 and 163).            *)
(***************************************************************************)
THEOREM LifecycleUsesConsumer == LifecycleSpec => ConsumerSpec
<1>1. LifecycleInit => ConsumerInit
  BY DEF LifecycleInit
<1>2. [LifecycleNext]_lvars => [ConsumerNext]_cvars
  BY StepConsumer
<1> QED BY <1>1, <1>2, PTL DEF LifecycleSpec, ConsumerSpec

(***************************************************************************)
(* LifecycleDelivers: over every sequence of starts, signals, failures and *)
(* deaths of the process, and of links that are replaced, the consumer's   *)
(* invariant holds, no event is stored three times or after a later one,   *)
(* and what becomes of the events is what EventDelivery promises.          *)
(***************************************************************************)
THEOREM LifecycleDelivers ==
    ASSUME NoEarlyBreak
    PROVE  LifecycleSpec => []HubInv /\ []AtMostTwice /\ InOrder /\ RefinesDelivery
BY LifecycleUsesConsumer, HubInvHolds, AtMostTwiceHolds, InOrderHolds, ConsumerImplementsDelivery

LEMMA InitShutdown == LifecycleInit => ShutdownInv
BY DEF LifecycleInit, ShutdownInv, LifecycleTypeOK, Mains

LEMMA ExitShutdown ==
    ASSUME ShutdownInv, NEW code \in {"ok", "failed"}, Exit(code)
    PROVE  ShutdownInv'
BY DEF ShutdownInv, LifecycleTypeOK, Mains, Exit

LEMMA StepShutdown == ShutdownInv /\ [LifecycleNext]_lvars => ShutdownInv'
<1> SUFFICES ASSUME ShutdownInv, [LifecycleNext]_lvars PROVE ShutdownInv'
  OBVIOUS
<1> USE DEF ShutdownInv, LifecycleTypeOK, Mains
<1>1. CASE Boot
  BY <1>1, ExitShutdown DEF Boot, Start, MongoConnection, InitRedis, GoConsumer, GoListen, Notify
<1>2. CASE Signal \/ Stop
  BY <1>2, ExitShutdown DEF Signal, Stop, Shutdown, ShutdownReturns, ShutdownTimesOut
<1>3. CASE ListenAndServe \/ ConsumerFails \/ Consume \/ Dies
  BY <1>3, ExitShutdown DEF ListenAndServe, ConsumerFails, Consume, Dies, mainVars
<1>4. ASSUME NEW q \in Requests, Accept(q) \/ Respond(q) PROVE ShutdownInv'
  BY <1>4 DEF Accept, Respond, mainVars
<1>5. ASSUME NEW e \in HubEvents, Produce(e) PROVE ShutdownInv'
  BY <1>5 DEF Produce, mainVars
<1>6. CASE UNCHANGED lvars
  BY <1>6 DEF lvars, mainVars
<1> QED BY <1>1, <1>2, <1>3, <1>4, <1>5, <1>6 DEF LifecycleNext

(***************************************************************************)
(* ShutdownInvHolds: while a shutdown waits, no listener is open or about  *)
(* to be opened.                                                           *)
(***************************************************************************)
THEOREM ShutdownInvHolds == LifecycleSpec => []ShutdownInv
BY InitShutdown, StepShutdown, PTL DEF LifecycleSpec

(***************************************************************************)
(* ShutdownDrainsHolds: a shutdown accepts no request, even if it          *)
(* overtakes the opening of the listener, and its clean end cuts none off  *)
(* (main.go:137, 165-168).                                                 *)
(***************************************************************************)
THEOREM ShutdownDrainsHolds == LifecycleSpec => ShutdownDrains
<1> DEFINE Drained == main = "shutdown" =>
                        /\ Running' \subseteq Running
                        /\ (exit' = "ok" /\ main' = "down") =>
                             \A q \in Requests : request'[q] = request[q]
<1>1. ShutdownInv /\ [LifecycleNext]_lvars => Drained
  <2> SUFFICES ASSUME ShutdownInv, [LifecycleNext]_lvars, main = "shutdown" PROVE Drained
    OBVIOUS
  <2>1. ASSUME NEW code, Exit(code) PROVE Running' = {}
    BY <2>1 DEF Exit, Running
  <2>2. CASE Stop
    <3>1. CASE ShutdownReturns
      BY <2>1, <3>1 DEF ShutdownReturns, Exit, Running, ShutdownInv, LifecycleTypeOK
    <3>2. CASE ShutdownTimesOut
      BY <2>1, <3>2 DEF ShutdownTimesOut, Exit
    <3> QED BY <2>2, <3>1, <3>2 DEF Stop, Shutdown
  <2>3. CASE ConsumerFails \/ Dies
    BY <2>1, <2>3 DEF ConsumerFails, Dies, Exit
  <2>4. CASE Consume
    BY <2>4 DEF Consume, mainVars, Running
  <2>5. ASSUME NEW q \in Requests, Accept(q) \/ Respond(q) PROVE Drained
    BY <2>5 DEF Accept, Respond, mainVars, Running, ShutdownInv, LifecycleTypeOK
  <2>6. ASSUME NEW e \in HubEvents, Produce(e) PROVE Drained
    BY <2>6 DEF Produce, mainVars, Running
  <2>7. CASE UNCHANGED lvars
    BY <2>7 DEF lvars, mainVars, Running
  <2>8. ~Boot /\ ~Signal /\ ~ListenAndServe
    BY DEF ShutdownInv, Boot, Start, MongoConnection, InitRedis, GoConsumer, GoListen, Notify,
           Signal, ListenAndServe
  <2> QED BY <2>2, <2>3, <2>4, <2>5, <2>6, <2>7, <2>8 DEF LifecycleNext
<1>2. ShutdownInv /\ [LifecycleNext]_lvars => [Drained]_lvars
  BY <1>1
<1> QED BY <1>2, ShutdownInvHolds, PTL DEF LifecycleSpec, ShutdownDrains
=============================================================================
