----------------------------- MODULE Lifecycle -----------------------------
(***************************************************************************)
(* main.go: the life of one process of the server, its HTTP server and its *)
(* consumer.  main connects to MongoDB and Redis, starts the consumer and  *)
(* the HTTP server as goroutines, and waits for a signal; then it cancels  *)
(* the consumer's context and shuts the HTTP server down.  Each of these   *)
(* goroutines can end the process: os.Exit, or the return of main, waits   *)
(* for nobody.  The deployment starts the process again.                   *)
(*                                                                         *)
(* Requests are the REST calls: an accepted one runs until its response is *)
(* sent.  (Shutdown does not wait for websockets, which are hijacked.)     *)
(***************************************************************************)
EXTENDS EventHubConsumer

CONSTANT Requests   \* the REST requests ever sent

VARIABLES
    main,       \* where main is
    exit,       \* how the last process has ended
    http,       \* the listener of the HTTP server
    request

mainVars == <<main, exit>>
lvars    == <<cvars, mainVars, http, request>>

Mains == {"down", "mongo", "redis", "consumer", "server", "notify", "serving",
          "cancelled", "shutdown"}

LifecycleTypeOK ==
    /\ main \in Mains
    /\ exit \in {"none", "ok", "failed"}
    /\ http \in {"none", "binding", "listening", "closed"}
    /\ request \in [Requests -> {"none", "running", "done", "cut"}]

LifecycleInit ==
    /\ ConsumerInit
    /\ main = "down"
    /\ exit = "none"
    /\ http = "none"
    /\ request = [q \in Requests |-> "none"]

\* the process is over, with whatever is still running in it
Exit(code) ==
    /\ main' = "down"
    /\ exit' = code
    /\ http' = "none"
    /\ request' = [q \in Requests |-> IF request[q] = "running" THEN "cut" ELSE request[q]]
    /\ ProcessEnds

Running == {q \in Requests : request[q] = "running"}

-----------------------------------------------------------------------------
(***************************************************************************)
(* main, from its first line to the signal.                                *)
(***************************************************************************)
\* the .env file of a development build may be missing
Start ==
    /\ main = "down"
    /\ \/ main' = "mongo" /\ UNCHANGED <<cvars, exit, http, request>>
       \/ "env" \in Failures /\ Exit("failed")

MongoConnection ==
    /\ main = "mongo"
    /\ \/ main' = "redis" /\ UNCHANGED <<cvars, exit, http, request>>
       \/ "mongo" \in Failures /\ Exit("failed")

InitRedis ==
    /\ main = "redis"
    /\ \/ main' = "consumer" /\ UNCHANGED <<cvars, exit, http, request>>
       \/ "redis" \in Failures /\ Exit("failed")

GoConsumer ==
    /\ main = "consumer"
    /\ StartEventHubConsumer
    /\ main' = "server"
    /\ UNCHANGED <<exit, http, request>>

GoListen ==
    /\ main = "server"
    /\ main' = "notify"
    /\ http' = "binding"
    /\ UNCHANGED <<cvars, exit, request>>

Notify ==
    /\ main = "notify"
    /\ main' = "serving"
    /\ UNCHANGED <<cvars, exit, http, request>>

(***************************************************************************)
(* SIGTERM or SIGINT.  Until signal.Notify has been called it ends the     *)
(* process.                                                                *)
(***************************************************************************)
Signal ==
    \/ main \notin {"down", "serving", "cancelled", "shutdown"} /\ Exit("failed")
    \/ /\ main = "serving"
       /\ main' = "cancelled"
       /\ Cancel
       /\ UNCHANGED <<exit, http, request>>

(***************************************************************************)
(* srv.Shutdown closes the listener, or sees to it that a late one is not  *)
(* opened; it waits for the requests that are running, and gives up after  *)
(* 5 seconds.                                                              *)
(***************************************************************************)
\* (mutant) a listener that is not open yet is forgotten
ShutdownMissesBinding ==
    /\ main = "cancelled"
    /\ main' = "shutdown"
    /\ http' = IF http = "listening" THEN "closed" ELSE http
    /\ UNCHANGED <<cvars, exit, request>>

Shutdown ==
    /\ main = "cancelled"
    /\ main' = "shutdown"
    /\ http' = "closed"
    /\ UNCHANGED <<cvars, exit, request>>

ShutdownReturns ==
    /\ main = "shutdown"
    /\ Running = {}
    /\ Exit("ok")

\* (mutant) context.Background() without a timeout
ShutdownWaits == FALSE /\ UNCHANGED lvars

ShutdownTimesOut ==
    /\ main = "shutdown"
    /\ Running # {}
    /\ Exit("failed")

(***************************************************************************)
(* The other goroutines.                                                   *)
(***************************************************************************)
ListenAndServe ==
    /\ http = "binding"
    /\ \/ http' = "listening" /\ UNCHANGED <<cvars, mainVars, request>>
       \/ "port" \in Failures /\ Exit("failed")

ConsumerFails ==
    /\ starter = "error"
    /\ Exit("failed")

Consume == ConsumerStep /\ UNCHANGED <<mainVars, http, request>>

Accept(q) ==
    /\ http = "listening"
    /\ request[q] = "none"
    /\ request' = [request EXCEPT ![q] = "running"]
    /\ UNCHANGED <<cvars, mainVars, http>>

Respond(q) ==
    /\ request[q] = "running"
    /\ request' = [request EXCEPT ![q] = "done"]
    /\ UNCHANGED <<cvars, mainVars, http>>

Produce(e) == Publish(e) /\ UNCHANGED <<mainVars, http, request>>

Dies ==
    /\ "crash" \in Failures
    /\ main # "down"
    /\ Exit("failed")

Boot == Start \/ MongoConnection \/ InitRedis \/ GoConsumer \/ GoListen \/ Notify

Stop == Shutdown \/ ShutdownReturns \/ ShutdownTimesOut

LifecycleNext ==
    \/ Boot \/ Signal \/ Stop
    \/ ListenAndServe \/ ConsumerFails \/ Consume \/ Dies
    \/ \E q \in Requests : Accept(q) \/ Respond(q)
    \/ \E e \in HubEvents : Produce(e)

LifecycleSpec == LifecycleInit /\ [][LifecycleNext]_lvars

(***************************************************************************)
(* main's own steps end, the five seconds pass, and the goroutines of the  *)
(* consumer run.  Nothing is asked of requests: one may run for ever.      *)
(***************************************************************************)
LifecycleFairness ==
    /\ WF_lvars(Stop)
    /\ \A pt \in Partitions : WF_lvars(HandlerStep(pt) /\ Consume)

FairLifecycleSpec == LifecycleSpec /\ LifecycleFairness

-----------------------------------------------------------------------------
(***************************************************************************)
(* ShutdownDrains (main.go:165: "Gracefully shutdown HTTP server"): once   *)
(* the shutdown has begun no request is accepted, even if it overtakes the *)
(* goroutine that opens the listener; and a process that then exits        *)
(* properly has cut none off.                                              *)
(***************************************************************************)
ShutdownDrains ==
    [][main = "shutdown" =>
         /\ Running' \subseteq Running
         /\ (exit' = "ok" /\ main' = "down") =>
              \A q \in Requests : request'[q] = request[q]]_lvars

(***************************************************************************)
(* What makes it so, in every state.                                       *)
(***************************************************************************)
ShutdownInv ==
    /\ LifecycleTypeOK
    /\ main = "shutdown" => http = "closed"

(***************************************************************************)
(* ShutdownEnds: a shutdown ends, even if a request does not.              *)
(***************************************************************************)
ShutdownEnds == main = "cancelled" ~> main = "down"

(***************************************************************************)
(* CleanExitKeepsEvents (consumer.go:22-23: "For each event received, it   *)
(* creates a notification record in the database"): when a process exits   *)
(* properly, no event is between its receipt and its insert.  The code     *)
(* does not keep it: main waits for the HTTP server only.                  *)
(***************************************************************************)
CleanExitKeepsEvents ==
    [][exit' = "ok" /\ main # "down" /\ main' = "down"
         => \A pt \in Partitions : step[pt] # "insert"]_lvars
=============================================================================
