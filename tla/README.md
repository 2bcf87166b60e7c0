# Verification of the R2 Notify Server

TLA+ models of the notification server in `src/`, the TLC runs that check them
on small instances, and TLAPS proofs of what the client store, the websocket
handler, the Event Hub consumer and the lifecycle promise for any number of
users, connections, goroutines, events and partitions.

The server keeps one websocket per browser tab of a user. A notification is
created by a REST call or by an event of an Azure Event Hub, stored in MongoDB,
and pushed to the user's connections; over the same connections a client marks
and deletes notifications and switches them off. The questions behind most of
this project: *with all of that happening at once, does a connected user see
his notifications, and do the map of connections, Redis and MongoDB stay in
agreement? What becomes of an event, and of a request, when something fails or
the process stops?*

## 1. Inventory

| Component | Source | State it keeps | Operations | Model |
|---|---|---|---|---|
| Client store | `services/client_store.go` | map user -> list of connections under an RWMutex; the record `client:<id>` in Redis | StoreClient, RemoveConnection, UpdateClientInfo, GetClientInfo, Send{Notification,Configuration,NotificationList}ToUser; DeleteClient (no caller) | `ClientStore`, `RWMutex`, `ConnRegistry` |
| WebSocket handler | `handlers/websocket.go` | per connection: the HTTP handler that becomes a read loop, and a ping loop; pong deadline | upgrade, look up or create configuration, register, send list and configuration, ten events, ping, close | `WebSocketHandler` |
| Notification repository, service | `repository/notification/`, `services/notification/` | collection `notifications` | FindAll, Create, four Mark*, four Delete*; FindById (no caller) | `NotificationRepository`, `NotificationService` |
| Configuration repository, service | `repository/configuration/`, `services/configuration/` | collection `configurations` | FindByAppAndUser, Create, Update; Delete (no caller) | `ConfigurationRepository`, `ConfigurationService` |
| REST controller | `controller/notification_controller.go` | none | validate, insert, push | a creator of `WebSocketHandler` |
| Event Hub consumer | `event-hub/consumer/` | one receiver per partition, from the latest offset; in the client library, a checkpoint in memory | ask for the partitions, receive, decode, insert, push, close; links are replaced | `EventHubConsumer`, `EventDelivery`; a creator of `WebSocketHandler` |
| Lifecycle | `main.go`, `config/` (connections to MongoDB and Redis) | none that survives | connect, start consumer and server, signal, cancel, shut down, exit | `Lifecycle`; `ServerRestarts` |
| Replicas | `azure-pipelines.yml` | one Redis and one MongoDB for up to three processes | everything the others do to these | `OtherReplica*` |
| Authentication, router, configuration, logger, data types | `middlewares/`, `router/`, `config/`, `logger/`, `data/`, ... | none that changes | stateless | not modelled (section 8) |

How they interact:

* A connection `c` is served by two goroutines. `Serve(c)` runs the HTTP handler
  up to the first messages and then the read loop; `Ping(c)` is the ticker loop,
  started before the connection is registered. REST requests and the receivers of
  the Event Hub are further goroutines. All of them call the client store and
  MongoDB with no other synchronisation than the store's RWMutex and the fact
  that MongoDB executes one request atomically.
* The store writes Redis *after* `Unlock` when it registers a connection and
  *under* the lock when it deletes the record of a user's last connection.
  `UpdateClientInfo` writes Redis without the lock.
* `sendToUser` holds the READ lock through the Redis read, all writes to the
  sockets (which have no deadline), and the assignment of the surviving
  connections back into the map.
* The handler registers a connection and then reads the list to send; a creator
  inserts a notification and then pushes it.
* `main` starts the consumer and the HTTP server as goroutines and waits for a
  signal. Any of the three can end the process, and none waits for the others:
  only REST requests are waited for, for five seconds.

What makes a component correct:

* Client store: a registered, working connection stays in the list until it is
  removed; a removed one does not come back; a push that reports success was
  written to every registered working connection; a registered connection has
  its user's record in Redis; every call gives the mutex back.
* Handler: no unread notification misses a connection, whenever it was created;
  none reaches another user; a closed connection is not left in the map; one that
  breaks is removed in the end; goroutines never all wait for one another; the
  flag the user chose is the flag pushes obey; what a client shows is
  what the database holds; a peer that stops reading does not stop the others.
* Repositories: each request changes exactly the documents its filter names.
* Consumer: the events of a partition are stored in their order, each at most
  twice (the client library may deliver the one in the handler again) and then in
  a row; one is skipped only for a fault of its own; none waits for ever.
* Lifecycle: a shutdown accepts nothing more, ends, and lets what is under way
  finish.

What is hard here, and which property is about it, is listed line by line under
"hazards" in `PROJECT.json`. The main ones: the write-back under the read lock,
the two orders of the Redis write and delete, the ping loop that is older than
the registration, lists and pushes that overtake each other, a flag kept in two
databases, a restart over the Redis records of the previous process, a write
that does not return, an insert that fails, a link that is replaced while an
event is being inserted, and a signal at a bad moment.

## 2. Modules

| Module | What it is |
|---|---|
| `RWMutex` | Go's `sync.RWMutex`: readers, a waiting or working writer; an announced writer keeps new readers out (external) |
| `Parties` | users, connections, their owner, the faults |
| `ConnRegistry` | the abstract specification of the store: a set of reachable connections |
| `ClientStore` | `client_store.go` |
| `NotificationRepository`, `ConfigurationRepository` | the two collections, one action per request |
| `NotificationService`, `ConfigurationService` | the services over them: results and errors as the callers see them |
| `WebSocketHandler` | the handler, its loops, its clients and the creators, composed with the store and both services |
| `EventDelivery` | the abstract specification of the consumer: the fate of each event |
| `EventHubConsumer` | the consumer of one replica, over an Event Hub that outlives it |
| `Lifecycle` | `main.go`, composed with the consumer |
| `ServerInvariants` | further safety properties of the server, and the inductive invariants behind them |
| `MCClientStore`, `MCWebSocketHandler`, `MCLifecycle` | instances for TLC |
| `ClientStoreProofs`, `WebSocketHandlerProofs`, `DeliveryProofs`, `LifeProofs`, `RecordProofs`, `MessageProofs`, `EventHubConsumerProofs`, `LifecycleProofs` | the theorems |

### How the model corresponds to the code

`ClientStore`. `keys` and `clients` are the Go map: the users that have an entry,
and the connections in it (an entry may hold an empty list, and the code tells
the two apart). `redis[u]` is the record's `EnableNotification`, or `"none"`.
`pc[p]`, `conn[p]`, `user[p]`, `flag[p]`, `todo[p]`, `active[p]` are where a
goroutine is in the file and its arguments and locals (`activeConns` is
`active`). A step is the code between two points where another goroutine can
interfere:

| Function | Steps |
|---|---|
| `StoreClient` | `StoreClient` (the call of Lock), `StoreAppend` (append, Unlock), `StoreSet` (Redis) |
| `RemoveConnection` | `RemoveConnection` (Lock), `RemoveFilter` (filter; returns unless the list is empty), `RemoveDel` (Redis, deferred Unlock) |
| `sendToUser` and its wrappers | `SendToUser` (RLock, look-up), `SendInfo` (Redis, flag), `SendWrite` (one connection), `SendBack` (the assignment, RUnlock) |
| `UpdateClientInfo` | one step |

`phase` and `gone` are history: how far a connection's registration has got, and
whether RemoveConnection has taken it out. `alive` are the connections on which a
write succeeds.

*Data races.* The assignment in `sendToUser` is made under the read lock, so two
senders of one user race, and a sender races with a look-up. Two writers of a
websocket race as well, and gorilla panics when it notices. With `"race"` in
`Faults` the model allows what a build can make of this: a list paired from the
array of one and the length of another (`Torn`), a panic that gin recovers after
the deferred `RUnlock` (`SendPanics`), the end of the process (`Crash`). Without
`"race"` the two accesses happen one after the other; theorems that need this
assume `RacesAreBenign`.

`WebSocketHandler`. `stage[c]` is where `Serve(c)` is, `agenda[c]` the messages it
still has to send before it reads on, `payload[p]` the message a goroutine is
sending, `info[c]` the flag it is about to write, `pinging[c]` whether the ping
loop runs. While `pc[p] # "idle"` a goroutine moves by the actions of
`ClientStore` (`StoreStep`), which is also where a message reaches a client.
`view` and `shown` are what the client displays: the protocol gives a client
nothing but a list that replaces, a notification that adds, and a flag.

*Stalled peers.* `stalled` are the connections whose client no longer reads. No
write deadline is set, so a write to one does not return (the guard of
`StoreStep`) until the connection breaks or is closed; what gets stuck holds the
read lock. The next ping of that connection finds a write under way and panics in
a goroutine that recovers nothing: `PingPanics`, the end of the process.

*Replicas.* With `"replica"` in `Faults`, another process writes or deletes any
user's record in Redis (`OtherReplica`) and changes documents in MongoDB
(`OtherReplicaRequests`) between any two steps of the one that is modelled.

`EventHubConsumer`. The Event Hub is `offset[e]`, the place of an event in its
partition, and `size`. `starter` is where StartEventHubConsumer is, `cancelled`
its context. Of each partition: `receiver`, the place `next` it reads, and
`step`, `current` of its handler, which is called for one event at a time. A
receiver starts behind the last event (`ReceiveWithLatestOffset`); a handler
decodes, inserts (`Insert`, which may report an error and have taken effect),
pushes, and returns nil in every case; `checkpoint` is the place of the event
whose handler returned last. `copies` counts the documents inserted for an event.
`Fate` maps this state to `EventDelivery`: an event is *stored* once it has a
document, *twice* when it has a second one, *owed* while it has none and a linked
receiver has it before itself or a handler is about to insert it, and *lost*
otherwise.

*Links.* What `hub.Receive` does with a link that breaks is the business of the
client library (azure-event-hubs-go v3.6.2, `go.mod:13`), which is not part of the
repository; the model takes from it that a broken link is replaced within the
process, that the new one resumes behind `checkpoint`, which is kept in memory and
set when a handler has returned, and that before the first return it starts at
the latest place like the first link. `LinkRecovers` is the break and the
replacement in one step (`ReceiverEnds` if the library gives up), at any moment,
also while the handler runs: then the event in the handler is received again.
The exception is a replacement while the *first* event of a receiver is in its
handler, which needs `"early"`: the new link passes over what was sent meanwhile
and a later one goes back to it, so that the order is lost (finding 15). The
consumer's theorems assume it away (`NoEarlyBreak`).

`Lifecycle`. `main` is where `main` is, `http` the listener, `request` the REST
requests, `exit` how the last process ended. Each goroutine that may end the
process has its action: `Start` (a missing `.env`), `MongoConnection`,
`InitRedis`, `ListenAndServe` and `ConsumerFails` by `log.Fatal`/`os.Exit`, a
signal before `signal.Notify`, the return of `main`, and a death of any other
kind (`Dies`). `Exit` ends what runs in the process; the Event Hub and what has
been inserted stay. It is started again.

`Faults` (of the server) and `Failures` (of the lifecycle) select what may go
wrong in a run: `"break"` (a connection breaks), `"stall"`, `"redial"` (a client
comes back), `"crash"` (the process dies and starts over the same databases),
`"redis"` and `"mongo"` (a request returns an error, having taken effect or not),
`"race"`, `"replica"`; `"hub"` (a receiver fails for good), `"link"` (a link is
replaced), `"early"` (even while the first event is in its handler), `"env"`,
`"mongo"`, `"redis"`, `"port"` (the `.env` file, a connection or the listener
fails), `"crash"`.

## 3. The runs

Of what the store keeps, users share the mutex only, so the instances have one
user: a second one would only add goroutines that hold the lock. The exception is
`ws_reconnect`, where notifications of a second user are created, changed and
pushed as well, for `OnlyOwn`.

| Run | Instance | Properties | What it shows |
|---|---|---|---|
| `store_safety` | 2 connections, 3 goroutines, Redis errors, another replica | `IInv`, `LiveStayRegistered`, `SendReachesAll`, `RefinesRegistry` | the store keeps its promises, and implements the abstract register, with any callers |
| `store_torn` | 2 connections, 3 goroutines, Redis errors, data races | `IInv`, `RegisteredHaveInfo`, `GoneStaysGone` | what the races leave standing |
| `ws_delivery` | 2 connections that come back, a creator, one flag event each | `NothingIsLost`, `DeliveryInv`, `OrphanFree` | no unread notification misses a connection, in any order of registering, creating, pushing, toggling; nobody's record stays |
| `ws_reconnect` | 1 connection, 2 users with a notification each, all ten events, breaks, redials, crashes | `NothingIsLost`, `FlagsAgree`, `ClosedIsUnlisted`, `OnlyOwn`, `DeadHaveRemover` | the same across reconnections and restarts; MongoDB and Redis hold one flag; nothing reaches the wrong user; a broken connection has somebody who will remove it |
| `ws_faults` | 1 connection, all events, every fault | `HandlerTypeOK`, `HandlerInv`, `ClosedIsUnlisted`, `NobodyIsStuck` | what holds with no assumption on the environment at all |
| `ws_live` | 2 connections that may break | `DeadAreRemoved`, `CallsReturn` | under fair scheduling a broken connection is unlisted and every call returns |
| `ws_stalled` | 1 connection that may stall or break, a creator, two events | `ClosedInTheEnd`, `CallsReturn` | nothing waits for ever for a stalled peer |
| `life` | 1 partition, 3 events, 1 request, every failure but `early` | `HubInv`, `AtMostTwice`, `ShutdownInv`, `RefinesDelivery`, `InOrder`, `ShutdownDrains`, `ShutdownEnds`, `EventsSettle` | no event more than twice, out of order or waiting for ever; a shutdown accepts nothing and ends |
| `ws_leak` | 1 connection, Redis errors | `DeadAreRemoved` **violated** | a closed connection stays listed |
| `ws_views` | 1 connection, a creator, markAsRead | `ViewsCurrent` **violated** | an older list follows a newer push |
| `ws_stall` | 1 connection that may stall, a creator | `ErrorEndsConnection` **violated** | a connection error ends the process |
| `life_lost` | as `life`, no failure at all | `CleanExitKeepsEvents` **violated** | a proper exit abandons an event between receipt and insert |

Bounds, and why they are enough to meet the interesting cases:

* Three goroutines in the store's runs: one that registers, one that removes and
  one that sends can overlap, and so can two senders and a remover. Goroutines
  there call anything at any moment, which is more than the handler does.
  Connections are renewed for ever, so runs are not bounded in length.
* Two connections: "the last connection of a user" and "another one of his" are
  different cases in every function of the store.
* `MaxEvents = 1` event per connection (a bound of the model), one notification
  for a user (created once): an event's answer can race with the push, with the
  other connection's event and with its registration; notifications of a user do
  not interact otherwise. `ws_reconnect`, `ws_faults` and `ws_stalled` have one
  connection, which is reborn for ever, hence several events over a run.
* `ws_stalled` has one connection, which the creator, the ping loop and the
  handler wait for. With two that may stall `DeadAreRemoved` would fail: a
  handler that panics while it greets is abandoned, and gin recovers it.
* `life`: three events of one partition, sent in any order: two valid ones, of
  which one may fail to be inserted, and one that cannot be decoded. A redelivery
  needs an event before it (the checkpoint), and its order an event behind it.
  Partitions share nothing but the end of the process, and the theorems hold for
  any number of them. One request, running or not when the signal comes. Links
  are replaced, and the process starts, stops and dies, any number of times.
* `ws_live` and the violation runs leave out what their property does not need.

Every property of a passing run has a mutant: an operator of the same module,
marked `(mutant)`, that replaces an action the way a plausible mistake would, and
that makes TLC find the property violated.

## 4. Fairness

Safety runs use none. `ws_live`, `ws_stalled` and `ws_leak` use
`HandlerFairness`:

* a goroutine inside the store goes on (weak fairness of `StoreStep(p)`): the Go
  scheduler runs every runnable goroutine, and Redis and socket calls return,
  unless the peer stalls, in which case the step is not enabled;
* a handler, a ping loop and a creator make their next call of the store
  (strong fairness, because the lock can come and go): Go's RWMutex hands the
  lock to every goroutine that waits;
* a read on a broken connection fails, and so does one from a client that has
  stopped answering pings (the read deadline of 60 seconds); a ping comes up,
  fails or panics (the ticker).

Clients owe nothing: they need not dial, send an event, or close. Nothing is
assumed about breaks, stalls, crashes or redials.

`life` uses `LifecycleFairness`: the shutdown goes on (its five seconds pass),
and a handler of the consumer makes its next step. (A link that is replaced does
not delay it: the event in the handler comes again once, and not after that.)
The latter rests on a push returning, which `ws_stalled` is about
(`CallsReturn`). A request may run for ever, and a process need not be started,
nor receivers link.

## 5. What is proved

`ClientStoreProofs`, for all users, connections, owners, goroutines and faults:

| Theorem | Says |
|---|---|
| `Invariance` | `Spec => []IInv` |
| `TypeCorrect` | `Spec => []TypeOK` |
| `RegisteredHaveInfoHolds` | a registered and listed connection has its user's record, given `OneReplica` |
| `GoneStaysGoneHolds` | a removed connection is never listed again, torn lists included |
| `LiveStayRegisteredHolds` | a working connection stays listed until it is removed, given `RacesAreBenign` |
| `SendReachesAllHolds` | a successful push was written to every working listed connection, given `RacesAreBenign` |
| `StoreImplementsRegistry` | the store implements `ConnRegistry`, given `RacesAreBenign` |

`WebSocketHandlerProofs` and `DeliveryProofs`, for all of these and any creators,
notifications and events:

| Theorem | Says |
|---|---|
| `HandlerInvariance`, `HandlerTypeCorrect` | `HandlerSpec => []HandlerInv`, `=> []HandlerTypeOK` |
| `ClosedIsUnlistedHolds` | a registered connection whose read loop has ended is in no list |
| `ServerUsesStore` | `HandlerSpec => Spec`: the server uses the store as its specification lets any caller |
| `ServerKeepsGone`, `ServerKeepsStore` | hence `GoneStaysGone`, and given `OneReplica` `RegisteredHaveInfo`, hold in the server |
| `ServerImplementsRegistry` | and, given `RacesAreBenign`, `SendReachesAll` and `RefinesRegistry` |
| `DeliveryInvHolds`, `NothingIsLostHolds` | given `DeliveryFaults`, no unread notification is lost |

`LifeProofs`, `RecordProofs` and `MessageProofs`, for the same:

| Theorem | Says |
|---|---|
| `LifeInvHolds` | `HandlerSpec => []LifeInv`: who pings, registers and removes a connection, and when |
| `NobodyIsStuckHolds` | under every fault, calls of the store never all wait for one another |
| `DeadHaveRemoverHolds` | given `NoneLeft`, a broken connection that is listed has a goroutine that will remove it |
| `OrphanFreeHolds` | given `OrphanFaults`, no record stays of a user who is gone |
| `FlagsAgreeHolds` | given `FlagFaults`, MongoDB and Redis hold the same flag of a user with one connection |
| `OnlyOwnHolds` | under every fault, a client gets only stored notifications of its own user |

`EventHubConsumerProofs` and `LifecycleProofs`, for any partitions, events,
requests and failures:

| Theorem | Says |
|---|---|
| `HubInvHolds`, `AtMostTwiceHolds` | given `NoEarlyBreak`, `ConsumerSpec => []HubInv`, and no event is stored three times |
| `ConsumerImplementsDelivery` | given the same, the consumer implements `EventDelivery` |
| `InOrderHolds` | given the same, the documents of a partition are inserted in the order of its events |
| `LifecycleUsesConsumer`, `LifecycleDelivers` | `LifecycleSpec => ConsumerSpec`; so all of this holds, given the same, over every sequence of starts and ends of the process |
| `ShutdownInvHolds`, `ShutdownDrainsHolds` | while a shutdown waits nothing is accepted, and a proper exit cuts no request off |

Assumptions: each connection has an owner among the users; `NoProc`, `NoConn`,
`NoUser`, `NoEvent` are not members; `Faults` and `Failures` are sets of known
faults (`OwnerAssumption`, `NoProcAssumption`, `FaultsAssumption`, ...); in the
server, the goroutines are those of the connections and the creators, all
different (`ProcsAssumption`, `CreatorsAssumption`), and every notification names
a user (`DocAssumption`: a push to a user nobody knows finds no entry and does
nothing); every event has a partition (`PartitionOfAssumption`). Nothing is
assumed finite. Hypotheses of the theorems that need them are conditions on
`Faults` or `Failures`. With any single fault that `NoneLeft`, `OrphanFaults`,
`FlagFaults` or `DeliveryFaults` excludes (and breaks, where the property is about these) TLC
refutes the property on an instance of one or two connections; the one exception
is `OrphanFree` with `race` alone, where it finds no counterexample (lists are not
torn as long as every sender drops nothing) and the proof, which rests on
`LiveStayRegistered`, does not reach:

| Hypothesis | Excludes | Because |
|---|---|---|
| `RacesAreBenign` | `race` | a torn list loses connections (finding 5) |
| `OneReplica` | `replica` | replicas delete each other's records (finding 9) |
| `DeliveryFaults` | all but `break`, `redial`, `crash` | a list or a flag that could not be read is not sent, a handler that panics stops greeting, a notification of another replica is not pushed here |
| `NoneLeft` | `redis`, `race`, `stall` | a registration that fails, or a handler that panics, leaves its connection behind (finding 1) |
| `OrphanFaults` | all but `mongo`, `redial` | a break overtakes the Redis write (finding 7), and a process that ends leaves all its records |
| `FlagFaults` | `redis`, `mongo`, `replica` | one of the two writes fails, or somebody else writes |
| `NoEarlyBreak` | `early` | the new link passes over events, and a later one goes back (finding 15; TLC refutes `InOrder` and `AtMostTwice`) |

The arguments. None of the promises is inductive alone. `IInv` adds

* `LockInv`: which program points hold which side of the mutex, and that the
  record is deleted while no reader is inside and the entry is gone already.
  This is why deleting the record cannot hurt a registered connection: any
  listed one would have kept the entry;
* `CallInv`: the arguments of the calls under way;
* `ListInv`: lists hold only the user's own connections that were appended;
* `SendInv`: a sender's old list holds no removed connection, because a removal
  needs the write lock, and (without races) still covers every working
  connection in the map, because a registration needs it too. This is why the
  write-back neither resurrects nor loses anything but a dead connection, even
  though it is itself made under the read lock;
  it is also where a torn list breaks `LiveStayRegistered` and `SendReachesAll`.

Each action preserves `IInv` by a lemma of its own. The refinement uses
`reachable = {c \in alive : c is listed}`: appending registers, filtering removes,
a break breaks, a write-back changes nothing reachable and so stutters.

The server's invariant `HandlerInv` adds to `IInv` that only `Serve(c)` registers
`c`, and at one stage of its life (`StoringInv`); that the creators send nothing
but notifications (`CreatorInv`); and, in `StageInv`, what each stage implies of
`phase` and `gone`: before the registration `c` is fresh, from the greeting to the
end of the read loop it is registered, and between the call of RemoveConnection
and `Close` it is either out already or `Serve(c)` is still waiting for the lock.
With that, a closed connection that was registered is in `gone`, and
`GoneStaysGone` keeps it out of every list.

`DeliveryInv` says who is about to bring a notification that is `Missing` at a
connection: a handler of the same user that will read the list (it has just
registered, or has changed something); or a goroutine that holds a message with
it, and has not called the store yet; or one that is sending it and has the
connection still before it. A creator inserts before it pushes, so a new document
has its bearer; a handler registers before it lists, so a new connection has its
list; a change of the flag to "on" is followed by a list. A sender that starts
has the connection in its list by `LiveStayRegistered`, and one that asks Redis
for the flag is let through, since a connection misses nothing while the flag is
"off". Every step is that of one goroutine and leaves the others' part alone
(`OthersPending`), so that one lemma per action remains. When the server is quiet
nobody is about to do anything, so nothing is missing.

`LifeInv` says of a connection that it is pinged as long as it works (the ping
loop starts with it and ends after a failed ping only), that a registration under
way is its own handler's, and that a removal is under way only when it has failed
or its read loop has ended. From it follow three results.

* `NobodyIsStuck` needs `LockInv` and one case more. A goroutine inside the store
  that does not hold the lock waits for one that does; a writer is never waiting
  for anything; a reader is only ever held up by peers that stall and still work,
  and such a peer's connection is pinged, so the ping that panics is enabled.
* `DeadHaveRemover`: given `NoneLeftInv` (no registration has failed, no handler
  has panicked) a listed connection is between its append and the removal by its
  own read loop. This is the safety half of `DeadAreRemoved`; fair scheduling is
  the other.
* `RecordInv`, behind `OrphanFree`: whenever Redis has a record of a user, a
  connection of his is in the map, or the goroutine that removed the last one is
  about to delete the record. Without breaks a connection works until it has been
  removed, so that `StoreSet` finds its connection still listed: this is the step
  at which a break refutes it.

`FlagInv`, behind `FlagsAgree`, follows the flag of a user with one connection
through a handler: what has been read or created in MongoDB is what StoreClient
writes to Redis, what UpdateConfiguration writes is what UpdateClientInfo writes,
and between the two the connection is not `Reading`. That an older removal of the
same connection does not delete the new record is `RegisteredHaveInfo` again.

`OwnInv`: a message carries notifications of one user from the moment it is
prepared, a sender writes to connections of the user it was called for (`ListInv`
and `SendInv`, which bound even a torn list), and no request takes a notification
back to before its creation.

`HubInv`: places in a partition are unique and counted (`PlacesInv`). Of what has
been `Handled` last (the event in the handler, or else the checkpoint) a linked
receiver reads the next, or that one again (`ResumeInv`): again only if the
checkpoint is still the place before it, or if it has become its own place since.
So the receiver is behind every event that has been stored, but for that one
(`StoredInv`, which is also why reading from the latest place stores nothing
again), and its handler never holds an event that is earlier than one that has
been stored (`OrderInv`, which outlives the receiver). `CopiesInv` counts: the
first delivery of an event makes one document at most, and in the second one the
checkpoint is the event's own place, behind which every further link resumes. An
event that has been handled and has no document has a fault of its own
(`LastInv`), so that a link which is replaced before it comes again does no more
than skip it. A failed insert that took effect leaves the event *stored*, one
that did not leaves it *lost*, or *owed* if it comes again; the end of a receiver
or of the process gives up all that is owed, which are the latest of their
partition. `InOrder` is what `OrderInv` means for a step. `NoEarlyBreak` is
needed in one place: a link that is replaced while a handler is busy resumes
behind a checkpoint, never at the latest place.

`ShutdownInv`: from the shutdown on the listener is closed, even if it had not
been opened. `LifecycleUsesConsumer` shows that whatever `main` does is a step of
the consumer's specification or leaves it alone.

Every safety property of a passing run is stated by a theorem. Only model-checked:
liveness (`DeadAreRemoved`, `CallsReturn`, `ClosedInTheEnd`, `ShutdownEnds`,
`EventsSettle`), which is beyond the prover. `NobodyIsStuckHolds` and
`DeadHaveRemoverHolds` prove what the first three rest on besides fairness.

## 6. Findings

With a run that shows them:

1. **Leak on a failed registration** (`ws_leak`). `websocket.go:157` returns
   without RemoveConnection after StoreClient has failed, having appended. If the
   ping loop has ended by then, nobody removes the connection.
2. **Lost update of a view** (`ws_views`). A list read before a notification was
   created and sent after its push takes the notification off the screen.
3. **A stalled peer ends the process** (`ws_stall`). A push to it keeps the read
   lock; its read loop waits for that lock before it closes the connection; the
   next ping panics and is recovered by nobody.
4. **A proper exit loses an event** (`life_lost`). `main` waits for REST requests
   and not for the handlers of the consumer; no position outlives it.

Met while modelling (the properties named are refuted when the fault or the
second connection named is added to a run):

5. **Torn list** (`SendReachesAll`, fault `race`). `client_store.go:315` assigns a
   slice of the map under the read lock. A racing sender may see a shorter list,
   report success, and miss a registered connection. The runtime may also end the
   process.
6. **Dropped connections come back** (`DroppedStaysDropped`). Line 257 says
   failing connections are removed from the list; a second sender with an older
   list stores them again. They are dead, so the harm is a failing write each
   time.
7. **Orphaned record** (`OrphanFree`, fault `break`). The Redis write of
   StoreClient comes after `Unlock`; the ping loop may delete the record first.
   So does a `Del` that fails, and an UpdateClientInfo of the read loop after the
   ping loop has removed the broken connection. Without breaks, Redis errors,
   races, stalls and other replicas a process that goes on leaves none
   (`OrphanFreeHolds`).
8. **Two flags** (`FlagsAgree`, two connections). MongoDB and Redis are written
   one after the other; with a second connection in between they stay different.
   With one they agree (`FlagsAgreeHolds`).
9. **Replicas delete each other's records** (`RegisteredHaveInfo`, fault
   `replica`). The last connection of one replica takes the record from a
   connection on another, which gets no push from then on.
10. **Replicas do not push for each other, and each stores every event.** A push
    reaches the clients of the process that inserted the notification, and each
    process has receivers of its own for every partition.
11. **Events are lost without notice.** A failed insert is logged and dropped, and
    the error of `hub.Receive` is ignored: a partition without a receiver is not
    noticed.
12. **A signal during the start of the consumer** makes the consumer's goroutine
    call `os.Exit(1)` while the shutdown waits for requests.
13. **The last log records are lost.** `Flush` is deferred in `main`, and every
    `os.Exit` and `log.Fatalf` skips it: the record of the error that ended the
    process is the one that is not sent. `minLevel` is never set.
14. **An event is stored twice** (`copies` reaches 2). A link that is replaced
    while the handler inserts or pushes delivers the event again, and nothing
    recognises it: the user gets two notifications. There is no third one, and
    they come in a row (`AtMostTwice`, `ConsumerImplementsDelivery`).
15. **Order is lost by an early break** (`InOrder`, failure `early`). Before the
    first handler has returned a new link starts at the latest place, and the one
    after it behind the first event: what was passed over is stored late.

## 7. Plan

Done: the store, its abstract specification and proofs; the handler composed with
the store, both services and the creators, under breaks, stalls, races, crashes,
failing databases and another replica; the consumer, its abstract specification
and the proof that it implements it; the lifecycle; and for all values of the
constants `NothingIsLost`, `OnlyOwn`, `NobodyIsStuck`, `DeadHaveRemover`,
`OrphanFree`, `FlagsAgree` and `InOrder`.

Left, in this order:

1. `OrphanFree` with `race`: that lists cannot be torn while nothing breaks.
2. Two stores over one Redis with clients of their own, to state what a
   deployment of several replicas promises (findings 9 and 10) as properties.
3. `NothingIsLost` under failing databases: which notifications may then be
   missing, and until when (the next list).
4. Several configuration documents of one user.
5. What order the consumer keeps under `early`.

## 8. Not modelled, and why

* Authentication and the origin check decide which user a connection has, or
  refuse it before any state exists: `Owner` is a constant.
* Router, middleware wiring, environment configuration, logging: no state that
  any property is about.
* Wording and fields of messages, JSON, ids, timestamps: a message is its kind,
  its notifications or its flag. Malformed and unknown events change nothing.
* The order of a connection list: it decides only the order of the writes, and
  `SendWrite` takes any order.
* `DeleteClient`, `FindById`, the configuration's `Delete`: nothing calls them.
* Several configuration documents of one user: only the first is ever read and
  updated.
* Clocks: the pong deadline is a broken connection, or the read error of a
  stalled one; the ticker and the five seconds of the shutdown are fairness.
* A failed `Upgrade`: gin recovers the nil dereference before anything is stored.
