# A formal model of mediasoup-signal

mediasoup-signal is the signalling side of a WebRTC conference service:

- **nuve** (`src/nuve/nuveAPI`): the REST service. It keeps services, rooms,
  tokens and the list of ErizoControllers in MongoDB, and assigns each room to
  an ErizoController.
- **ErizoController, EC** (`src/erizo_controller/erizoController`): holds the
  WebSockets of the browsers, the rooms and clients, and asks ErizoAgents for
  SFU routers.
- **ErizoAgent, EA** (`src/erizo_controller/erizoAgent`): runs mediasoup
  workers; has, per room, one router and the clients' transports, producers and
  consumers.
- **amqper / nuve rpc**: remote calls and broadcasts over RabbitMQ.

Every process is a Node.js program: one callback runs at a time, so an action of
a model is one callback (a socket event, a timer, a reply, a request), together
with everything it calls synchronously, the listeners of EventEmitters included.
Interleaving happens between callbacks and between processes.

## Inventory

| component | state | operations | interacts through | what makes it correct |
|---|---|---|---|---|
| EC sessions: `Channel.js`, `Client.js`, `erizoController.js` | socket, channel state, reconnection timers, the client of a channel | connect, token, join, loss, reconnection, time-out, removal by nuve, loss of an EA | socket events; `deleteToken` to nuve; `getMediasoupWork` to EAs | a client whose socket is gone leaves or comes back; one that came back is not removed by what happened to its former channel |
| EC rooms and SFU counts: `Room.js`, `sfuConManager.js` | table of rooms, clients of a room, routers of a room and the clients counted on them | create, create client, remove client, delete; add a router | `room-empty` events; `deleteUser` and `handlePipRoute` to EAs | the table has exactly the rooms in use; counts follow the clients; a room is on one SFU unless it is cascaded |
| EC-EA signalling: `ecCloudHandler.js`, `amqper.js`, `rpcPublic.js` | requests, replies and broadcasts in flight, attempts | ask, retry, give up, serve, broadcast | RabbitMQ | the EA keeps the clients it serves and gets rid of those that left; users of a living EC are not hurt by the end of another |
| EA table of the EC: `ecCloudHandler.js` | known EAs with counters and states | refresh, remove on time-out, ping and choose | `getErizoAgents` broadcast, `remove_ea` event | a choice ends, on an EA that lives |
| EA rooms: EA `rpcPublic.js`, `rooms.js`, `room.js`, `client.js`, `erizoAgent.js` | rooms with router and clients | create room, create client, delete user, EC down, drain | requests from the EC and nuve | a room lives as long as it has users |
| EA media room: EA `room.js` | transports, producers, consumers, data producers | create, close, pause, resume, producer closes | mediasoup events | consumers follow producers; nothing outlives its client |
| SFU cascade: EA `room.js` | pipe transports, pipe producers and consumers on two EAs | `handlePipRoute` and its four calls to the other EA | amqper | both ends exist and name each other |
| RPC layers: `amqper.js`, nuve `rpc.js` | outstanding calls by correlation id, timers | call, broadcast, reply, time-out | RabbitMQ | every call is answered once, by its own reply or its time-out |
| nuve cloudHandler: `cloudHandler.js`, `erizoControllerRegistry.js`, `roomRegistry.js` | ECs with keepalive counters and states, the EC of a room | register, keepalive, sweep, state report, assignment | RPC from ECs, REST | the users of a room are sent to one EC, which lives |
| nuve REST requests: `nuveAuthenticator.js`, `roomsResource.js`, `roomResource.js`, `roomRegistry.js`, `serviceRegistry.js`, client `nuve.py` | the last timestamp let in, the copy of the service a request works on, the rooms in the service document and the collection of rooms | authenticate, create, update, delete a room | HTTP, MongoDB | requests in order are let in; the two places that list rooms agree |
| Tokens: `tokensResource.js`, `tokenRegistry.js`, nuve `rpcPublic.js` | tokens | generate, consume, expire | REST, `deleteToken` | a token that was spent admits nobody |

`sfuConManager.js` contains unresolved merge conflict markers (lines 5-8, 20-34
and 54-58) and does not parse as it stands. Both sides of each conflict are the
same code; the models take the file with the markers removed.

## Modules

| module | stands for |
|---|---|
| `RoomService` | what the rooms of an EC promise: enter once, be visible until departure, never return |
| `EcSession` | the EC: sockets, channels, clients, rooms, SFU counts |
| `EcSession_proofs` | theorems about `EcSession` |
| `AgentRooms` | the rooms of the EAs and the users in them |
| `Signalling` | one EC (`EcSession`) with EAs (`AgentRooms`) and the messages between them |
| `Signalling_proofs` | theorems about `Signalling`, with those of `EcSession_proofs` about its EC |
| `Failover` | `AgentRooms` with several ECs, of which nuve gives up some |
| `Failover_proofs` | theorems about `Failover` |
| `AgentRegistry` | the EC's table of EAs, the choice of one, the worker request |
| `Rpc` | the tables of outstanding calls of amqper and of nuve's rpc, and the calls |
| `AgentRegistry_proofs` | theorems about `AgentRegistry`, and about the calls under it, `Rpc` |
| `CloudHandler` | nuve's registry of ECs, the assignment of rooms, token requests |
| `CloudHandler_proofs` | theorems about `CloudHandler` |
| `NuveApi` | nuve's REST requests about rooms, and tokens |
| `NuveApi_proofs` | theorems about `NuveApi` |
| `MediaRoom` | the room of an EA: clients, transports, producers, consumers |
| `MediaRoom_proofs` | theorems about `MediaRoom` |
| `PipeRoute` | the cascade of a room over two EAs |
| `PipeRoute_proofs` | theorems about `PipeRoute` |
| `EcSessionMC`, `SignallingMC`, `FailoverMC`, `CloudHandlerMC`, `NuveApiMC`, `MediaRoomMC`, `PipeRouteMC` | instances for TLC |

`Signalling` composes `EcSession` with `AgentRooms`, and `Failover` composes
`AgentRooms` with what `CloudHandler` and `EcSession` do to it, reduced to the steps
that an EA can notice. The other modules are about components that share no state
with these; where one leaves open what another decides, its section says so.

### EcSession

Objects are named by the channel that creates them: a channel creates at most one
client and at most one `Room`, so client `c` is the one created on channel `c` and
Room `i` the one created by the join on channel `i`. After a reconnection
`cChan[c]` is another channel than `c`.

| variable | code |
|---|---|
| `sock`, `chState`, `timers` | the WebSocket, `Channel.state`, the timers started by `Channel.onDisconnect` |
| `join`, `want`, `policy`, `joinRoom` | how far the handler of `connected` is, `token.room`, `options.eapolicy`, the `room` variable its callback closes over |
| `registry` | `Rooms.rooms` |
| `roomId`, `roomPolicy`, `roomWorker`, `members` | `Room.id`, `eapolicy`, `erizoAgentId` with `routerId`, `clients` |
| `cRoom`, `cWorker`, `cChan`, `listeners` | `Client.room`, `agentId` with `routerId`, `channel`; the `disconnect` listeners on a channel |
| `routers`, `clientCount`, `pipes` | `SFUConManager.AgentRouterMap`, `AgentRouterClients`; the `handlePipRoute` requests made |
| `lostAgent` | EAs for which `remove_ea` was dispatched and that have not answered since |
| `bornDead` | history: clients created on a channel that will have no further event |

Each callback is one action; the comment above each names the code. What the code
does in the action is kept even where it looks accidental: the close listener is
registered twice on each socket (`Channel.js:34,39`), so a lost socket starts two
timers and `clearTimeout` stops one of them; `delClient` runs once per event, so
counts go down by two; `Channel.disconnect()` on a socket that is already gone
causes no event; a deleted Room that empties later removes the table entry of its
id, whoever is registered there; a time-out in the branch of an existing room
throws before the client is answered.

Environment: a browser sends one `token` or one `reconnected` per socket. An EA
that was removed from the table answers no worker request until it answers
`getErizoAgents` again. nuve's `deleteRoom` is a constant, `NuveDeletes`.

### AgentRooms and Signalling

An EA's room is named by its id and its router; routers are used once.
`getOrCreateRoom` runs in an AwaitQueue, so a creation is one step. A client's creation
is two: `handleUserRequest` finds the room (`FindRoom`), awaits `getOrCreateClient` and then
puts the client into the Room it found (`AddUser`). In between a `deleteUser` or `handleEcDown`
may close that Room; the client then sits in a closed Room (`eaAstray`) and is answered
success all the same. `Signalling`
adds messages: `requests` and `replies` are sets of attempts, `pending` counts the
`deleteUser` broadcasts an EA has yet to handle (one per `disconnect` event, so
two per client), `caps` is the client's first request (`HandleCaps` the lookup, `AnswerCaps`
the entry and the answer).
Requests, broadcasts and calls to one EA travel in different queues and overtake
each other. A draining EA (SIGTERM) takes requests from the shared queue and says
nothing. The EC chooses any EA; the choice is `AgentRegistry`.

`ServedClientKept` says how far that goes: while a client is in its room of the EC, its
first request is refused, or answered with a place in a closed Room, only if another
client has left the same room, and a place in an open room is kept. A late
`deleteUser`, a retried worker request or a client of another room do it no harm.

### Failover

When nuve's `checkKA` gives up an EC, three things start at once: the rooms assigned to
it become free (`assigned`), each EA is to handle `handleEcDown` (`broadcast`), and
the next token of such a room leads to another EC, which asks an EA for the room.
An EA that still has the room answers with it, and the room then belongs to two ECs:
its `erizoControllerId` (`eaOwner`) is the one that created it. `handleEcDown` closes
it under the users of the second, or, if it was created by the second and the first
is only cut off, the first goes on using a room that reports to the other. So the
property is about users in a room of their own EC; a user let into a room made for
another is a `stranger` (history), and nothing is promised to it. As in `Signalling` the
lookup of the room and the entry are two steps, and a user who was answered success is
in no open room only if somebody left the room meanwhile.

An EC is given up at any time, alive or not: how that comes about is `CloudHandler`.
A worker request that was on its way when its EC was given up may be served after
`handleEcDown`; the room then made is `tardy` (history) and stays until its users, if
any, are deleted.

### AgentRegistry

| variable | code |
|---|---|
| `process`, `state` | the EA processes and their `myState` |
| `asked`, `replies` | the broadcast `getErizoAgents` and its answers |
| `known`, `timeout`, `recorded` | `agents` of `ecCloudHandler.js` with `timeout` and `info.state` |
| `pc`, `target`, `tries`, `answer` | one `getMeiasoupWorker` |
| `awaited`, `count`, `agentlist` | the pings of a TTL-BEST choice and the locals of `getErizoAgentPolicy` |

The numbers a policy sorts by (rooms, processor load, the time of a ping) are left out:
any candidate may be best. What remains is who is a candidate at all. A known EA
keeps the state it was first seen with, as in the code, which updates all but the
state. `getErizoAgentPolicy` resolves when as many pings came back as EAs are known
*then*, but asks only those in state 1; one EA in state 0, or one that comes or goes
during the gathering, may leave the join waiting for ever. `shaken` (history) marks
these joins, and `StuckOnlyIfShaken` says that there are no others. For this reason
the fairness of `EcSession`, that a worker request ends, is justified for ROOM-BEST
(its liveness run uses no other policy) and not for TTL-BEST.

`ecCloudHandler.js` declares `const getErizoAgentPolicy` twice (lines 161 and 222) and
does not parse as it stands. The model takes the first, the one that asks for pings.

### PipeRoute

EA `"from"` runs `handlePipRoute` when the EC adds a second router to a TTL-BEST room,
and calls EA `"to"` four times: `createPipTransport`, `connectPipTransport`,
`createPipTransportProduce` with the producers of its clients, and
`createPipTransportConsume` to get those of the other side. Calls to an EA are
executed in the order they were sent (`mail`), their handlers await mediasoup and
overlap. `phase` is how far `handlePipRoute` is, `scan` and the variables after it are
the two loops over clients, `batches` the handlers that make piped producers.
`guestHas` are the producers of the guests, the `Client` objects made for users of the
other EA.

What the model keeps, and what its properties therefore have to except:

- The loops count clients and producers and compare with the sizes of the maps *now*:
  a client without producers, or a change meanwhile, and the promise never resolves
  (`disturbed`). A consume that fails ends the loop of its client, which has a
  `finally` and no `catch`.
- `connectPipTransport` may fail or time out and the route goes on; after the other
  calls it throws (`RouteDies`). When it timed out the pipe is not stored, and a producer
  made after the loops is neither in the snapshot nor sent on its own: `ReachesOther` is about
  producers that were there during the loops and about those made while there is a pipe.
- The EC makes a cascade by the counts of its clients only: the EA may have none.
- The promise around the producers of `createPipTransportConsume`'s answer is resolved
  before they exist (`room.js:1503`), so clients at `"from"` get no consumers of them
  unless a later batch of the same client makes some.
- `closePipProduce` of a producer that is not yet there is refused, and the producer
  stays (`refused`).
- A room whose last client leaves closes silently; the other side keeps its piped
  producers.
- A producer made between the storing of the pipe and the loops is piped twice, and
  a consumer may be made twice; `heard` is a set and does not tell.
- A guest made again after its `deleteUser` keeps a room open.

`MediaRoom` has what happens inside a home room; here a client comes and joins in
one step.

### MediaRoom

One room per EA; a client (`Home`) is in the room of its EA. `clients`, `joined`,
`transports`, `producers`, `consumers` are the maps of Room and Client. `opening`,
`producing` and `creating` are awaited calls to mediasoup: the handler up to the
`await` is one action, what follows the answer another, and the handlers of other
requests come in between. `join` and the answer to `produce` each start the creation
of consumers; a consumer is named by its client, its producer and which of the two
made it. `capable` says that the client told its capabilities in `join`, `early` (history)
that it had a transport for consuming by then.

mediasoup is external: it executes the requests to one router in the order they
were made, so a call on something open succeeds even if it is closed before the
answer comes. Calls that fail are caught by the code and change nothing.
`producerclose` is an event that comes some time after the producer was closed.
Data producers are those labelled `chat`, the only ones announced to others; they take
the way of media producers but no request closes them.

Left out: pauses, layers, priorities, statistics, ICE and DTLS, audio levels, and
the client's answer to `newConsumer`, which resumes the consumer. `pauseConsumer` tests
`user._joined` (`room.js:858`), which nothing sets, and refuses every request.

### Rpc

amqper.js (ECs, EAs) and nuve's rpc.js are the same table with two disciplines, so
one specification has callers of both kinds. Its names carry `Rpc`, so that one module
can extend it beside a specification of who calls (`AgentRegistry_proofs`). `corrID`, `map`, `timer` are the
variables of the code (`map[id].to` is `timer`), `removal` the ids whose entry
amqper's `setTimeout` of `REMOVAL_TIMEOUT` deletes. `requests` and `callReplies` are
sets, so the network delays and reorders. A call is addressed to one server or, as a
broadcast, to all.

A callback of an EC that passes a result on to a browser throws if the request carried no
acknowledgement function (`Client.js:189`); such calls are `ackless`, and any call of an
amqper caller to one server may be. In a reply, amqper catches the exception after the time-out was
cleared and before the removal timer is started: the entry stays for ever, which
`EveryCallEnds` names. In a time-out nothing catches it and the process ends
(`TimeoutUnheard`), the only way a timer of amqper ends one (`AmqperTellsOnce`). Callbacks of
nuve are assumed not to throw.

The layers differ in two places. amqper keeps an entry for a while after a reply,
because every server answers a broadcast; nuve deletes it with the first reply.
And when a timer fires amqper's `callbackError` deletes the entry of that call,
while nuve's deletes `map[corrID]`, the entry of its *latest* call
(`ForgetTimedOut`). If that call is outstanding its own timer then finds no entry
and throws (`TimeoutThrows`); the entry of the timed-out call stays, and a late
reply reaches its callback a second time. `overlapped` (history) are the callers that
had a newer call when one timed out, and `NuveFailsOnOverlapOnly` says that no other
caller hears twice or dies.

### CloudHandler

| variable | code |
|---|---|
| `process`, `myState`, `draining` | the EC processes, `myState` of `erizoController.js`, receipt of SIGTERM |
| `known`, `keepAlive`, `ecState` | documents of `erizoControllers` with `keepAlive` and `state` |
| `assigned` | `rooms.erizoControllerId` |
| `removals`, `lookups`, `erasing` | database calls issued and not yet executed: remove the EC, read the rooms to unassign, write a room without its EC |
| `pc`, `roomOf`, `found`, `queue`, `attempts`, `evals`, `answers` | one `getErizoControllerForRoom`: how far its callbacks are, the locals they close over, and what its own callback was given |
| `declaredDown` | ECs for which `handleEcDown` was broadcast |
| `erased` | history: rooms for which an erasing write was issued |

MongoDB calls are asynchronous and use several connections: each write is an action
of its own and writes overtake each other; a read and its callback, which only
issues further calls, are one action. `keepAlive` reads and updates the EC in two
calls, merged here since nothing but the counter depends on it.
`assignErizoControllerToRoom` runs inside the database and is atomic. The head of
the queue is any EC in the best state there is: `find({})` promises no order and the
policy is configurable.

An EC id is used once. An EC whose registration was performed but whose reply was
lost tries again under another id: `Register` followed by `Die` of the former. An EC
that was removed hears `whoareyou`, stops its keepalives and goes on serving
(`"orphan"`) unless configured to exit. Rooms are not deleted in this model, they
are in `NuveApi`; what giving up an EC does to ECs and EAs is in `Failover`.

### NuveApi

| variable | code |
|---|---|
| `pc`, `op`, `room`, `copy` | a REST request: progress, what it asks, `req.params.room`, `req.service.rooms` |
| `stamp`, `cache` | timestamp and cnonce of a request; those in `cache` of `nuveAuthenticator.js` |
| `service`, `roomDocs` | the rooms listed in the service document, the collection `rooms` |
| `writes`, `removing`, `old` | database calls issued and not awaited by anybody |
| `tokens`, `aged` | the collection `tokens`, those older than three minutes |
| `join`, `with` | a channel's `token` event as nuve sees it: `deleteToken` |
| `overtaken`, `mixed`, `spent`, `behind` | history |

A request reads the service document when it is authenticated and later saves that
copy, or changes a room after looking it up in the copy. A deletion or an update that
runs beside another writer can therefore bring back or lose a room in the list; a
creation writes with `$addToSet` and cannot. `mixed` records that requests which conflict
overlapped, and `StoresAgree` says that nothing else separates the list and the
collection.

A token request whose copy still lists a room that is gone from the collection
dereferences the missing room in `getErizoControllerForRoom` (`cloudHandler.js:189`),
outside any handler of errors: the process ends (`NuveStops`) and is started again
by its operator with an empty cache. `StoresAgree` also says that this takes a conflict.

The last timestamp is one for all clients of nuve, so a client can be refused because
another was faster (`overtaken`). Clients' clocks are one here; a clock that lags is not
modelled, since it is refused by intention. One service, one process of nuve. Test
rooms cannot be reached: `createRoom` sets `testRoom` on the copy of the service and
saves it nowhere.

## Runs

| run | instance | properties | states |
|---|---|---|---|
| `ec_session` | 3 sockets, 1 room id, 2 EAs, both policies, `deleteRoom` | `TypeOK`, `RegisteredRoomInUse`, `DeadSocketWillLeave`, `CountedRouterHasClient`, `LiveClientReachable`, `NobodyLeavesWhileConnected` | 422,046 |
| `ec_room_service` | 3 sockets, 1 room id, 1 EA, `ROOM-BEST`, no `deleteRoom`, fairness | `ImplementsRoomService`, `GoneClientLeaves` | 58,762 |
| `signalling` | 2 sockets, 2 EAs of which one drains, 3 routers, one retry | `TypeOK`, `ServedClientKept`, `LeftClientBeingDeleted` | 3,754,902 |
| `failover` | 2 ECs, 2 EAs, 1 room, 3 routers, 2 users | `TypeOK`, `KeptUnlessStranger`, `GivenUpRoomsClosed` | 475,052 |
| `agents` | 2 EAs of which one is slow and may drain or die, 1 join, `MaxTimeout` 2, `MaxAttempts` 1, fairness | `TypeOK`, `StuckOnlyIfShaken`, `JoinEnds`, `TableFollowsAgents` | 61,852 |
| `rpc` | one caller of each layer, 2 servers, 3 calls in all, fairness | `TypeOK`, `AmqperTellsOnce`, `NuveFailsOnOverlapOnly`, `EveryCallEnds` | 259,367 |
| `cloud` | 2 ECs of which one may die and one may drain, 1 room with REST edits, 2 requests, `MaxKA` and `MaxAttempts` 0, fairness | `TypeOK`, `OneEcUnlessErased`, `RequestEnds`, `DeadEcForgotten` | 258,060 |
| `cloud_drain` | as `cloud`, no EC dies, no edits | `NoNewRoomWhenDraining` | violated |
| `nuve_api` | 3 requests of 2 clients, 2 joins, 2 moments, 2 nonces | `TypeOK`, `OnlyOvertakenRefused`, `StoresAgree`, `TokenSpentOnce` | 2,548,390 |
| `media` | 2 clients, a producer of each and a data producer, fairness | `TypeOK`, `OneConsumerEach`, `NothingLeftBehind`, `ClosedProducerForgotten`, `EverybodyHears` | 27,734 |
| `pipe` | 2 clients at one EA, 1 at the other, a producer on each side, one of each side may leave | `TypeOK`, `PipedHeard` | 1,247,993 |
| `pipe_live` | 1 client on each side, 2 producers at `"from"` and 1 at `"to"`, the client at `"from"` may leave, `MaxEvents` 4, fairness | `ReachesOther`, `PipedCloses`, `LoopsEnd` | 252,790 |

All hold but the one of `cloud_drain`.

Why these bounds are enough to be interesting: three sockets are two users of a
room and one reconnection, or three joins that race for one room, or a room that
is emptied and created again while a third join is under way. One room id
suffices because rooms of different ids share nothing but the EAs. Two EAs show
every divergence of routers. In `signalling`, two users, two attempts and a second
router on one EA let a room be closed and created anew while messages about the
former one are under way. Sockets and workers are interchangeable, hence the
symmetry sets; the liveness runs use none.

In `rpc`, three calls are two overlapping calls of one process and one of the
other; callers share nothing but servers, so more of them add nothing. In `cloud`,
two requests are what a race needs, and two ECs the least among which they can
disagree. `MaxKA` and `MaxAttempts` are 0 instead of 10 and 20: a counter that is over
its bound after one sweep, and an interval that ticks twice. The bounds only say
how many silent sweeps or ticks it takes, and the theorems hold for any. In `media`
the properties relate one client to one producer of another, so two clients show
every interleaving of their requests; a third would only repeat the second, and the
theorems hold for any number.

In `agents`, `MaxTimeout` is 2 instead of 5 (the choice looks at 1, the removal at the
bound, so 2 is the least that tells them apart) and `MaxAttempts` 1 instead of 5. One
EA that always answers and one that may do anything are the least that make a table
change under a join; joins share nothing, so one suffices. In `pipe`, two clients at
`"from"` are the least for which the count of clients matters, and one at `"to"` the
least that hears; one producer on each side and a user of each side that may leave.
`pipe_live` has one client on each side, because it is checked under fairness without
symmetry, and two producers at `"from"`: one that is there during the loops and one
made after them. `MaxEvents` bounds how many producers are made and closed and users
deleted (in `pipe` no behaviour reaches it), and `Before` says in which order
interchangeable producers are made. `nuve_api` has three requests, two of one client in sequence and one of
another beside them: a creation and two that conflict about the room, or a
token, with two joins that compete for it. That nuve stops while a join is under way
takes a fourth request; it is covered by the proofs only. In `failover`, two ECs are
the one given up and the one that takes over, two users are one of each, or two of one
of which the first leaves while the second enters; the third router lets a room be
made again on the EA that had it while the other EA has one too.

Deadlock is not checked: when all sockets, requests or calls of an instance are used
up the system really has nothing left to do.

### What the violated property shows

`NoNewRoomWhenDraining`: the notes (`doc/mediaosoup/部分设计思路.md:144`) keep an EC out of
new assignments after SIGTERM. The handler reports state 0 but leaves `myState`, and the
next change of load reports the EC available again.

Other places where the models follow the code and the notes say something else, for
which no run is kept:

- The notes (line 39) put all users of a room that is not cascaded on one SFU. Of two
  first joins that race, each asks for a worker, and the one that loses enters the room
  with its own; with TTL-BEST it does so without `addRouter`, against the comment in
  `sfuConManager.js:47`.
- The notes (lines 57-63) let a client leave when its EA is removed. A client created
  after its socket had closed does not hear of it and keeps the room in the table.
- The notes (line 91) let the EA's room go with its last user. `deleteUser` also
  closes a room that has no user yet.
- The notes (line 69) put the users of a room on one EC. `updateRoom` and `patchRoom`
  write the service's copy of the room, which has no EC, over the room (`erased` in
  `CloudHandler`).

## Fairness

`EcSession!FairSpec` assumes weak fairness of three kinds of step: a started reconnection
timer fires; `deleteToken` is answered, and a worker request ends with a worker
or without. The last two hold because amqper answers every call with a reply or
with its time-out, and the retries are bounded (for TTL-BEST see `AgentRegistry`).
Nothing is assumed of browsers, of nuve's requests or of EAs.

`Rpc!RpcFairSpec`: timers fire, and a reply that has come in is handled; nothing of
servers. `CloudHandler!FairSpec`: the interval of `checkKA` and of a request fires,
issued removals and erasing writes are executed, a request's reads return, and ECs
that do not fall silent send keepalives. Nothing is assumed of the calls to
`assignErizoControllerToRoom`: a request whose call never returns ends by its ticks.

`MediaRoom!FairSpec`: mediasoup answers calls and sends `producerclose`.

`AgentRegistry!FairSpec`: the interval of `getErizoAgents` fires, a reply that has come
in is handled, EAs outside `Slow` answer the broadcast, and a ping or a worker request
comes back with an answer or the time-out of the call. Nothing is assumed of slow EAs. One
bound on time is in a guard: EAs that are not slow have answered one broadcast before
the next (`AnsweredInTime`).

`PipeRoute!FairSpec`: EAs go on with what they were asked, as one step (`EaStep`), which is
enough since only finitely many are enabled in a row. Neither the route nor clients
are assumed to do anything: what `handlePipRoute` awaits may time out at any moment.

`Signalling`, `NuveApi` and `Failover` have safety properties only, and no fairness.

## Proofs

All theorems hold for any values of the constants that meet the named assumptions.

`EcSession_proofs`, for any finite set of sockets and any sets of room ids,
workers and EAs, and whatever `NuveDeletes` and `Policies` are: `SessionInvariance`,
and from it `TypeCorrect`, `RegisteredRoomsAreInUse`, `DeadSocketsWillLeave` and
`LeavingNeedsDisconnection`. Assumptions: `ChanAssumption` (finitely many sockets, needed
for the counts to be integers), `NoneAssumption` (`None` is no channel, id or worker), and
the types of the other constants. `SessionInv` strengthens the checked properties until
they are inductive:

- `ClientInv`: a client has a room, a worker and a channel exactly from its
  creation on.
- `ListenerInv`: a client listens on its current channel and no other, and no two
  clients share one. This is what makes a late timer of a former channel harmless,
  and what ties "the channel emits" to "its client leaves".
- `ChannelInv`: timers run only for closed sockets, and the captured Room exists.
- `RoomInv`: members know their Room; a registered Room has its id and somebody in
  it. A Room that empties emits `room-empty`, which removes the entry.
- `DeadSocketWillLeave`: `clearTimeout` leaves a timer running, since two were
  started; a client created on a channel without timers is the named exception
  `bornDead`.

All steps of `EcSession` that make clients leave go through `Emit` or its like in `DeleteRoom`;
the lemma `ClosingKeepsInv` treats them together, `CreatingKeepsInv` the five ways
a client is created, and one short lemma per action reduces it to these.

What is built on `SessionInv` takes steps in three kinds (`StepKinds`): clients leave
(`Leaves`), one client is created (`Creates`), or members, counts and the table of rooms
stay (`Quiet`).

- `CountedRoutersHaveClients`, from `CountInv`: a router is counted for no more clients
  than the Room has on it. Equality would be false, as one that leaves on several
  events is taken off once for each. The cardinalities are those of finite sets of
  clients (`ClientsAreCounted`, `LeavingKeepsCounts`, `CreatingKeepsCounts`).
- `LiveClientsAreReachable`, from `ReachInv`: a Room that a worker's reply was asked for
  is a TTL-BEST one, so a ROOM-BEST client is created in a Room that its id leads to.
  The property excepts ids that `deleteRoom` has given two Rooms.
- `RoomServiceIsImplemented`: `EcSession` with the mapping `Present`, `Departed`
  implements `RoomService`. Its hypotheses are those of the run `ec_room_service`, nuve
  deletes no room and every token is of a ROOM-BEST room; without the first a
  user vanishes with his room, without the second a Room may be entered after it
  was closed. `DepartedInv` says that the channel of one that left causes no more events,
  `ServiceInv` that a Room with clients is the registered one. Each step maps to `Enter`,
  `Depart` or a stutter (`CreatingImplements`, `LeavingImplements`).

`Signalling_proofs`, for any EAs, clients, workers and retries: `SignallingInvariance`, and
from it `TypeCorrect`, `ServedClientsStay` and `LeftClientsAreDeleted`. The EC of `Signalling`
takes the steps of `EcSession` (`NextMovesSessions`), so `SessionInv` and the lemmas about leaving
and creating are used as proved there, through an instance of `EcSession_proofs`. `SignalInv`
adds to both properties what makes them inductive: attempts are counted from the first
worker request on (`RequestInv`); `deleteUser` is under way only for clients that have left,
and a first request comes from a client that exists (`PendingInv`); a client in a
room of an EA was admitted by the EA of its worker, to the room of its id
(`AdmittedInv`); and a room the EC was told of is still there, from the reply of the EA on
(`RoomsKeptInv`), as is the one a first request has found (`EnteringInv`), or somebody of that room has left.
`Ea!HostInv` (a router belongs to its EA) ties the two. Assumptions: `ChanAssumption`, `NoneAssumption`, `AgentOfAssumption`,
`RetriesAssumption`: finitely many sockets, `None` is no channel, id or worker, a worker is
on one EA, and the retries are bounded. `SessionsAreImplemented` is the refinement behind this:
the composition implements `EcSession`. With `RoomServiceIsImplemented` it gives
`RoomServiceIsKept`: the composition, in which nuve deletes no room and a room has one EA,
implements `RoomService` too.

`AgentRegistry_proofs` also has the theorems about `Rpc`, for any callers, servers and number
of calls: `RpcInvariance`, and from it `CallTypesCorrect`, `AmqperTells` and `NuveFailures`. `RpcInv` adds to the types that no id runs
ahead of `corrID` (so a new call reuses nothing); for amqper (`TableInv`), that a running timer
has an entry without replies, an entry has its time-out or its removal ahead, not
both, or was answered to a callback that throws, and a call that timed out has no entry, so that a late reply is dropped and a timer
finds what it looks for; and for nuve (`NuveInv`), that for a caller that never overlapped
every running timer has its entry and what was told has none.

`CloudHandler_proofs`, for any ECs, rooms, requests, bounds and environment constants:
`CloudInvariance`, `TypeCorrect` and `OneEcWithoutErasure`. `CloudInv` adds to the types:

- `FreshInv`: an id that was not given out is nowhere, so a registration cannot make
  an old answer come alive;
- `RequestInv`: how a request's counters and locals go with its progress;
- `AssignedInv`: for a room without erasing writes, every known EC that a request has
  found or was answered is the one it is assigned to. `OneEcUnlessErased` follows,
  since two known answers are both equal to it. Sweeps need no exception: what the
  sweep erases it has erased through `EraseLater`, and a removed EC is not known.

`MediaRoom_proofs`, for any EAs, clients and producers: `MediaInvariance`, `TypeCorrect`,
`EachConsumedOnce` and `UsersLeaveNothing`. `MediaInv` needs, beside the types, that a
client that joined early keeps its transport while it is in the room (`ClientInv`),
that a producer that is awaited is in no table and its client has joined or left
(`ProducerInv`), and that consumers exist only for clients that joined and for
producers that are no longer awaited (`ConsumerInv`). The last is the heart of
`OneConsumerEach`: before its join a client has no consumers, and before the answer to
`produce` a producer has none, so each pair gets its consumer from whichever comes
second.

`PipeRoute_proofs`, for any clients with a home at either EA, any producers and any
users that may leave: `PipeInvariance`, `TypeCorrect` and `PipedIsHeard`. `PipedHeard` spans both
EAs and their queues, so `PipeInv` says of the mail what it says of the rooms:

- `MailInv`, `BatchInv`: a batch sent to an EA, or whose producers it is making, has
  clients of the other EA and their producers. So it makes guests, who hear nothing
  here, and a producer that arrives is of a client the batch is for: either the
  batch is still underway, or it has just made everybody's consumers.
- `AskInv`: `createPipTransportConsume` is called once, its loops run once and answer once.
  So the answer that excuses a producer from `PipedHeard` does not change after
  `handlePipRoute` has read it, and what "from" makes of it is all of it (`BatchInv`).
- `LoopInv`: the loops at "from" are through, or `handlePipRoute` is waiting for them.
  Without it a loop that runs on could send the snapshot, and with it the call, a
  second time.

Its assumptions are the types of the constants and `KeyAssumption`: the names of the two
special batches are no ids of producers.

`AgentRegistry_proofs`, for any finite set of EAs (the count of pings needs cardinalities),
any joins and bounds: `RegistryInvariance`, `TypeCorrect`, `UndisturbedGatheringsGoOn`.
`GatherInv` is the argument: as long as nothing was shaken, the EAs awaited are in the
table and the pings counted and awaited make up its size, so the last one to come back
is the one that resolves.

`NuveApi_proofs`, for any clients, requests, joins and clock: `ApiInvariance`, `TypeCorrect`,
`RefusedWereOvertaken`, `TokensAreSpentOnce` and `StoresStayTogether`. `CacheInv`: the last timestamp let in is that
of a request that got past authentication, and no request that was not overtaken is
older. `TokenInv`: a token is saved once, when its request is answered, so a
spent one does not come back, and a join that found one has lost it only to another
or to its age. The end of the process empties the cache and drops the joins, which
disturbs neither. `StoresStayTogether` needs to know what is under way: `WriterInv` says who
issued each write and removal that is not through, and what it writes; `StoreInv` that while
nothing conflicted the list of the service lacks only the rooms whose addition is under
way, or, when a single request saves its copy, that each store is what it was before
that request or what it will be after it.

`Failover_proofs`, for any ECs, EAs, rooms, routers and users: `FailoverInvariance`,
`TypeCorrect`, `UsersAreKept` and `RoomsAreClosed`. `RoomInv` (a room has a router and an
owner, or neither), `BroadcastInv` (only ECs given up are announced, so no room of
another is closed) and `UserInv` (a user in a room has a ticket for it and its EC the room;
only users who are gone are deleted) tie users to rooms. `AskedInv` (a first request is on its
way to the EA the EC chose) and `EnteringInv` (the Room it has found is of the user's EC,
and open unless somebody left or the EC was given up) carry `KeptUnlessStranger` over the
await; `Ea!UsedInv` is why a room closed meanwhile cannot be taken for its successor: no router is used
twice.

Every invariant that a passing run checks is stated by one of these theorems, and so are
the action property `NobodyLeavesWhileConnected` and the refinement `ImplementsRoomService`.
Model-checked only are the properties out of the prover's reach because they are
liveness under fairness: `GoneClientLeaves`, `EveryCallEnds`, `RequestEnds`, `DeadEcForgotten`,
`ClosedProducerForgotten`, `EverybodyHears`, `JoinEnds`, `TableFollowsAgents`, `ReachesOther`,
`PipedCloses`, `LoopsEnd`.

## What the code does and the properties except

A property of this project is false of the code unless it names what the code leaves open. These
are the exceptions; each is recorded in the models, and the properties say that there
is nothing beyond it.

| exception | what happens in the code | property |
|---|---|---|
| `bornDead` | a client created on a channel whose events are over stays in the room | `DeadSocketWillLeave`, `GoneClientLeaves` |
| two Rooms of one id | after `deleteRoom` the old Room removes the entry of the new one | `LiveClientReachable` |
| `SomeoneLeft`, `eaAstray` | a room closes before a user's first request or in the middle of it, which is answered success | `ServedClientKept`, `KeptUnlessStranger` |
| `late` | a first request after the client's `deleteUser` makes a client nobody deletes | `LeftClientBeingDeleted` |
| `erased` | an update or the sweep takes the EC from a room that has one | `OneEcUnlessErased` |
| `early` | a client that joins without a transport for consuming hears nobody who was there | `OneConsumerEach`, `EverybodyHears` |
| `ackless` | a callback that throws keeps its entry in the table, or ends the process | `EveryCallEnds`, `AmqperTellsOnce` |
| `overlapped` | nuve's rpc forgets its latest call instead of the one that timed out | `NuveFailsOnOverlapOnly` |
| `shaken` | a choice by ping waits for ever | `StuckOnlyIfShaken`, `JoinEnds` |
| `disturbed` | the loops over clients wait for ever | `LoopsEnd`, `ReachesOther` |
| a pipe never stored | producers made after the loops reach nobody | `ReachesOther` |
| `refused` | a piped producer stays open after its original is closed | `PipedCloses` |
| answer of `createPipTransportConsume` | its producers are made after the consumers should be | `PipedHeard` |
| `overtaken` | a request is refused because another was faster | `OnlyOvertakenRefused` |
| `mixed` | an update or deletion beside another writer brings back or loses a room, or ends nuve | `StoresAgree` |
| overlapping joins | two joins with one token are both let in | `TokenSpentOnce` |
| `stranger`, `tardy` | a user in a room made for another EC is thrown out; a room made for an EC after it was given up stays | `KeptUnlessStranger`, `GivenUpRoomsClosed` |

What the models do and no property speaks of, because the code offers nothing to say: counts of
clients in the SFU below the truth (`CountsWithout`), a join without an answer (`WorkerTimeout`), an
EA's state that is never refreshed, a living EC swept away, a token request answered twice
(`answers`), several consumers of one piped producer. They are hazards without a property in
`PROJECT.json`.

## Not modelled

- Data that decides nothing here: SDP and RTP parameters, ICE, DTLS, statistics, audio
  levels, layers, priorities, `options` and names, the figures EAs and ECs report (only
  the states they lead to), the contents of rooms, services and tokens.
- Pauses of producers and consumers, in a room and over a pipe: a flag that no other
  handler of this code reads.
- The opening of AMQP connections, exchanges and queues, and loss of the broker.
- The retransmission buffer of a reconnecting channel.
- Requests about services and users (`serviceResource.js`, `usersResource.js`,
  `userResource.js`): single database calls, or calls forwarded to an EC that change
  nothing but what `EcSession` has.
- Header parsing, HMAC, rate limiters (wrappers of a library), ROV, metrics, logging.
- `semanticSdp`, used by no file here; `roomController.js`, not loaded by the EC;
  `workerManager.js`, a round robin over mediasoup's worker processes, whose death ends
  the EA (`AgentRegistry!Die`).
- The branch of `erizoController.js:355` that logs an undeclared variable is modelled by
  its effect, a join without an answer; the transport that outlives its client at
  `room.js:522` by an exception in `NothingLeftBehind`.
- Python: of the two files, `nuve.py` is the client `NuveApi!Send` follows (one request at a
  time, a new timestamp and cnonce for each); its other methods build URLs. `get-pip.py` is
  the vendored installer of pip, an encoded archive of a third party. The system itself is
  JavaScript, which the models follow; counted over the Python files alone, little
  of them is or can be modelled.

What remains worth doing: `PipeRoute` with `MediaRoom` inside each EA and a third EA; the
safety parts of the liveness properties, as invariants of their own (an entry of `Rpc`
that is never forgotten has a timer, a producer that is gone has its `closePipProduce` ahead).
