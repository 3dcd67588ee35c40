------------------------------ MODULE EcSession ------------------------------
(***************************************************************************)
(* The signalling sessions of one ErizoController (EC): sockets and their  *)
(* channels (Channel.js), the clients created on them (Client.js), the     *)
(* rooms they are in and the table of rooms (Room.js), the client counts   *)
(* per SFU router (sfuConManager.js) and the handlers of erizoController.js*)
(* that tie them together.                                                 *)
(*                                                                         *)
(* Node runs one callback at a time, so an action is one callback: a       *)
(* socket event, a timer, an RPC reply or an RPC request from nuve.  The   *)
(* EventEmitter calls listeners synchronously; what they do belongs to the *)
(* action that emits.                                                      *)
(*                                                                         *)
(* A client object and a Room object are created at most once for a        *)
(* channel, so both are named by the channel they were created for: c is   *)
(* "the client created on channel c" and i "the Room created when channel  *)
(* i joined".  The browser client sends one 'token' or one 'reconnected'   *)
(* per socket.                                                             *)
(***************************************************************************)
EXTENDS Integers, FiniteSets

CONSTANTS
  Chan,         \* sockets and their channels
  RoomId,       \* room identifiers carried by tokens
  Worker,       \* EA-router pairs (the keys agentId@routerId)
  Agent,        \* ErizoAgents
  AgentOf,      \* the EA a worker runs on
  Policies,     \* eapolicy values in use, out of RoomBest and TtlBest
  NuveDeletes,  \* whether nuve's deleteRoom requests reach this EC
  None          \* undefined

RoomBest == "ROOM-BEST"
TtlBest == "TTL-BEST"

ASSUME ChanAssumption == IsFiniteSet(Chan)
ASSUME NoneAssumption == None \notin Chan \cup RoomId \cup Worker
ASSUME AgentOfAssumption == AgentOf \in [Worker -> Agent]
ASSUME PolicyAssumption == Policies \subseteq {RoomBest, TtlBest}
ASSUME NuveAssumption == NuveDeletes \in BOOLEAN

VARIABLES
  sock,         \* socket of a channel: "new", "open", "closed"
  chState,      \* Channel.state
  timers,       \* reconnection timers still running for a channel
  join,         \* progress of the join requested on a channel
  want,         \* token.room
  policy,       \* options.eapolicy
  joinRoom,     \* the Room captured while a worker is asked for, or None
  registry,     \* Rooms.rooms: the Room registered under an id
  roomId,       \* Room.id
  roomPolicy,   \* Room.eapolicy
  roomWorker,   \* Room.erizoAgentId and Room.routerId
  members,      \* Room.clients
  cRoom,        \* Client.room, None before the client exists
  cWorker,      \* Client.agentId and Client.routerId
  cChan,        \* Client.channel
  listeners,    \* clients whose onDisconnect listens on a channel
  routers,      \* SFUConManager.AgentRouterMap
  clientCount,  \* SFUConManager.AgentRouterClients
  pipes,        \* handlePipRoute requests sent: <<room, from, to>>
  lostAgent,    \* EAs for which remove_ea was dispatched and not back since
  bornDead      \* clients created on a channel that can no longer disconnect

chanVars == <<sock, chState, timers>>
joinVars == <<join, want, policy, joinRoom>>
roomVars == <<roomId, roomPolicy, roomWorker>>
clientVars == <<cRoom, cWorker, cChan, listeners, bornDead>>
sfuVars == <<routers, pipes>>
vars == <<chanVars, joinVars, roomVars, clientVars, sfuVars,
          registry, members, clientCount, lostAgent>>

TypeOK ==
  /\ sock \in [Chan -> {"new", "open", "closed"}]
  /\ chState \in [Chan -> {"CONNECTED", "RECONNECTING", "DISCONNECTED"}]
  /\ timers \in [Chan -> 0..2]
  /\ join \in [Chan -> {"idle", "token", "worker", "joined", "refused", "dropped", "rejoined"}]
  /\ want \in [Chan -> RoomId \cup {None}]
  /\ policy \in [Chan -> Policies \cup {None}]
  /\ joinRoom \in [Chan -> Chan \cup {None}]
  /\ registry \in [RoomId -> Chan \cup {None}]
  /\ roomId \in [Chan -> RoomId \cup {None}]
  /\ roomPolicy \in [Chan -> Policies \cup {None}]
  /\ roomWorker \in [Chan -> Worker \cup {None}]
  /\ members \in [Chan -> SUBSET Chan]
  /\ cRoom \in [Chan -> Chan \cup {None}]
  /\ cWorker \in [Chan -> Worker \cup {None}]
  /\ cChan \in [Chan -> Chan \cup {None}]
  /\ listeners \in [Chan -> SUBSET Chan]
  /\ routers \in [Chan -> SUBSET Worker]
  /\ clientCount \in [Chan -> [Worker -> Int]]
  /\ pipes \subseteq Chan \X Worker \X Worker
  /\ lostAgent \subseteq Agent
  /\ bornDead \subseteq Chan

Init ==
  /\ sock = [ch \in Chan |-> "new"]
  /\ chState = [ch \in Chan |-> "DISCONNECTED"]
  /\ timers = [ch \in Chan |-> 0]
  /\ join = [ch \in Chan |-> "idle"]
  /\ want = [ch \in Chan |-> None]
  /\ policy = [ch \in Chan |-> None]
  /\ joinRoom = [ch \in Chan |-> None]
  /\ registry = [r \in RoomId |-> None]
  /\ roomId = [i \in Chan |-> None]
  /\ roomPolicy = [i \in Chan |-> None]
  /\ roomWorker = [i \in Chan |-> None]
  /\ members = [i \in Chan |-> {}]
  /\ cRoom = [c \in Chan |-> None]
  /\ cWorker = [c \in Chan |-> None]
  /\ cChan = [c \in Chan |-> None]
  /\ listeners = [ch \in Chan |-> {}]
  /\ routers = [i \in Chan |-> {}]
  /\ clientCount = [i \in Chan |-> [w \in Worker |-> 0]]
  /\ pipes = {}
  /\ lostAgent = {}
  /\ bornDead = {}

-----------------------------------------------------------------------------
(* What 'disconnect' events do.                                            *)

\* The clients whose onDisconnect is registered on one of the channels D.
Listening(D) == {c \in Chan : \E ch \in D : c \in listeners[ch]}

\* Room.clients once the clients S have run removeClient.
MembersWithout(S) == [i \in Chan |-> members[i] \ S]

\* Mutation: the counts are not lowered.
CountsKept(S, k) == clientCount

\* SFUConManager counts once every client of S has run delClient k times.
CountsWithout(S, k) ==
  [i \in Chan |-> [w \in Worker |->
    clientCount[i][w] - k * Cardinality({c \in S : cRoom[c] = i /\ cWorker[c] = w})]]

\* Mutation: emptiness is looked at before the clients are removed.
RegistryTestedTooEarly(S) ==
  [r \in RoomId |->
    IF \E c \in S : roomId[cRoom[c]] = r /\ members[cRoom[c]] = {}
      THEN None ELSE registry[r]]

\* Mutation: a room is deleted with the first client that leaves.
RegistryNotTested(S) ==
  [r \in RoomId |-> IF \E c \in S : roomId[cRoom[c]] = r THEN None ELSE registry[r]]

\* Rooms emptied by the clients S emit 'room-empty', whose listener deletes
\* the entry of the room's id, whichever Room is registered there by then.
RegistryWithout(S) ==
  [r \in RoomId |->
    IF \E c \in S : roomId[cRoom[c]] = r /\ members[cRoom[c]] \subseteq S
      THEN None ELSE registry[r]]

\* The channels D emit 'disconnect' k times each.
Emit(D, k) ==
  /\ members' = MembersWithout(Listening(D))
  /\ clientCount' = CountsWithout(Listening(D), k)
  /\ registry' = RegistryWithout(Listening(D))

\* Mutations: onDisconnect is registered once, or three times.
RegisteredOnce == 1
RegisteredThrice == 3

\* onDisconnect is registered twice on every socket.
DisconnectListeners == 2

\* clearTimeout only reaches the timer stored last in Channel.disconnecting.
TimersAfterClear(n) == IF n = DisconnectListeners THEN n - 1 ELSE n

OpenIn(D) == {ch \in D : sock[ch] = "open"}

\* Channel.state, timers and sockets after Channel.disconnect() on the
\* channels D, without the events it causes.
StateClosing(D) == [ch \in Chan |-> IF ch \in D THEN "DISCONNECTED" ELSE chState[ch]]
TimersClosing(D) == [ch \in Chan |-> IF ch \in D THEN TimersAfterClear(timers[ch]) ELSE timers[ch]]
SocketsClosing(D) == [ch \in Chan |-> IF ch \in OpenIn(D) THEN "closed" ELSE sock[ch]]

CloseChannels(D) ==
  /\ chState' = StateClosing(D)
  /\ timers' = TimersClosing(D)
  /\ sock' = SocketsClosing(D)

\* Channel.disconnect() on the channels D: an open socket emits
\* 'disconnect' at once, a socket that is already gone emits nothing.
DisconnectChannels(D) ==
  /\ CloseChannels(D)
  /\ Emit(OpenIn(D), DisconnectListeners)

-----------------------------------------------------------------------------
(* Sockets.                                                                *)

Connect(ch) ==
  /\ sock[ch] = "new"
  /\ sock' = [sock EXCEPT ![ch] = "open"]
  /\ UNCHANGED <<chState, timers, joinVars, roomVars, clientVars, sfuVars,
                 registry, members, clientCount, lostAgent>>

\* The peer closes the WebSocket with code 1000 or 1001.
SocketCloses(ch) ==
  /\ sock[ch] = "open"
  /\ sock' = [sock EXCEPT ![ch] = "closed"]
  /\ chState' = [chState EXCEPT ![ch] = "DISCONNECTED"]
  /\ Emit({ch}, DisconnectListeners)
  /\ UNCHANGED <<timers, joinVars, roomVars, clientVars, sfuVars, lostAgent>>

\* The socket is lost with any other code: wait for a reconnection.
SocketLost(ch) ==
  /\ sock[ch] = "open"
  /\ sock' = [sock EXCEPT ![ch] = "closed"]
  /\ chState' = [chState EXCEPT ![ch] = "RECONNECTING"]
  /\ timers' = [timers EXCEPT ![ch] = DisconnectListeners]
  /\ UNCHANGED <<joinVars, roomVars, clientVars, sfuVars,
                 registry, members, clientCount, lostAgent>>

\* The timers of a channel were started together and fire together.
ReconnectionTimeout(ch) ==
  /\ timers[ch] > 0
  /\ timers' = [timers EXCEPT ![ch] = 0]
  /\ chState' = [chState EXCEPT ![ch] = "DISCONNECTED"]
  /\ Emit({ch}, timers[ch])
  /\ UNCHANGED <<sock, joinVars, roomVars, clientVars, sfuVars, lostAgent>>

\* A client in a registered room: the only ones 'reconnected' looks for.
Findable(c) == \E r \in RoomId : registry[r] # None /\ c \in members[registry[r]]

\* Mutation: the old channel keeps its listeners.
ListenersKept(ch, c) == [listeners EXCEPT ![ch] = @ \cup {c}]

\* Client.setNewChannel moves the listeners of client c from its channel to ch.
ListenersMoved(ch, c) == [listeners EXCEPT ![cChan[c]] = {}, ![ch] = @ \cup {c}]

\* A fresh socket announces the id of client c, whose old channel is muted
\* and then disconnected.
Reconnect(ch, c) ==
  /\ sock[ch] = "open"
  /\ join[ch] = "idle"
  /\ Findable(c)
  /\ join' = [join EXCEPT ![ch] = "rejoined"]
  /\ listeners' = ListenersMoved(ch, c)
  /\ cChan' = [cChan EXCEPT ![c] = ch]
  /\ chState' = [StateClosing({cChan[c]}) EXCEPT ![ch] = "CONNECTED"]
  /\ timers' = TimersClosing({cChan[c]})
  /\ sock' = SocketsClosing({cChan[c]})
  /\ UNCHANGED <<want, policy, joinRoom, roomVars, cRoom, cWorker, bornDead, sfuVars,
                 registry, members, clientCount, lostAgent>>

\* The announced client is in no registered room: the channel stays open, unused.
ReconnectUnknown(ch) ==
  /\ sock[ch] = "open"
  /\ join[ch] = "idle"
  /\ join' = [join EXCEPT ![ch] = "rejoined"]
  /\ chState' = [chState EXCEPT ![ch] = "CONNECTED"]
  /\ UNCHANGED <<sock, timers, want, policy, joinRoom, roomVars, clientVars, sfuVars,
                 registry, members, clientCount, lostAgent>>

-----------------------------------------------------------------------------
(* Joining a room.                                                         *)

SendToken(ch, r, p) ==
  /\ sock[ch] = "open"
  /\ join[ch] = "idle"
  /\ join' = [join EXCEPT ![ch] = "token"]
  /\ want' = [want EXCEPT ![ch] = r]
  /\ policy' = [policy EXCEPT ![ch] = p]
  /\ UNCHANGED <<chanVars, joinRoom, roomVars, clientVars, sfuVars,
                 registry, members, clientCount, lostAgent>>

\* deleteToken failed, timed out or named another host.
TokenRefused(ch) ==
  /\ join[ch] = "token"
  /\ join' = [join EXCEPT ![ch] = "refused"]
  /\ DisconnectChannels({ch})
  /\ UNCHANGED <<want, policy, joinRoom, roomVars, clientVars, sfuVars, lostAgent>>

\* Room.createClient: the client of channel ch enters Room i on worker w,
\* whose clients and counts so far are given.
CreateClient(ch, i, w) ==
  /\ cRoom' = [cRoom EXCEPT ![ch] = i]
  /\ cWorker' = [cWorker EXCEPT ![ch] = w]
  /\ cChan' = [cChan EXCEPT ![ch] = ch]
  /\ listeners' = [listeners EXCEPT ![ch] = @ \cup {ch}]
  /\ members' = [members EXCEPT ![i] = @ \cup {ch}]
  /\ clientCount' = [clientCount EXCEPT ![i][w] = @ + 1]
  /\ join' = [join EXCEPT ![ch] = "joined"]
  /\ bornDead' = IF sock[ch] = "closed" /\ timers[ch] = 0
                   THEN bornDead \cup {ch} ELSE bornDead

\* The token is valid and its room exists with one EA for everybody.
AdmitToRoom(ch) ==
  LET i == registry[want[ch]] IN
  /\ join[ch] = "token"
  /\ i # None
  /\ roomPolicy[i] = RoomBest
  /\ chState' = [chState EXCEPT ![ch] = "CONNECTED"]
  /\ CreateClient(ch, i, roomWorker[i])
  /\ UNCHANGED <<sock, timers, want, policy, joinRoom, roomVars, sfuVars, registry, lostAgent>>

\* The token is valid and a worker has to be asked for: the room does not
\* exist yet, or each of its clients gets the nearest EA.
AskForWorker(ch) ==
  LET i == registry[want[ch]] IN
  /\ join[ch] = "token"
  /\ i # None => roomPolicy[i] = TtlBest
  /\ chState' = [chState EXCEPT ![ch] = "CONNECTED"]
  /\ join' = [join EXCEPT ![ch] = "worker"]
  /\ joinRoom' = [joinRoom EXCEPT ![ch] = i]
  /\ UNCHANGED <<sock, timers, want, policy, roomVars, clientVars, sfuVars,
                 registry, members, clientCount, lostAgent>>

\* No worker after every attempt.  The handler of an existing room refers to
\* an undeclared variable before it answers the client.
WorkerTimeout(ch) ==
  /\ join[ch] = "worker"
  /\ join' = [join EXCEPT ![ch] = IF joinRoom[ch] = None THEN "refused" ELSE "dropped"]
  /\ UNCHANGED <<chanVars, want, policy, joinRoom, roomVars, clientVars, sfuVars,
                 registry, members, clientCount, lostAgent>>

\* SFUConManager.addRouter: cascade from every known router that counts a client.
PipesTo(i, w) ==
  IF w \in routers[i] THEN {}
  ELSE {<<i, v, w>> : v \in {x \in routers[i] : clientCount[i][x] > 0}}

\* A worker for one more client of the captured Room, registered or not.  An
\* EA that has been removed answers no request until it returns.
WorkerForRoom(ch, w) ==
  LET i == joinRoom[ch] IN
  /\ join[ch] = "worker"
  /\ i # None
  /\ AgentOf[w] \notin lostAgent
  /\ pipes' = pipes \cup PipesTo(i, w)
  /\ routers' = [routers EXCEPT ![i] = @ \cup {w}]
  /\ CreateClient(ch, i, w)
  /\ UNCHANGED <<chanVars, want, policy, joinRoom, roomVars, registry, lostAgent>>

\* A worker for a room that did not exist when it was asked for, and still
\* does not: the Room is created with this worker.
WorkerForNewRoom(ch, w) ==
  LET r == want[ch] IN
  /\ join[ch] = "worker"
  /\ joinRoom[ch] = None
  /\ registry[r] = None
  /\ AgentOf[w] \notin lostAgent
  /\ registry' = [registry EXCEPT ![r] = ch]
  /\ roomId' = [roomId EXCEPT ![ch] = r]
  /\ roomPolicy' = [roomPolicy EXCEPT ![ch] = policy[ch]]
  /\ roomWorker' = [roomWorker EXCEPT ![ch] = w]
  /\ routers' = [routers EXCEPT ![ch] = {w}]
  /\ CreateClient(ch, ch, w)
  /\ UNCHANGED <<chanVars, want, policy, joinRoom, pipes, lostAgent>>

\* ... and meanwhile does: the client enters that Room, on its own worker.
WorkerForRacingRoom(ch, w) ==
  LET i == registry[want[ch]] IN
  /\ join[ch] = "worker"
  /\ joinRoom[ch] = None
  /\ i # None
  /\ AgentOf[w] \notin lostAgent
  /\ CreateClient(ch, i, w)
  /\ UNCHANGED <<chanVars, want, policy, joinRoom, roomVars, sfuVars, registry, lostAgent>>

-----------------------------------------------------------------------------
(* Requests from nuve and events of the EA table.                          *)

\* deleteRoom: disconnect every client and forget the Room.
DeleteRoom(r) ==
  LET i == registry[r]
      D == {cChan[c] : c \in members[i]}
      S == Listening(OpenIn(D))
  IN
  /\ NuveDeletes
  /\ i # None
  /\ CloseChannels(D)
  /\ members' = MembersWithout(S)
  /\ clientCount' = CountsWithout(S, DisconnectListeners)
  /\ registry' = [RegistryWithout(S) EXCEPT ![r] = None]
  /\ UNCHANGED <<joinVars, roomVars, clientVars, sfuVars, lostAgent>>

\* deleteUser: disconnect the clients S of the room that have the name.
DeleteUser(r, S) ==
  /\ registry[r] # None
  /\ S # {}
  /\ S \subseteq members[registry[r]]
  /\ DisconnectChannels({cChan[c] : c \in S})
  /\ UNCHANGED <<joinVars, roomVars, clientVars, sfuVars, lostAgent>>

\* remove_ea: every client ever created on the EA disconnects its channel.
RemoveEa(a) ==
  /\ a \notin lostAgent
  /\ lostAgent' = lostAgent \cup {a}
  /\ DisconnectChannels({cChan[c] : c \in {x \in Chan : cRoom[x] # None /\ AgentOf[cWorker[x]] = a}})
  /\ UNCHANGED <<joinVars, roomVars, clientVars, sfuVars>>

\* The EA answers getErizoAgents again.
EaReturns(a) ==
  /\ a \in lostAgent
  /\ lostAgent' = lostAgent \ {a}
  /\ UNCHANGED <<chanVars, joinVars, roomVars, clientVars, sfuVars,
                 registry, members, clientCount>>

-----------------------------------------------------------------------------
WorkerAnswered(ch) ==
  \/ WorkerTimeout(ch)
  \/ \E w \in Worker : \/ WorkerForRoom(ch, w)
                       \/ WorkerForNewRoom(ch, w)
                       \/ WorkerForRacingRoom(ch, w)

TokenAnswered(ch) == TokenRefused(ch) \/ AdmitToRoom(ch) \/ AskForWorker(ch)

Next ==
  \/ \E ch \in Chan :
       \/ Connect(ch)
       \/ SocketCloses(ch)
       \/ SocketLost(ch)
       \/ ReconnectionTimeout(ch)
       \/ \E c \in Chan : Reconnect(ch, c)
       \/ ReconnectUnknown(ch)
       \/ \E r \in RoomId, p \in Policies : SendToken(ch, r, p)
       \/ TokenAnswered(ch)
       \/ WorkerAnswered(ch)
  \/ \E r \in RoomId : DeleteRoom(r)
  \/ \E r \in RoomId, S \in SUBSET Chan : DeleteUser(r, S)
  \/ \E a \in Agent : RemoveEa(a) \/ EaReturns(a)

Spec == Init /\ [][Next]_vars

\* Timers fire, and amqper answers every call with a reply or a timeout.
Fairness ==
  \A ch \in Chan :
    /\ WF_vars(ReconnectionTimeout(ch))
    /\ WF_vars(TokenAnswered(ch))
    /\ WF_vars(WorkerAnswered(ch))

FairSpec == Spec /\ Fairness

-----------------------------------------------------------------------------
(* Properties.                                                             *)

\* A registered room has a client: the EC keeps no empty room in its table,
\* whichever way its clients left (Room.onClientDisconnected, deleteRoom).
RegisteredRoomInUse ==
  \A r \in RoomId : registry[r] # None =>
    roomId[registry[r]] = r /\ members[registry[r]] # {}

\* A client whose socket is gone is still going to leave, because a
\* reconnection timer of its channel runs.  That includes a client thrown out
\* (deleteUser, deleteRoom, remove_ea) while it reconnects, whose
\* Channel.disconnect() clears a timer and causes no event.  The exception is
\* a client created after the last event of its channel.
DeadSocketWillLeave ==
  \A i, c \in Chan :
    /\ c \in members[i]
    /\ sock[cChan[c]] = "closed"
    => timers[cChan[c]] > 0 \/ c \in bornDead

\* SFUConManager never counts a client that is not there: a router it
\* cascades from (count > 0) has a client.
CountedRouterHasClient ==
  \A i \in Chan, w \in Worker : clientCount[i][w] > 0 =>
    \E c \in members[i] : cWorker[c] = w

\* A connected client of a ROOM-BEST room is found under its room's id, unless
\* nuve's deleteRoom has led to two Room objects with the id (the 'room-empty'
\* of the deleted one removes the entry of its successor).
LiveClientReachable ==
  \A i, c \in Chan :
    /\ c \in members[i]
    /\ sock[cChan[c]] = "open"
    /\ roomPolicy[i] = RoomBest
    => \/ registry[roomId[i]] = i
       \/ \E j \in Chan \ {i} : roomId[j] = roomId[i]

\* A client leaves its room only after its current channel's socket is gone: a
\* timer or an event of a channel it had before it reconnected cannot remove it.
NobodyLeavesWhileConnected ==
  [][\A i, c \in Chan : c \in members[i] /\ c \notin members'[i] =>
       sock'[cChan[c]] = "closed"]_vars

\* A client has entered a Room and not left it.
InRoom(c) == cRoom[c] # None /\ c \in members[cRoom[c]]

\* After its socket is gone, a client leaves its room or comes back on
\* another socket (Channel.onDisconnect, Client.setNewChannel).
GoneClientLeaves ==
  \A c \in Chan :
    (InRoom(c) /\ sock[cChan[c]] = "closed" /\ c \notin bornDead)
    ~> (~InRoom(c) \/ sock[cChan[c]] = "open")

\* The users found in the room of an id, and those who have left their Room.
Present == [r \in RoomId |-> IF registry[r] = None THEN {} ELSE members[registry[r]]]
Departed == {c \in Chan : cRoom[c] # None /\ c \notin members[cRoom[c]]}

Service == INSTANCE RoomService WITH User <- Chan, present <- Present, departed <- Departed

\* As long as nuve deletes no room, the ROOM-BEST rooms of an EC keep the
\* promise of RoomService: nobody vanishes from his room, enters twice or
\* returns after he left.
ImplementsRoomService == Service!Spec

-----------------------------------------------------------------------------
(* The inductive invariant the proofs use.                                 *)

\* A client object has its room, worker and channel, and exists exactly once
\* its channel was answered 'success'.
ClientInv ==
  \A c \in Chan :
    /\ cRoom[c] = None => cChan[c] = None /\ cWorker[c] = None
    /\ cRoom[c] # None => cChan[c] # None /\ cWorker[c] # None /\ roomId[cRoom[c]] # None
    /\ cRoom[c] # None <=> join[c] = "joined"

\* A client listens to its current channel only, and no channel carries two.
ListenerInv ==
  /\ \A c, ch \in Chan : c \in listeners[ch] <=> cChan[c] = ch
  /\ \A c, d \in Chan : cChan[c] # None /\ cChan[c] = cChan[d] => c = d
  /\ \A c \in Chan : cChan[c] # None => join[cChan[c]] \in {"joined", "rejoined"}

\* Reconnection timers run for closed sockets; a token was sent with a room.
ChannelInv ==
  \A ch \in Chan :
    /\ timers[ch] > 0 => sock[ch] = "closed"
    /\ join[ch] \in {"token", "worker"} => want[ch] # None
    /\ joinRoom[ch] # None => roomId[joinRoom[ch]] # None

\* Members belong to the Room, and a registered Room is a Room of the id, in use.
RoomInv ==
  /\ \A i, c \in Chan : c \in members[i] => cRoom[c] = i
  /\ \A i \in Chan : roomId[i] # None => join[i] = "joined"
  /\ \A r \in RoomId : registry[r] # None => roomWorker[registry[r]] # None
  /\ RegisteredRoomInUse

SessionInv ==
  /\ TypeOK
  /\ ClientInv
  /\ ListenerInv
  /\ ChannelInv
  /\ RoomInv
  /\ DeadSocketWillLeave
\* A router is counted for no more clients than are there.  It may be counted for
\* fewer, since a client that leaves is taken off once for each event.
CountInv ==
  \A i \in Chan, w \in Worker :
    clientCount[i][w] <= Cardinality({c \in members[i] : cWorker[c] = w})

\* Rooms with connected clients are found: a socket that did not connect has not
\* joined, and only TTL-BEST rooms are entered after they may have been deleted.
ReachInv ==
  /\ \A ch \in Chan : sock[ch] = "new" => join[ch] = "idle"
  /\ \A ch \in Chan : joinRoom[ch] # None => roomPolicy[joinRoom[ch]] = TtlBest
  /\ LiveClientReachable

\* The channel of a client that left its room causes no more events.
DepartedInv ==
  \A c \in Departed : sock[cChan[c]] = "closed" /\ timers[cChan[c]] = 0

\* A Room has the policy of the token that created it.
PolicyInv ==
  /\ \A ch \in Chan : join[ch] \in {"token", "worker"} => policy[ch] \in Policies
  /\ \A i \in Chan : roomId[i] # None => roomPolicy[i] \in Policies

\* Without deleteRoom and with ROOM-BEST alone, a Room with a client is the one
\* registered under its id, and no Room is captured for a later reply.
ServiceInv ==
  /\ DepartedInv
  /\ PolicyInv
  /\ \A i \in Chan : members[i] # {} => registry[roomId[i]] = i
  /\ \A ch \in Chan : joinRoom[ch] = None
=============================================================================
