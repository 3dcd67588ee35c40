------------------------------ MODULE AgentRooms ------------------------------
(***************************************************************************)
(* The rooms of the ErizoAgents (EA): the handlers of the EA's rpcPublic.js*)
(* that create rooms and clients and delete them, with the table of rooms  *)
(* (rooms.js) and the clients of a room (room.js, client.js).  What a      *)
(* client does inside its room (transports, producers) is not modelled     *)
(* here.                                                                   *)
(*                                                                         *)
(* A room of an EA is named by the room id and its mediasoup router.  The  *)
(* awaits of a room's creation run in an AwaitQueue, so no two requests    *)
(* for a worker overlap and a creation is one step.  The creation of a     *)
(* client is two: the room is looked up, and after the awaits of           *)
(* getOrCreateClient the client is put into it, open or closed.            *)
(***************************************************************************)
EXTENDS Naturals, FiniteSets

CONSTANTS
  Agent,    \* ErizoAgents
  RoomId,   \* room identifiers
  Router,   \* mediasoup routers
  HostOf,   \* the EA whose worker processes can create a router
  User,     \* client ids, given by the ECs
  Controller, \* ErizoControllers
  None      \* undefined

VARIABLES
  eaRouter,   \* Rooms.rooms: the router of an EA's room, None without a room
  eaOwner,    \* Room.erizoControllerId
  eaClients,  \* Room.clients
  eaEntering, \* the room (its router) a user's first request found, until it is in
  eaAstray,   \* users put into a Room that had been closed meanwhile
  eaUsed,     \* routers created so far: a closed one does not come back
  eaState     \* myState: 1 in service, 0 after SIGTERM

eaVars == <<eaRouter, eaOwner, eaClients, eaEntering, eaAstray, eaUsed, eaState>>

TypeOK ==
  /\ eaRouter \in [Agent -> [RoomId -> Router \cup {None}]]
  /\ eaOwner \in [Agent -> [RoomId -> Controller \cup {None}]]
  /\ eaClients \in [Agent -> [RoomId -> SUBSET User]]
  /\ eaEntering \in [User -> Router \cup {None}]
  /\ eaAstray \subseteq User
  /\ eaUsed \subseteq Router
  /\ eaState \in [Agent -> {0, 1}]

Init ==
  /\ eaRouter = [a \in Agent |-> [r \in RoomId |-> None]]
  /\ eaOwner = [a \in Agent |-> [r \in RoomId |-> None]]
  /\ eaClients = [a \in Agent |-> [r \in RoomId |-> {}]]
  /\ eaEntering = [u \in User |-> None]
  /\ eaAstray = {}
  /\ eaUsed = {}
  /\ eaState = [a \in Agent |-> 1]

HasRoom(a, r) == eaRouter[a][r] # None

\* getMediasoupWork on an EA that has the room: it answers with the room's
\* router and keeps the room's erizoControllerId.
WorkOnRoom(a, r) ==
  /\ eaState[a] # 0
  /\ HasRoom(a, r)
  /\ UNCHANGED eaVars

\* getMediasoupWork on an EA without the room: create it on a new router w.
WorkOnNewRoom(a, r, ec, w) ==
  /\ eaState[a] # 0
  /\ ~HasRoom(a, r)
  /\ HostOf[w] = a
  /\ w \notin eaUsed
  /\ eaRouter' = [eaRouter EXCEPT ![a][r] = w]
  /\ eaOwner' = [eaOwner EXCEPT ![a][r] = ec]
  /\ eaUsed' = eaUsed \cup {w}
  /\ UNCHANGED <<eaClients, eaEntering, eaAstray, eaState>>

\* handleUserRequest with getRouterRtpCapabilities, a client's first request,
\* finds the room.
FindRoom(a, r, u) ==
  /\ HasRoom(a, r)
  /\ eaEntering[u] = None
  /\ eaEntering' = [eaEntering EXCEPT ![u] = eaRouter[a][r]]
  /\ UNCHANGED <<eaRouter, eaOwner, eaClients, eaAstray, eaUsed, eaState>>

\* getOrCreateClient is back: the client goes into the room that was found.
AddUser(a, r, u) ==
  /\ eaEntering[u] # None
  /\ eaEntering' = [eaEntering EXCEPT ![u] = None]
  /\ IF eaRouter[a][r] = eaEntering[u]
       THEN /\ eaClients' = [eaClients EXCEPT ![a][r] = @ \cup {u}]
            /\ UNCHANGED eaAstray
       ELSE /\ eaAstray' = eaAstray \cup {u}
            /\ UNCHANGED eaClients
  /\ UNCHANGED <<eaRouter, eaOwner, eaUsed, eaState>>

\* Mutation: the room is closed without looking at who is left in it.
AlwaysEmpty(a, r, u) == TRUE

\* Room.onClientDisconnected once user u, if it was there, is removed.
EmptyWithout(a, r, u) == eaClients[a][r] \subseteq {u}

\* deleteUser closes the user, and the room if nobody is left or was there.
DeleteUser(a, r, u) ==
  /\ HasRoom(a, r)
  /\ IF EmptyWithout(a, r, u)
       THEN /\ eaRouter' = [eaRouter EXCEPT ![a][r] = None]
            /\ eaOwner' = [eaOwner EXCEPT ![a][r] = None]
            /\ eaClients' = [eaClients EXCEPT ![a][r] = {}]
       ELSE /\ eaClients' = [eaClients EXCEPT ![a][r] = @ \ {u}]
            /\ UNCHANGED <<eaRouter, eaOwner>>
  /\ UNCHANGED <<eaEntering, eaAstray, eaUsed, eaState>>

\* Mutation: it closes every room there is.
CloseEveryRoom(a, ec) ==
  /\ eaRouter' = [eaRouter EXCEPT ![a] = [r \in RoomId |-> None]]
  /\ eaOwner' = [eaOwner EXCEPT ![a] = [r \in RoomId |-> None]]
  /\ eaClients' = [eaClients EXCEPT ![a] = [r \in RoomId |-> {}]]
  /\ UNCHANGED <<eaEntering, eaAstray, eaUsed, eaState>>

\* handleEcDown closes every room opened for the EC.
HandleEcDown(a, ec) ==
  LET down == {r \in RoomId : HasRoom(a, r) /\ eaOwner[a][r] = ec} IN
  /\ eaRouter' = [eaRouter EXCEPT ![a] = [r \in RoomId |-> IF r \in down THEN None ELSE @[r]]]
  /\ eaOwner' = [eaOwner EXCEPT ![a] = [r \in RoomId |-> IF r \in down THEN None ELSE @[r]]]
  /\ eaClients' = [eaClients EXCEPT ![a] = [r \in RoomId |-> IF r \in down THEN {} ELSE @[r]]]
  /\ UNCHANGED <<eaEntering, eaAstray, eaUsed, eaState>>

\* SIGTERM: no more worker requests are served.
Drain(a) ==
  /\ eaState[a] = 1
  /\ eaState' = [eaState EXCEPT ![a] = 0]
  /\ UNCHANGED <<eaRouter, eaOwner, eaClients, eaEntering, eaAstray, eaUsed>>

-----------------------------------------------------------------------------
\* For the proofs: the router of an EA's room is one of its own.
HostInv == \A a \in Agent, r \in RoomId : HasRoom(a, r) => HostOf[eaRouter[a][r]] = a

\* For the proofs: the router of a room, open or found by a request, was created.
UsedInv ==
  /\ \A a \in Agent, r \in RoomId : eaRouter[a][r] \in eaUsed \cup {None}
  /\ \A u \in User : eaEntering[u] \in eaUsed \cup {None}
=============================================================================
