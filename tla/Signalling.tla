------------------------------ MODULE Signalling ------------------------------
(***************************************************************************)
(* One ErizoController and the ErizoAgents it uses, with the messages      *)
(* between them.  The sessions of the EC are EcSession, the rooms of the   *)
(* EAs are AgentRooms; this module adds                                    *)
(*   - getMediasoupWork requests and replies, with retries: a request is   *)
(*     taken by any EA (queue 'ErizoAgent', or the one the policy chose),  *)
(*     and a reply to an attempt that timed out is dropped (amqper.js);    *)
(*   - deleteUser, broadcast to every EA when a client leaves, once for    *)
(*     each 'disconnect' event;                                            *)
(*   - the first request of a client, getRouterRtpCapabilities, forwarded  *)
(*     to its EA, which finds the room, creates the client and answers.    *)
(* Requests and broadcasts travel in different queues, so either may       *)
(* overtake the other.                                                     *)
(***************************************************************************)
EXTENDS Integers, FiniteSets

CONSTANTS
  Chan, RoomId, Worker, Agent, AgentOf, None,
  ThisEc,       \* the EC
  MaxRetries,   \* bound of getMeiasoupWorkerTryAgain (5 in the code)
  SocketsLost,  \* whether sockets are lost without a closing handshake
  Drainable     \* the EAs that may receive SIGTERM

ASSUME ChanAssumption == IsFiniteSet(Chan)
ASSUME NoneAssumption == None \notin Chan \cup RoomId \cup Worker
ASSUME AgentOfAssumption == AgentOf \in [Worker -> Agent]
ASSUME RetriesAssumption == MaxRetries \in Nat

VARIABLES
  sock, chState, timers, join, want, policy, joinRoom, registry, roomId,
  roomPolicy, roomWorker, members, cRoom, cWorker, cChan, listeners,
  routers, clientCount, pipes, lostAgent, bornDead,
  eaRouter, eaOwner, eaClients, eaEntering, eaAstray, eaUsed, eaState,
  tries,      \* worker requests sent for a channel so far
  requests,   \* <<channel, attempt>> of getMediasoupWork on their way
  replies,    \* <<channel, attempt, worker>> on their way back
  pending,    \* deleteUser messages an EA has yet to handle, by client
  caps,       \* getRouterRtpCapabilities: "none", "sent", "ok" or "error"
  late        \* users an EA created after it had handled their deleteUser

Policies == {"ROOM-BEST"}
NuveDeletes == FALSE

Ec == INSTANCE EcSession
Ea == INSTANCE AgentRooms WITH Router <- Worker, HostOf <- AgentOf, User <- Chan,
                           Controller <- {ThisEc}

ecVars == <<sock, chState, timers, join, want, policy, joinRoom, registry, roomId,
            roomPolicy, roomWorker, members, cRoom, cWorker, cChan, listeners,
            routers, clientCount, pipes, lostAgent, bornDead>>
eaVars == <<eaRouter, eaOwner, eaClients, eaEntering, eaAstray, eaUsed, eaState>>
netVars == <<tries, requests, replies, pending, caps, late>>
vars == <<ecVars, eaVars, netVars>>

TypeOK ==
  /\ Ec!TypeOK
  /\ Ea!TypeOK
  /\ tries \in [Chan -> 0..(MaxRetries + 1)]
  /\ requests \subseteq Chan \X (1..(MaxRetries + 1))
  /\ replies \subseteq Chan \X (1..(MaxRetries + 1)) \X Worker
  /\ pending \in [Agent -> [Chan -> 0..2]]
  /\ caps \in [Chan -> {"none", "sent", "ok", "error"}]
  /\ late \subseteq Chan

Init ==
  /\ Ec!Init
  /\ Ea!Init
  /\ tries = [ch \in Chan |-> 0]
  /\ requests = {}
  /\ replies = {}
  /\ pending = [a \in Agent |-> [c \in Chan |-> 0]]
  /\ caps = [c \in Chan |-> "none"]
  /\ late = {}

-----------------------------------------------------------------------------
(* Steps of the EC.                                                        *)

\* Mutation: the EAs are not told of the last client of a room.
LeavingOthers ==
  {c \in Chan : /\ Ec!InRoom(c)
                /\ c \notin members'[cRoom[c]]
                /\ members'[cRoom[c]] # {}}

\* Clients that a step of the EC removes from their room, and how many
\* 'disconnect' events, so deleteUser broadcasts, each of them sees.
Leaving == {c \in Chan : Ec!InRoom(c) /\ c \notin members'[cRoom[c]]}
Events(c) == IF timers[cChan[c]] > 0 THEN timers[cChan[c]] ELSE Ec!DisconnectListeners

\* Room.removeClientEA: tell every EA.
BroadcastLeaving ==
  pending' = [a \in Agent |-> [c \in Chan |->
    pending[a][c] + IF c \in Leaving THEN Events(c) ELSE 0]]

SocketStep(ch) ==
  /\ \/ Ec!Connect(ch)
     \/ \E r \in RoomId : Ec!SendToken(ch, r, "ROOM-BEST")
     \/ Ec!SocketCloses(ch)
     \/ SocketsLost /\ Ec!SocketLost(ch)
     \/ Ec!ReconnectionTimeout(ch)
     \/ Ec!AdmitToRoom(ch)
  /\ BroadcastLeaving
  /\ UNCHANGED <<eaVars, tries, requests, replies, caps, late>>

SendRequest(ch) ==
  /\ tries' = [tries EXCEPT ![ch] = @ + 1]
  /\ requests' = requests \cup {<<ch, tries[ch] + 1>>}

AskForWorker(ch) ==
  /\ Ec!AskForWorker(ch)
  /\ SendRequest(ch)
  /\ UNCHANGED <<eaVars, replies, pending, caps, late>>

\* Mutation: one attempt too many.
RetryOnceMore(ch) ==
  /\ join[ch] = "worker"
  /\ tries[ch] <= MaxRetries + 1
  /\ SendRequest(ch)
  /\ UNCHANGED <<ecVars, eaVars, replies, pending, caps, late>>

\* The current attempt times out and another one is made.
Retry(ch) ==
  /\ join[ch] = "worker"
  /\ tries[ch] <= MaxRetries
  /\ SendRequest(ch)
  /\ UNCHANGED <<ecVars, eaVars, replies, pending, caps, late>>

GiveUp(ch) ==
  /\ tries[ch] = MaxRetries + 1
  /\ Ec!WorkerTimeout(ch)
  /\ UNCHANGED <<eaVars, netVars>>

\* The reply to the current attempt: the client is created.
WorkerArrives(ch, w) ==
  /\ <<ch, tries[ch], w>> \in replies
  /\ Ec!WorkerForNewRoom(ch, w) \/ Ec!WorkerForRacingRoom(ch, w)
  /\ replies' = replies \ {<<ch, tries[ch], w>>}
  /\ UNCHANGED <<eaVars, tries, requests, pending, caps, late>>

\* A client that was told 'success' sends its first request.
RequestCaps(c) ==
  /\ Ec!InRoom(c)
  /\ sock[cChan[c]] = "open"
  /\ caps[c] = "none"
  /\ caps' = [caps EXCEPT ![c] = "sent"]
  /\ UNCHANGED <<ecVars, eaVars, tries, requests, replies, pending, late>>

-----------------------------------------------------------------------------
(* Steps of the EAs.                                                       *)

\* An EA in service takes a worker request and answers with its router.
TakeRequest(a, ch, n) ==
  LET r == want[ch] IN
  /\ <<ch, n>> \in requests
  /\ requests' = requests \ {<<ch, n>>}
  /\ Ea!WorkOnRoom(a, r) \/ \E w \in Worker : Ea!WorkOnNewRoom(a, r, ThisEc, w)
  /\ replies' = IF n = tries[ch] /\ join[ch] = "worker"
                  THEN replies \cup {<<ch, n, eaRouter'[a][r]>>} ELSE replies
  /\ UNCHANGED <<ecVars, tries, pending, caps, late>>

\* A draining EA takes a worker request and says nothing.
SwallowRequest(a, ch, n) ==
  /\ <<ch, n>> \in requests
  /\ eaState[a] = 0
  /\ requests' = requests \ {<<ch, n>>}
  /\ UNCHANGED <<ecVars, eaVars, tries, replies, pending, caps, late>>

\* The EA and the room of a client.
AgentFor(c) == AgentOf[cWorker[c]]
RoomOf(c) == roomId[cRoom[c]]

\* The first request of a client reaches its EA, which has the room or not.
HandleCaps(c) ==
  /\ caps[c] = "sent" /\ eaEntering[c] = None
  /\ IF Ea!HasRoom(AgentFor(c), RoomOf(c))
       THEN Ea!FindRoom(AgentFor(c), RoomOf(c), c) /\ UNCHANGED caps
       ELSE caps' = [caps EXCEPT ![c] = "error"] /\ UNCHANGED eaVars
  /\ UNCHANGED <<ecVars, tries, requests, replies, pending, late>>

\* The client is created in the Room found, and answered 'success' in any case.
AnswerCaps(c) ==
  LET a == AgentFor(c) IN
  /\ Ea!AddUser(a, RoomOf(c), c)
  /\ caps' = [caps EXCEPT ![c] = "ok"]
  /\ late' = IF ~Ec!InRoom(c) /\ pending[a][c] = 0 THEN late \cup {c} ELSE late
  /\ UNCHANGED <<ecVars, tries, requests, replies, pending>>

HandleDeleteUser(a, c) ==
  LET r == RoomOf(c) IN
  /\ pending[a][c] > 0
  /\ pending' = [pending EXCEPT ![a][c] = @ - 1]
  /\ IF Ea!HasRoom(a, r) THEN Ea!DeleteUser(a, r, c) ELSE UNCHANGED eaVars
  /\ UNCHANGED <<ecVars, tries, requests, replies, caps, late>>

Drain(a) == Ea!Drain(a) /\ UNCHANGED <<ecVars, netVars>>

-----------------------------------------------------------------------------
Next ==
  \/ \E ch \in Chan :
       \/ SocketStep(ch)
       \/ AskForWorker(ch)
       \/ Retry(ch)
       \/ GiveUp(ch)
       \/ \E w \in Worker : WorkerArrives(ch, w)
       \/ RequestCaps(ch)
       \/ HandleCaps(ch)
       \/ AnswerCaps(ch)
  \/ \E a \in Agent :
       \/ \E ch \in Chan, n \in 1..(MaxRetries + 1) : TakeRequest(a, ch, n) \/ SwallowRequest(a, ch, n)
       \/ \E c \in Chan : HandleDeleteUser(a, c)
       \/ a \in Drainable /\ Drain(a)

Spec == Init /\ [][Next]_vars

-----------------------------------------------------------------------------
(* Properties.                                                             *)

\* Some client of room r of the EC has left it.
SomeoneLeft(r) == \E d \in Ec!Departed : RoomOf(d) = r

\* As long as a client is in its room of the EC, only another one that leaves the
\* same room can do it harm: without, its first request is never refused, the
\* client never goes into a Room that was closed, and once admitted it stays
\* whoever leaves, whatever a retry of a worker request or an old deleteUser does.
ServedClientKept ==
  \A c \in Chan : Ec!InRoom(c) =>
    /\ caps[c] = "ok" => c \in eaClients[AgentFor(c)][RoomOf(c)] \/ c \in eaAstray
    /\ caps[c] = "error" \/ c \in eaAstray => SomeoneLeft(RoomOf(c))

\* An EA that still has a client which left the EC has its deleteUser in its
\* queue, unless the client's first request came after the deleteUser.
LeftClientBeingDeleted ==
  \A a \in Agent, r \in RoomId : \A c \in eaClients[a][r] :
    Ec!InRoom(c) \/ pending[a][c] > 0 \/ c \in late
-----------------------------------------------------------------------------
(* The inductive invariant the proofs use.                                 *)

\* Only channels whose token was accepted have asked for a worker.
RequestInv ==
  /\ \A m \in requests : join[m[1]] # "idle" /\ want[m[1]] \in RoomId
  /\ \A ch \in Chan : join[ch] \in {"idle", "token"} => tries[ch] = 0

\* deleteUser is sent for clients that have left, and first requests are those
\* of clients that exist.
PendingInv ==
  /\ \A a \in Agent, c \in Chan : pending[a][c] > 0 => c \in Ec!Departed
  /\ \A c \in Chan : caps[c] # "none" => cRoom[c] # None

\* A client of an EA's room was admitted by the EA it was assigned, to its room.
AdmittedInv ==
  \A a \in Agent, r \in RoomId : \A c \in eaClients[a][r] :
    /\ Ea!HasRoom(a, r)
    /\ caps[c] = "ok"
    /\ a = AgentFor(c) /\ r = RoomOf(c)

\* The room of a client, of a Room of the EC and of a reply is there, or somebody
\* has left it.
RoomKept(w, r) == Ea!HasRoom(AgentOf[w], r) \/ SomeoneLeft(r)
RoomsKeptInv ==
  /\ \A i \in Chan : roomId[i] # None =>
       roomWorker[i] \in Worker /\ RoomKept(roomWorker[i], roomId[i])
  /\ \A c \in Chan : cRoom[c] # None => RoomKept(cWorker[c], RoomOf(c))
  /\ \A m \in replies :
       join[m[1]] # "idle" /\ want[m[1]] \in RoomId /\ RoomKept(m[3], want[m[1]])

\* The Room a client is being put into is still its room, or somebody has left;
\* those put into a closed one were answered all the same.
EnteringInv ==
  /\ \A c \in Chan : eaEntering[c] # None =>
       /\ caps[c] = "sent"
       /\ eaRouter[AgentFor(c)][RoomOf(c)] = eaEntering[c] \/ SomeoneLeft(RoomOf(c))
  /\ \A c \in eaAstray : caps[c] = "ok"

SignalInv ==
  /\ TypeOK
  /\ RequestInv
  /\ PendingInv
  /\ Ea!HostInv
  /\ AdmittedInv
  /\ RoomsKeptInv
  /\ EnteringInv
  /\ ServedClientKept
  /\ LeftClientBeingDeleted
=============================================================================
