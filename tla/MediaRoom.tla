------------------------------ MODULE MediaRoom ------------------------------
(***************************************************************************)
(* What clients do inside the room of an ErizoAgent (room.js, client.js):  *)
(* transports, producers and the consumers the EA creates for everybody    *)
(* else.  mediasoup is external: its calls are awaited, and what other     *)
(* requests do meanwhile is what this module is about.                     *)
(*                                                                         *)
(* Requests to one router are executed in the order they were made, so a   *)
(* call made on something open succeeds, even if it is closed before the   *)
(* answer is here; calls that fail change nothing and are left out.  Media *)
(* and data producers take the same way; pauses, layers, statistics and    *)
(* the ICE and DTLS of transports have no part in it.                      *)
(*                                                                         *)
(* A client comes once, to the room of its EA, and sends nothing more      *)
(* after its deleteUser; a room that was closed is not created again.      *)
(***************************************************************************)
EXTENDS Naturals, FiniteSets

CONSTANTS
  Agent,     \* ErizoAgents, each with a room
  User,      \* clients
  Home,      \* the EA whose room a client is in
  Producer,  \* ids of producers and data producers
  OwnerOf,   \* the client that may create a producer
  Data       \* the data producers among them

ASSUME HomeAssumption == Home \in [User -> Agent]
ASSUME ProducerAssumption == OwnerOf \in [Producer -> User] /\ Data \subseteq Producer

Direction == {"producing", "consuming"}

VARIABLES
  roomOpen,    \* EAs whose room (and its router) is open
  clients,     \* Room.clients
  left,        \* users whose deleteUser the EA has handled
  joined,      \* Client.joined
  capable,     \* clients that joined with capabilities to consume
  early,       \* history: clients that joined with a transport for consuming
  transports,  \* <<user, direction>>: open WebRtcTransports
  opening,     \* awaited createWebRtcTransport calls
  producers,   \* Client._producers and _dataProducers of the room's clients
  producing,   \* awaited produce calls
  started,     \* producers ever asked for: ids are not used again
  consumers,   \* <<user, producer, cause>>: Client._consumers
  creating     \* awaited consume calls

peerVars == <<roomOpen, clients, left, joined, capable, early>>
transportVars == <<transports, opening>>
producerVars == <<producers, producing, started>>
consumerVars == <<consumers, creating>>
vars == <<peerVars, transportVars, producerVars, consumerVars>>

\* The cause is the handler that makes the consumer.
Consumer == User \X Producer \X {"join", "produce"}

TypeOK ==
  /\ roomOpen \subseteq Agent
  /\ clients \subseteq User
  /\ left \subseteq User
  /\ joined \subseteq User
  /\ capable \subseteq User
  /\ early \subseteq User
  /\ transports \subseteq User \X Direction
  /\ opening \subseteq User \X Direction
  /\ producers \subseteq Producer
  /\ producing \subseteq Producer
  /\ started \subseteq Producer
  /\ consumers \subseteq Consumer
  /\ creating \subseteq Consumer

Init ==
  /\ roomOpen = Agent
  /\ clients = {}
  /\ left = {}
  /\ joined = {}
  /\ capable = {}
  /\ early = {}
  /\ transports = {}
  /\ opening = {}
  /\ producers = {}
  /\ producing = {}
  /\ started = {}
  /\ consumers = {}
  /\ creating = {}

-----------------------------------------------------------------------------
Local(a) == {u \in User : Home[u] = a}

\* Clients who get a consumer when somebody's producer comes.
CanConsume(u) == u \in joined \cap capable /\ <<u, "consuming">> \in transports

\* getRouterRtpCapabilities, the first request, creates the client.
AddClient(u) ==
  /\ Home[u] \in roomOpen
  /\ u \notin clients \cup left
  /\ clients' = clients \cup {u}
  /\ UNCHANGED <<roomOpen, left, joined, capable, early, transportVars, producerVars, consumerVars>>

CreateTransport(u, d) ==
  /\ u \in clients
  /\ <<u, d>> \notin transports \cup opening
  /\ opening' = opening \cup {<<u, d>>}
  /\ UNCHANGED <<peerVars, transports, producerVars, consumerVars>>

\* The answer to createWebRtcTransport.  The client may have left: then the
\* transport stays until the room is closed.
TransportCreated(u, d) ==
  /\ <<u, d>> \in opening
  /\ opening' = opening \ {<<u, d>>}
  /\ transports' = IF Home[u] \in roomOpen THEN transports \cup {<<u, d>>} ELSE transports
  /\ UNCHANGED <<peerVars, producerVars, consumerVars>>

\* Mutation: the consumers are made before the client counts as joined, in a
\* turn of their own, and the client joins without them.
JoinLater(u, able) ==
  /\ u \in clients \ joined
  /\ joined' = joined \cup {u}
  /\ capable' = IF able THEN capable \cup {u} ELSE capable
  /\ early' = IF <<u, "consuming">> \in transports THEN early \cup {u} ELSE early
  /\ UNCHANGED <<roomOpen, clients, left, transportVars, producerVars, consumerVars>>

\* join: the client gets a consumer of every producer in the room, if it told
\* its capabilities and has a transport for consuming.
Join(u, able) ==
  LET hear == able /\ <<u, "consuming">> \in transports
      others == {p \in producers : Home[OwnerOf[p]] = Home[u]}
  IN
  /\ u \in clients \ joined
  /\ joined' = joined \cup {u}
  /\ capable' = IF able THEN capable \cup {u} ELSE capable
  /\ early' = IF <<u, "consuming">> \in transports THEN early \cup {u} ELSE early
  /\ creating' = IF hear THEN creating \cup ({u} \X others \X {"join"}) ELSE creating
  /\ UNCHANGED <<roomOpen, clients, left, transportVars, producerVars, consumers>>

\* produce and produceData.
Produce(p) ==
  /\ p \notin started
  /\ OwnerOf[p] \in joined
  /\ <<OwnerOf[p], "producing">> \in transports
  /\ started' = started \cup {p}
  /\ producing' = producing \cup {p}
  /\ UNCHANGED <<peerVars, transportVars, producers, consumerVars>>

\* Mutation: the producer itself is among those who get a consumer.
AllListeners(p) == {u \in User : CanConsume(u) /\ Home[u] = Home[OwnerOf[p]]}

\* The others in the room who can consume producer p.
Listeners(p) ==
  {u \in User \ {OwnerOf[p]} : CanConsume(u) /\ Home[u] = Home[OwnerOf[p]]}

\* Mutation: producer and consumer are mixed up.
ProducerCreatedSwapped(p) ==
  /\ p \in producing
  /\ OwnerOf[p] \in clients
  /\ producing' = producing \ {p}
  /\ producers' = producers \cup {p}
  /\ creating' = creating \cup ({p} \X Listeners(p) \X {"produce"})
  /\ UNCHANGED <<peerVars, transportVars, started, consumers>>

\* The answer to produce: the producer is stored, and everybody who has joined
\* meanwhile gets a consumer.
ProducerCreated(p) ==
  /\ p \in producing
  /\ OwnerOf[p] \in clients
  /\ producing' = producing \ {p}
  /\ producers' = producers \cup {p}
  /\ creating' = creating \cup (Listeners(p) \X {p} \X {"produce"})
  /\ UNCHANGED <<peerVars, transportVars, started, consumers>>

\* The client has left: its transport is closed and the producer with it.
ProducerLost(p) ==
  /\ p \in producing
  /\ OwnerOf[p] \notin clients
  /\ producing' = producing \ {p}
  /\ UNCHANGED <<peerVars, transportVars, producers, started, consumerVars>>

CloseProducer(p) ==
  /\ p \in producers \ Data
  /\ producers' = producers \ {p}
  /\ UNCHANGED <<peerVars, transportVars, producing, started, consumerVars>>

\* Mutation: the consumer is not stored with its client.
ConsumerNotStored(c) ==
  /\ c \in creating
  /\ UNCHANGED vars

\* The answer to consume.
ConsumerCreated(c) ==
  /\ c \in creating
  /\ creating' = creating \ {c}
  /\ consumers' = consumers \cup {c}
  /\ UNCHANGED <<peerVars, transportVars, producerVars>>

\* Mutation: the consumer stays in the table of its client.
ProducerClosedKept(c) ==
  /\ c \in consumers
  /\ c[2] \notin producers
  /\ UNCHANGED vars

\* The event producerclose: the consumer is removed and its client told.
ProducerClosed(c) ==
  /\ c \in consumers
  /\ c[2] \notin producers
  /\ consumers' = consumers \ {c}
  /\ UNCHANGED <<peerVars, transportVars, producerVars, creating>>

\* Mutation: a client that leaves is taken from the room, its transports stay.
NobodyCloses(u) == {}

\* The users whose transports close when u is deleted: u, or everybody who
\* was ever in the room if nobody else is in it, since its router closes.
Closing(u) == IF clients \cap Local(Home[u]) \subseteq {u} THEN Local(Home[u]) ELSE {u}

\* deleteUser: Client.close and Room.onClientDisconnected.
DeleteUser(u) ==
  LET gone == Closing(u) IN
  /\ Home[u] \in roomOpen
  /\ u \notin left
  /\ left' = left \cup {u}
  /\ clients' = clients \ {u}
  /\ joined' = joined \ {u}
  /\ roomOpen' = IF clients \cap Local(Home[u]) \subseteq {u} THEN roomOpen \ {Home[u]} ELSE roomOpen
  /\ transports' = {t \in transports : t[1] \notin gone}
  /\ producers' = {p \in producers : OwnerOf[p] \notin gone}
  /\ consumers' = {c \in consumers : c[1] \notin gone}
  /\ creating' = {c \in creating : c[1] \notin gone}
  /\ UNCHANGED <<capable, early, opening, producing, started>>

-----------------------------------------------------------------------------
Next ==
  \/ \E u \in User :
       \/ AddClient(u)
       \/ \E d \in Direction : CreateTransport(u, d) \/ TransportCreated(u, d)
       \/ \E able \in BOOLEAN : Join(u, able)
       \/ DeleteUser(u)
  \/ \E p \in Producer :
       \/ Produce(p)
       \/ ProducerCreated(p)
       \/ ProducerLost(p)
       \/ CloseProducer(p)
  \/ \E c \in Consumer : ConsumerCreated(c) \/ ProducerClosed(c)

Spec == Init /\ [][Next]_vars

\* mediasoup answers and tells of closed producers.
Fairness ==
  /\ \A p \in Producer : WF_vars(ProducerCreated(p) \/ ProducerLost(p))
  /\ \A c \in Consumer : WF_vars(ConsumerCreated(c)) /\ WF_vars(ProducerClosed(c))

FairSpec == Spec /\ Fairness

-----------------------------------------------------------------------------
(* Properties.                                                             *)

\* Client u is to hear producer p: it joined in time and able to.
Audience(u, p) ==
  /\ u \in joined \cap capable \cap early
  /\ u # OwnerOf[p]
  /\ Home[u] = Home[OwnerOf[p]]
  /\ p \in producers

ConsumersOf(u, p) == {c \in consumers \cup creating : c[1] = u /\ c[2] = p}

\* Whoever joined gets one consumer of each producer of the others, be it from
\* its own join or from the answer to produce, however the two awaits fall
\* (handleUserRequest: join, produce, produceData).
OneConsumerEach ==
  \A u \in User, p \in Producer : Audience(u, p) => \E c \in Consumer : ConsumersOf(u, p) = {c}

\* Nobody consumes its own producer, and nothing is left in the room of what a
\* user who left had, except a transport that was being created (Client.close,
\* produce).
NothingLeftBehind ==
  /\ \A c \in consumers \cup creating : c[1] \in clients /\ c[1] # OwnerOf[c[2]]
  /\ \A p \in producers : OwnerOf[p] \in clients

\* Consumers of a producer that was closed, or whose client left, go away.
ClosedProducerForgotten ==
  \A c \in Consumer : (c \in consumers \cup creating /\ c[2] \notin producers) ~> c \notin consumers \cup creating

\* Everybody who joined hears a producer, unless it is closed or one leaves.
EverybodyHears ==
  \A u \in User, p \in Producer :
    Audience(u, p) ~> (~Audience(u, p) \/ \E c \in consumers : c[1] = u /\ c[2] = p)

-----------------------------------------------------------------------------
(* The inductive invariant the proofs use.                                 *)

ClientInv ==
  /\ joined \subseteq clients
  /\ clients \cap left = {}
  /\ capable \cup early \subseteq joined \cup left
  /\ \A u \in joined \cap early : <<u, "consuming">> \in transports

ProducerInv ==
  /\ producing \cup producers \subseteq started
  /\ producing \cap producers = {}
  /\ \A p \in producers : OwnerOf[p] \in joined
  /\ \A p \in producing : OwnerOf[p] \in joined \cup left

\* A consumer is for a client that joined, and comes when its producer is
\* there, not before.
ConsumerInv ==
  \A c \in consumers \cup creating :
    /\ c[1] \in joined
    /\ c[1] # OwnerOf[c[2]]
    /\ c[2] \in started \ producing

MediaInv ==
  /\ TypeOK
  /\ ClientInv
  /\ ProducerInv
  /\ ConsumerInv
  /\ OneConsumerEach
=============================================================================
