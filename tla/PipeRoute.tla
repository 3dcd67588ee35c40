------------------------------- MODULE PipeRoute -------------------------------
(***************************************************************************)
(* SFU cascade: the rooms of two ErizoAgents (EAs) that serve one room of  *)
(* an EC are connected by a pipe (room.js: handlePipRoute and the          *)
(* createPip..., connectPip..., closePip... handlers it calls, with what   *)
(* join, produce and the end of a producer do when there is a pipe).       *)
(*                                                                         *)
(* EA "from" runs handlePipRoute and calls EA "to".  A user has one EA, its*)
(* home; at the other one it may be a guest: a Client made for the         *)
(* producers piped there.  Consumers inside a home room are in MediaRoom;  *)
(* here a client comes and joins in one step, able to consume.             *)
(*                                                                         *)
(* Calls to an EA go through its queue in the order they were sent;        *)
(* deleteUser is a broadcast of the EC and overtakes them.  One cascade is *)
(* made, a room that was closed does not come back and a deleteUser is     *)
(* handled once.  Pauses and data producers (which are not piped) are left *)
(* out.                                                                    *)
(***************************************************************************)
EXTENDS Naturals, Sequences, FiniteSets

CONSTANTS
  User,      \* clients
  Home,      \* the EA whose client a user is
  Producer,  \* ids of producers
  OwnerOf,   \* the client that may create a producer
  Leaver,    \* bound: the users whose deleteUser may come
  Before,    \* bound: producers (ids are interchangeable) made before a producer
  MaxEvents, \* bound: producers made and closed and users deleted
  None       \* undefined

Side == {"from", "to"}
Other(s) == IF s = "from" THEN "to" ELSE "from"

ASSUME HomeAssumption == Home \in [User -> Side]
ASSUME OwnerAssumption == OwnerOf \in [Producer -> User] /\ None \notin Producer
ASSUME LeaverAssumption == Leaver \subseteq User
ASSUME BeforeAssumption == Before \in [Producer -> SUBSET Producer]
ASSUME MaxEventsAssumption == MaxEvents \in Nat

Snapshot == "snapshot"  \* the batch of producers handlePipRoute sends
Reply == "reply"        \* the batch createPipTransportConsume answers with
Made == {Snapshot, "produce"}

ASSUME KeyAssumption == {Snapshot, Reply} \cap Producer = {}

VARIABLES
  roomOpen,  \* EAs whose room is open
  clients,   \* Room.clients of each EA, guests included
  left,      \* users whose deleteUser an EA has handled
  started,   \* producers ever made
  mapped,    \* Client._producers of the home clients, kept by who left
  open,      \* home producers that are not closed
  fanning,   \* producers for which produce awaits a consumer on the pipe
  pipeCons,  \* <<producer, handler>>: consumers on the pipe, _mapPipeConsumes
  known,     \* EAs whose pipe transport is in _mapPipeTransports
  pair,      \* EAs with the pipe in _mapRouterPipeTransports
  piped,     \* _mapPipeProduces of the EA that is not the producer's home
  guestHas,  \* Client._producers of the guests
  heard,     \* <<user, producer>>: consumers, made or being made, of piped producers
  phase,     \* progress of handlePipRoute
  answered,  \* calls of handlePipRoute that were answered
  scan,      \* the loops over clients: "idle", "running", "done"
  cur,       \* the consume the loop of a client awaits: <<producer, will succeed>>
  seen,      \* producers the loop of a client is through with
  taken,     \* those whose consumer the loop has made
  counted,   \* clients the loops have counted (usercount)
  reply,     \* what createPipTransportConsume answered
  mail,      \* calls on their way to an EA
  batches,   \* batches whose producers an EA is making
  refused,   \* history: producers whose closePipProduce found nothing
  disturbed  \* history: EAs whose clients or producers changed during the loops, or were none

roomVars == <<roomOpen, clients, left>>
producerVars == <<started, mapped, open, fanning>>
pipeVars == <<pipeCons, known, pair, piped, guestHas, heard>>
routeVars == <<phase, answered>>
scanVars == <<scan, cur, seen, taken, counted, reply>>
vars == <<roomVars, producerVars, pipeVars, routeVars, scanVars, mail, batches, refused, disturbed>>

Batch == [key : Producer \cup {Snapshot, Reply}, peers : SUBSET User, items : SUBSET Producer,
          todo : SUBSET Producer]
Message == [call : {"create", "connect", "ask"}] \cup [call : {"close"}, producer : Producer]
             \cup [call : {"produce"}, batch : Batch]

TypeOK ==
  /\ roomOpen \subseteq Side
  /\ clients \in [Side -> SUBSET User]
  /\ left \in [Side -> SUBSET User]
  /\ started \subseteq Producer
  /\ mapped \subseteq Producer
  /\ open \subseteq Producer
  /\ fanning \subseteq Producer
  /\ pipeCons \subseteq Producer \X Made
  /\ known \subseteq Side
  /\ pair \subseteq Side
  /\ piped \subseteq Producer
  /\ guestHas \subseteq Producer
  /\ heard \subseteq User \X Producer
  /\ phase \in {"idle", "create", "connect", "scan", "send", "ask", "done", "dead"}
  /\ answered \subseteq {"create", "connect", "send", "ask"}
  /\ scan \in [Side -> {"idle", "running", "done"}]
  /\ cur \in [User -> {None} \cup Producer \X BOOLEAN]
  /\ seen \subseteq Producer
  /\ taken \subseteq Producer
  /\ counted \in [Side -> SUBSET User]
  /\ reply \in [peers : SUBSET User, items : SUBSET Producer]
  /\ mail \in [Side -> Seq(Message)]
  /\ batches \in [Side -> SUBSET Batch]
  /\ refused \subseteq Producer
  /\ disturbed \subseteq Side

Init ==
  /\ roomOpen = Side
  /\ clients = [s \in Side |-> {}]
  /\ left = [s \in Side |-> {}]
  /\ started = {} /\ mapped = {} /\ open = {} /\ fanning = {}
  /\ pipeCons = {} /\ known = {} /\ pair = {} /\ piped = {} /\ guestHas = {} /\ heard = {}
  /\ phase = "idle" /\ answered = {}
  /\ scan = [s \in Side |-> "idle"]
  /\ cur = [u \in User |-> None]
  /\ seen = {} /\ taken = {}
  /\ counted = [s \in Side |-> {}]
  /\ reply = [peers |-> {}, items |-> {}]
  /\ mail = [s \in Side |-> <<>>]
  /\ batches = [s \in Side |-> {}]
  /\ refused = {} /\ disturbed = {}

-----------------------------------------------------------------------------
HomeOf(p) == Home[OwnerOf[p]]
ProducersAt(s) == {p \in Producer : HomeOf(p) = s}
Theirs(u) == {p \in mapped : OwnerOf[p] = u}
Locals(s) == {u \in clients[s] : Home[u] = s}
Events == Cardinality(started) + Cardinality(started \ mapped)
            + Cardinality(left["from"]) + Cardinality(left["to"])
Send(s, m) == mail' = [mail EXCEPT ![s] = Append(@, m)]

\* Something happens at EA s while its loops run.
Disturb(s) == disturbed' = IF scan[s] = "running" THEN disturbed \cup {s} ELSE disturbed

-----------------------------------------------------------------------------
(* Users.                                                                  *)

\* Mutation: join passes by the guests.
EnterDeaf(u) ==
  LET s == Home[u] IN
  /\ s \in roomOpen
  /\ u \notin clients[s] \cup left[s]
  /\ clients' = [clients EXCEPT ![s] = @ \cup {u}]
  /\ Disturb(s)
  /\ UNCHANGED <<roomOpen, left, producerVars, pipeVars, routeVars, scanVars, mail, batches, refused>>

\* Mutation: producer and consumer are mixed up.
EnterSwapped(u) ==
  LET s == Home[u] IN
  /\ s \in roomOpen
  /\ u \notin clients[s] \cup left[s]
  /\ clients' = [clients EXCEPT ![s] = @ \cup {u}]
  /\ heard' = heard \cup ({p \in guestHas \cap piped : HomeOf(p) # s} \X {u})
  /\ Disturb(s)
  /\ UNCHANGED <<roomOpen, left, producerVars, pipeCons, known, pair, piped, guestHas, routeVars,
                 scanVars, mail, batches, refused>>

\* getRouterRtpCapabilities and join: a consumer of each producer of the guests.
Enter(u) ==
  LET s == Home[u] IN
  /\ s \in roomOpen
  /\ u \notin clients[s] \cup left[s]
  /\ clients' = [clients EXCEPT ![s] = @ \cup {u}]
  /\ heard' = heard \cup ({u} \X {p \in guestHas \cap piped : HomeOf(p) # s})
  /\ Disturb(s)
  /\ UNCHANGED <<roomOpen, left, producerVars, pipeCons, known, pair, piped, guestHas, routeVars,
                 scanVars, mail, batches, refused>>

\* produce: with a pipe, a consumer on it is asked for.
Produce(p) ==
  /\ Events < MaxEvents
  /\ p \notin started /\ Before[p] \subseteq started
  /\ OwnerOf[p] \in clients[HomeOf(p)]
  /\ started' = started \cup {p}
  /\ mapped' = mapped \cup {p}
  /\ open' = open \cup {p}
  /\ fanning' = IF HomeOf(p) \in pair THEN fanning \cup {p} ELSE fanning
  /\ Disturb(HomeOf(p))
  /\ UNCHANGED <<roomVars, pipeVars, routeVars, scanVars, mail, batches, refused>>

BatchOf(key, peers, items) == [key |-> key, peers |-> peers, items |-> items, todo |-> items]

\* Mutation: the consumer is made, the other EA is not told.
FanOutSilently(p) ==
  /\ p \in fanning
  /\ fanning' = fanning \ {p}
  /\ pipeCons' = pipeCons \cup {<<p, "produce">>}
  /\ UNCHANGED <<roomVars, started, mapped, open, known, pair, piped, guestHas, heard, routeVars,
                 scanVars, mail, batches, refused, disturbed>>

\* _createPipeConsumer has the consumer: the other EA is to make the producer.
FanOut(p) ==
  /\ p \in fanning
  /\ fanning' = fanning \ {p}
  /\ pipeCons' = pipeCons \cup {<<p, "produce">>}
  /\ Send(Other(HomeOf(p)), [call |-> "produce", batch |-> BatchOf(p, {OwnerOf[p]}, {p})])
  /\ UNCHANGED <<roomVars, started, mapped, open, known, pair, piped, guestHas, heard, routeVars,
                 scanVars, batches, refused, disturbed>>

CloseProducer(p) ==
  /\ Events < MaxEvents
  /\ p \in open
  /\ open' = open \ {p}
  /\ mapped' = mapped \ {p}
  /\ Disturb(HomeOf(p))
  /\ UNCHANGED <<roomVars, started, fanning, pipeVars, routeVars, scanVars, mail, batches, refused>>

\* Mutation: the other EA is not told.
PipeConsumerDropped(c) ==
  /\ c \in pipeCons
  /\ c[1] \notin open
  /\ pipeCons' = pipeCons \ {c}
  /\ UNCHANGED <<roomVars, producerVars, known, pair, piped, guestHas, heard, routeVars, scanVars,
                 mail, batches, refused, disturbed>>

\* The event producerclose of a consumer on the pipe: the other EA is told.
PipeConsumerClosed(c) ==
  /\ c \in pipeCons
  /\ c[1] \notin open
  /\ pipeCons' = pipeCons \ {c}
  /\ Send(Other(HomeOf(c[1])), [call |-> "close", producer |-> c[1]])
  /\ UNCHANGED <<roomVars, producerVars, known, pair, piped, guestHas, heard, routeVars, scanVars,
                 batches, refused, disturbed>>

\* The last client, guests counted, has left: the router closes and all that is
\* on it, without a word to the other EA.
CloseRoom(s) ==
  LET here == ProducersAt(s) IN
  /\ roomOpen' = roomOpen \ {s}
  /\ known' = known \ {s}
  /\ pair' = pair \ {s}
  /\ open' = open \ here
  /\ fanning' = fanning \ here
  /\ pipeCons' = {c \in pipeCons : c[1] \notin here}
  /\ piped' = piped \cap here
  /\ guestHas' = guestHas \cap here
  /\ heard' = {h \in heard : Home[h[1]] # s}
  /\ cur' = [u \in User |-> IF Home[u] = s THEN None ELSE cur[u]]
  /\ batches' = [batches EXCEPT ![s] = {}]
  /\ phase' = IF s = "from" /\ phase \in {"create", "connect", "scan"} THEN "dead" ELSE phase

\* deleteUser, of a client, a guest or nobody the EA knows.
DeleteUser(s, u) ==
  /\ Events < MaxEvents
  /\ s \in roomOpen
  /\ u \notin left[s]
  /\ left' = [left EXCEPT ![s] = @ \cup {u}]
  /\ clients' = [clients EXCEPT ![s] = @ \ {u}]
  /\ IF clients[s] \subseteq {u}
       THEN CloseRoom(s)
       ELSE /\ open' = IF Home[u] = s THEN {p \in open : OwnerOf[p] # u} ELSE open
            /\ guestHas' = IF Home[u] = s THEN guestHas ELSE {p \in guestHas : OwnerOf[p] # u}
            /\ heard' = IF Home[u] = s THEN {h \in heard : h[1] # u} ELSE heard
            /\ UNCHANGED <<roomOpen, fanning, pipeCons, known, pair, piped, cur, batches, phase>>
  /\ Disturb(s)
  /\ UNCHANGED <<started, mapped, answered, scan, seen, taken, counted, reply, mail, refused>>

-----------------------------------------------------------------------------
(* The loops over the clients, in handlePipRoute at "from" and in          *)
(* createPipTransportConsume at "to".                                      *)

OwnedBy(u, P) == {p \in P : OwnerOf[p] = u}

\* The loops are disturbed from the start: they cannot end.
HopelessAt(s) == clients[s] = {} \/ \E u \in Locals(s) : Theirs(u) = {}

\* Mutation: guests are passed by before they are counted.
StartLoopsUncounted(s) ==
  /\ \E first \in [Locals(s) -> Producer \cup {None}] :
       /\ \A u \in Locals(s) :
            IF Theirs(u) = {} THEN first[u] = None ELSE first[u] \in Theirs(u)
       /\ cur' = [u \in User |->
            IF u \in Locals(s) /\ Theirs(u) # {} THEN <<first[u], TRUE>> ELSE cur[u]]
  /\ counted' = [counted EXCEPT ![s] = {}]
  /\ disturbed' = IF HopelessAt(s) THEN disturbed \cup {s} ELSE disturbed

\* A loop for each local client over its producers, which awaits one consumer
\* after the other; guests are counted at once.
StartLoops(s) ==
  /\ \E first \in [Locals(s) -> Producer \cup {None}] :
       /\ \A u \in Locals(s) :
            IF Theirs(u) = {} THEN first[u] = None ELSE first[u] \in Theirs(u)
       /\ cur' = [u \in User |->
            IF u \in Locals(s) /\ Theirs(u) # {} THEN <<first[u], TRUE>> ELSE cur[u]]
  /\ counted' = [counted EXCEPT ![s] = clients[s] \ Locals(s)]
  /\ disturbed' = IF HopelessAt(s) THEN disturbed \cup {s} ELSE disturbed

\* The promise is resolved: "from" sends what the loops have, "to" answers it.
Resolved(s, peers, items) ==
  /\ scan' = [scan EXCEPT ![s] = "done"]
  /\ IF s = "from"
       THEN /\ Send("to", [call |-> "produce", batch |-> BatchOf(Snapshot, peers, items)])
            /\ phase' = "send"
            /\ UNCHANGED <<reply, answered>>
       ELSE /\ reply' = [peers |-> peers, items |-> items]
            /\ answered' = answered \cup {"ask"}
            /\ UNCHANGED <<mail, phase>>

\* produceconut === joinedPeer._producers.size, compared with the size of now.
LoopComplete(u, through) == Cardinality(OwnedBy(u, through)) = Cardinality(Theirs(u))

\* The consumer the loop of u awaits is there and the loop goes on to a producer
\* that is in the map then; or it cannot be made, which ends the loop (there is a
\* finally and no catch).
LoopStep(u) ==
  LET s == Home[u]
      p == cur[u][1]
      through == seen \cup {p}
      made == IF cur[u][2] THEN taken \cup {p} ELSE taken
      rest == IF cur[u][2] THEN Theirs(u) \ through ELSE {}
      tally == IF LoopComplete(u, through) THEN counted[s] \cup {u} ELSE counted[s]
      peers == {v \in tally : Home[v] = s}
  IN
  /\ cur[u] # None
  /\ seen' = through
  /\ taken' = made
  /\ pipeCons' = IF cur[u][2] THEN pipeCons \cup {<<p, Snapshot>>} ELSE pipeCons
  /\ \E next \in IF rest = {} THEN {None} ELSE rest :
       cur' = [cur EXCEPT ![u] = IF next = None THEN None ELSE <<next, next \in open>>]
  /\ counted' = [counted EXCEPT ![s] = tally]
  /\ IF scan[s] = "running" /\ tally # counted[s] /\ Cardinality(tally) = Cardinality(clients[s])
       THEN Resolved(s, peers, {q \in made : OwnerOf[q] \in peers})
       ELSE UNCHANGED <<scan, mail, phase, reply, answered>>
  /\ UNCHANGED <<roomVars, producerVars, known, pair, piped, guestHas, heard, batches, refused, disturbed>>

-----------------------------------------------------------------------------
(* handlePipRoute at "from".                                               *)

\* addRouter of the EC: a second EA has a router for the room.
StartCascade ==
  /\ phase = "idle"
  /\ "from" \in roomOpen
  /\ phase' = "create"
  /\ Send("to", [call |-> "create"])
  /\ UNCHANGED <<roomVars, producerVars, pipeVars, answered, scanVars, batches, refused, disturbed>>

CreateAnswered ==
  /\ phase = "create" /\ "create" \in answered
  /\ phase' = "connect"
  /\ Send("to", [call |-> "connect"])
  /\ UNCHANGED <<roomVars, producerVars, pipeVars, answered, scanVars, batches, refused, disturbed>>

\* connectPipTransport ends, with an answer or without: only an answer, of
\* whatever kind, lets the pipe be stored.
ConnectEnds ==
  /\ phase = "connect"
  /\ IF "connect" \in answered
       THEN known' = known \cup {"from"} /\ pair' = pair \cup {"from"}
       ELSE UNCHANGED <<known, pair>>
  /\ StartLoops("from")
  /\ scan' = [scan EXCEPT !["from"] = "running"]
  /\ phase' = "scan"
  /\ UNCHANGED <<roomVars, producerVars, pipeCons, piped, guestHas, heard, answered, seen, taken,
                 reply, mail, batches, refused>>

\* createPipTransportProduce ends, with an answer or without.
SendEnds ==
  /\ phase = "send"
  /\ phase' = "ask"
  /\ Send("to", [call |-> "ask"])
  /\ UNCHANGED <<roomVars, producerVars, pipeVars, answered, scanVars, batches, refused, disturbed>>

\* Without an answer remotePipeTransport or remoteConsumes is undefined and the
\* next line throws.
RouteDies ==
  /\ phase \in {"create", "ask"} /\ phase \notin answered
  /\ phase' = "dead"
  /\ UNCHANGED <<roomVars, producerVars, pipeVars, answered, scanVars, mail, batches, refused, disturbed>>

\* Consumers at EA s of producers piped there.
ConsumersAt(s, P) == Locals(s) \X P

\* The answer of createPipTransportConsume.  The promise around the making of
\* the producers is resolved before they are there: consumers are made of what
\* the guests had before.
AskAnswered ==
  /\ phase = "ask" /\ "ask" \in answered
  /\ phase' = "done"
  /\ IF "from" \in roomOpen
       THEN /\ clients' = [clients EXCEPT !["from"] = @ \cup reply.peers]
            /\ heard' = heard \cup
                 ConsumersAt("from", {p \in guestHas \cap piped : OwnerOf[p] \in reply.peers})
            /\ batches' = [batches EXCEPT !["from"] = @ \cup {BatchOf(Reply, reply.peers, reply.items)}]
       ELSE UNCHANGED <<clients, heard, batches>>
  /\ Disturb("from")
  /\ UNCHANGED <<roomOpen, left, producerVars, pipeCons, known, pair, piped, guestHas, answered,
                 scanVars, mail, refused>>

-----------------------------------------------------------------------------
(* The handlers of the calls.                                              *)

Receive(s, call) ==
  /\ mail[s] # <<>>
  /\ Head(mail[s]).call = call
  /\ mail' = [mail EXCEPT ![s] = Tail(@)]

CreatePipTransport ==
  /\ Receive("to", "create")
  /\ IF "to" \in roomOpen
       THEN known' = known \cup {"to"} /\ answered' = answered \cup {"create"}
       ELSE UNCHANGED <<known, answered>>
  /\ UNCHANGED <<roomVars, producerVars, pipeCons, pair, piped, guestHas, heard, phase, scanVars,
                 batches, refused, disturbed>>

ConnectPipTransport ==
  /\ Receive("to", "connect")
  /\ pair' = IF "to" \in known THEN pair \cup {"to"} ELSE pair
  /\ answered' = answered \cup {"connect"}
  /\ UNCHANGED <<roomVars, producerVars, pipeCons, known, piped, guestHas, heard, phase, scanVars,
                 batches, refused, disturbed>>

\* createPipTransportProduce: guests for the peers; the making of the producers
\* is awaited.
CreatePipTransportProduce(s) ==
  LET b == Head(mail[s]).batch IN
  /\ Receive(s, "produce")
  /\ IF s \in known
       THEN /\ clients' = [clients EXCEPT ![s] = @ \cup b.peers]
            /\ batches' = [batches EXCEPT ![s] = @ \cup {b}]
            /\ UNCHANGED answered
       ELSE /\ answered' = IF b.key = Snapshot THEN answered \cup {"send"} ELSE answered
            /\ UNCHANGED <<clients, batches>>
  /\ Disturb(s)
  /\ UNCHANGED <<roomOpen, left, producerVars, pipeVars, phase, scanVars, refused>>

CreatePipTransportConsume ==
  /\ Receive("to", "ask")
  /\ IF "to" \notin roomOpen
       THEN UNCHANGED <<scan, cur, counted, reply, answered, disturbed>>
       ELSE /\ StartLoops("to")
            /\ IF clients["to"] # {} /\ Locals("to") = {}
                 THEN /\ scan' = [scan EXCEPT !["to"] = "done"]
                      /\ answered' = answered \cup {"ask"}
                 ELSE /\ scan' = [scan EXCEPT !["to"] = "running"]
                      /\ UNCHANGED answered
            /\ UNCHANGED reply
  /\ UNCHANGED <<roomVars, producerVars, pipeVars, phase, seen, taken, batches, refused>>

\* closePipProduce: a producer that is not there (yet) is refused.
ClosePipProduce(s) ==
  LET p == Head(mail[s]).producer IN
  /\ Receive(s, "close")
  /\ IF p \in piped
       THEN /\ piped' = piped \ {p}
            /\ heard' = {h \in heard : h[2] # p}
            /\ UNCHANGED refused
       ELSE /\ refused' = refused \cup {p}
            /\ UNCHANGED <<piped, heard>>
  /\ UNCHANGED <<roomVars, producerVars, pipeCons, known, pair, guestHas, routeVars, scanVars,
                 batches, disturbed>>

\* The producers of batch b are through and no peer is without: resolved.
BatchComplete(b) == b.todo = {} /\ b.peers # {} /\ \A u \in b.peers : OwnedBy(u, b.items) # {}

\* The producers consumers are made of when batch b is through: its own, and
\* all others its clients have.
OfPeers(b, has) == b.items \cup {p \in has : OwnerOf[p] \in b.peers}

\* The answer to produce on the pipe.  A second producer with an id fails.
PipedProduce(s, b, p) ==
  LET c == [b EXCEPT !.todo = @ \ {p}]
      has == IF p \notin piped /\ OwnerOf[p] \in clients[s] THEN guestHas \cup {p} ELSE guestHas
      complete == BatchComplete(c)
  IN
  /\ b \in batches[s]
  /\ p \in b.todo
  /\ piped' = piped \cup {p}
  /\ guestHas' = has
  /\ IF complete
       THEN batches' = [batches EXCEPT ![s] = @ \ {b}]
       ELSE batches' = [batches EXCEPT ![s] = (@ \ {b}) \cup {c}]
  /\ heard' = IF complete /\ b.key # Reply
                THEN heard \cup ConsumersAt(s, OfPeers(b, has) \cap piped') ELSE heard
  /\ answered' = IF complete /\ b.key = Snapshot THEN answered \cup {"send"} ELSE answered
  /\ UNCHANGED <<roomVars, producerVars, pipeCons, known, pair, phase, scanVars, mail, refused, disturbed>>

-----------------------------------------------------------------------------
Deliver(s) ==
  \/ s = "to" /\ (CreatePipTransport \/ ConnectPipTransport \/ CreatePipTransportConsume)
  \/ CreatePipTransportProduce(s)
  \/ ClosePipProduce(s)

\* What the processes do by themselves once asked.
EaStep ==
  \/ \E s \in Side :
       \/ Deliver(s)
       \/ \E b \in batches[s] : \E p \in b.todo : PipedProduce(s, b, p)
  \/ \E u \in User : LoopStep(u)
  \/ \E p \in Producer : FanOut(p)
  \/ \E c \in pipeCons : PipeConsumerClosed(c)

RouteStep == CreateAnswered \/ ConnectEnds \/ SendEnds \/ RouteDies \/ AskAnswered

Next ==
  \/ EaStep
  \/ RouteStep
  \/ StartCascade
  \/ \E u \in User : Enter(u)
  \/ \E u \in Leaver, s \in Side : DeleteUser(s, u)
  \/ \E p \in Producer : Produce(p) \/ CloseProducer(p)

Spec == Init /\ [][Next]_vars

FairSpec == Spec /\ WF_vars(EaStep)

-----------------------------------------------------------------------------
(* Properties.                                                             *)

\* A batch of EA s for the client of p has not made its consumers.
Underway(s, p) == \E b \in batches[s] : OwnerOf[p] \in b.peers /\ b.key # Reply

\* Whoever is in a room hears what is piped there, from its own join or from
\* the end of a batch, unless a batch for that client is underway, for ever if
\* it waits for a client without producers, or the producer came with the
\* answer of createPipTransportConsume, whose producers are made too late.
PipedHeard ==
  \A s \in Side : \A u \in Locals(s), p \in guestHas \cap piped :
    \/ HomeOf(p) = s
    \/ <<u, p>> \in heard
    \/ Underway(s, p)
    \/ s = "from" /\ p \in reply.items

\* Everybody at "to" hears p, or there is nothing to hear any more.
Settled(p) ==
  \/ p \notin open
  \/ "to" \notin roomOpen
  \/ \A u \in Locals("to") : <<u, p>> \in heard

\* A producer made at "from" while there is a pipe reaches everybody at "to", and
\* so does one that was there during the loops, if they went through undisturbed.
\* One made after the loops when connectPipTransport had timed out, so that the pipe
\* was never stored, is in neither case, and reaches nobody.
ReachesOther ==
  \A p \in ProducersAt("from") :
    /\ p \in fanning ~> Settled(p)
    /\ p \in open /\ scan["from"] = "running" ~> Settled(p) \/ "from" \in disturbed

\* The producer made for one that was closed, or whose client left, is closed
\* too, unless it was not there when it should have been (closePipProduce), or
\* the home room closed without a word.
PipedCloses ==
  \A p \in Producer :
    p \in piped \ open ~> p \notin piped \/ p \in refused \/ HomeOf(p) \notin roomOpen

\* The loops over the clients end, if each had a producer and nobody came, went,
\* produced or closed a producer meanwhile.
LoopsEnd == \A s \in Side : scan[s] = "running" ~> scan[s] = "done" \/ s \in disturbed
-----------------------------------------------------------------------------
(* The inductive invariant the proofs use.                                 *)

Early == {"idle", "create", "connect", "scan", "send"}
Asked(i) == mail["to"][i].call = "ask"

\* createPipTransportConsume is called once, runs its loops once and answers
\* once; until the loops are through there is nothing to answer.
AskInv ==
  /\ \A i, j \in 1..Len(mail["to"]) : Asked(i) /\ Asked(j) => i = j
  /\ phase \in Early \/ scan["to"] # "idle" => \A i \in 1..Len(mail["to"]) : ~Asked(i)
  /\ phase \in Early => scan["to"] = "idle"
  /\ "ask" \in answered => scan["to"] = "done"
  /\ phase = "done" => "ask" \in answered
  /\ scan["to"] # "done" => reply = [peers |-> {}, items |-> {}]

\* The loops of "from" run on after they have resolved, or while handlePipRoute
\* waits for them.
LoopInv ==
  \A u \in User : Home[u] = "from" /\ cur[u] # None => scan["from"] = "done" \/ phase = "scan"

\* Clients of EA s, and producers of none but these.
FromPeers(s, peers, items) ==
  /\ \A u \in peers : Home[u] = s
  /\ \A p \in items : OwnerOf[p] \in peers

\* What is sent to EA s is of clients of the other one.
Carries(s, m) ==
  m.call = "produce" =>
    /\ m.batch.key # Reply
    /\ m.batch.todo \subseteq m.batch.items
    /\ FromPeers(Other(s), m.batch.peers, m.batch.items)

MailInv == \A s \in Side : \A i \in 1..Len(mail[s]) : Carries(s, mail[s][i])

\* So is what EA s makes; what "from" makes of an answer is all of that answer.
BatchInv ==
  /\ FromPeers("to", reply.peers, reply.items)
  /\ \A s \in Side : \A b \in batches[s] :
       /\ b.todo \subseteq b.items
       /\ FromPeers(Other(s), b.peers, b.items)
       /\ b.key = Reply => s = "from" /\ phase = "done" /\ b.items = reply.items

PipeInv ==
  /\ TypeOK
  /\ AskInv
  /\ LoopInv
  /\ MailInv
  /\ BatchInv
  /\ PipedHeard
=============================================================================
