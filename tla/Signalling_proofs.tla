--------------------------- MODULE Signalling_proofs ---------------------------
(***************************************************************************)
(* Proofs about Signalling: its types, that a client is let into an open   *)
(* room and keeps its place there until it leaves, unless another one      *)
(* leaves before it is in, and that an EA never forgets to drop a client   *)
(* that has left.                                                          *)
(*                                                                         *)
(* The steps of the EC are steps of EcSession, so its invariant holds here *)
(* as it stands, by the lemmas of EcSession_proofs.  What is added is      *)
(* SignalInv.  Steps are taken in three kinds: those of the EC that may    *)
(* make clients leave and broadcast deleteUser, those that move requests   *)
(* and replies for workers, and those of an EA on one client.              *)
(* For the same reason the composition implements EcSession, and through   *)
(* it RoomService.                                                         *)
(***************************************************************************)
EXTENDS Signalling, TLAPS

Sess == INSTANCE EcSession_proofs

USE DEF AgentFor, RoomOf
-----------------------------------------------------------------------------
(* The EC of this module is the EC of EcSession_proofs.                    *)

LEMMA SessionAssumptions ==
  /\ Sess!IsFiniteSet(Chan)
  /\ None \notin Chan \cup RoomId \cup Worker
  /\ AgentOf \in [Worker -> Agent]
  /\ Policies \subseteq {Sess!RoomBest, Sess!TtlBest}
  /\ NuveDeletes \in BOOLEAN
<1>1. Sess!IsFiniteSet(Chan)
  BY ChanAssumption DEF IsFiniteSet, Sess!IsFiniteSet
<1>2. Policies \subseteq {Sess!RoomBest, Sess!TtlBest} /\ NuveDeletes \in BOOLEAN
  BY DEF Policies, NuveDeletes, Sess!RoomBest
<1> QED BY <1>1, <1>2, NoneAssumption, AgentOfAssumption

LEMMA SameSocketSteps ==
  ASSUME NEW ch \in Chan
  PROVE  /\ Ec!Connect(ch) => Sess!Connect(ch)
         /\ Ec!SocketCloses(ch) => Sess!SocketCloses(ch)
         /\ Ec!SocketLost(ch) => Sess!SocketLost(ch)
         /\ Ec!ReconnectionTimeout(ch) => Sess!ReconnectionTimeout(ch)
         /\ Ec!AdmitToRoom(ch) => Sess!AdmitToRoom(ch)
         /\ \A r \in RoomId : Ec!SendToken(ch, r, "ROOM-BEST") => Sess!SendToken(ch, r, "ROOM-BEST")
<1>1. Ec!Connect(ch) => Sess!Connect(ch)
  BY DEF Ec!Connect, Sess!Connect, Ec!joinVars, Sess!joinVars, Ec!roomVars, Sess!roomVars,
         Ec!clientVars, Sess!clientVars, Ec!sfuVars, Sess!sfuVars
<1>2. Ec!SocketCloses(ch) => Sess!SocketCloses(ch)
  BY DEF Ec!SocketCloses, Sess!SocketCloses, Ec!joinVars, Sess!joinVars, Ec!roomVars, Sess!roomVars,
         Ec!clientVars, Sess!clientVars, Ec!sfuVars, Sess!sfuVars, Ec!Emit, Sess!Emit,
         Ec!Listening, Sess!Listening, Ec!MembersWithout, Sess!MembersWithout,
         Ec!CountsWithout, Sess!CountsWithout, Ec!RegistryWithout, Sess!RegistryWithout,
         Ec!DisconnectListeners, Sess!DisconnectListeners, Ec!Cardinality, Sess!Cardinality
<1>3. Ec!SocketLost(ch) => Sess!SocketLost(ch)
  BY DEF Ec!SocketLost, Sess!SocketLost, Ec!joinVars, Sess!joinVars, Ec!roomVars, Sess!roomVars,
         Ec!clientVars, Sess!clientVars, Ec!sfuVars, Sess!sfuVars,
         Ec!DisconnectListeners, Sess!DisconnectListeners
<1>4. Ec!ReconnectionTimeout(ch) => Sess!ReconnectionTimeout(ch)
  BY DEF Ec!ReconnectionTimeout, Sess!ReconnectionTimeout, Ec!joinVars, Sess!joinVars,
         Ec!roomVars, Sess!roomVars, Ec!clientVars, Sess!clientVars, Ec!sfuVars, Sess!sfuVars,
         Ec!Emit, Sess!Emit, Ec!Listening, Sess!Listening, Ec!MembersWithout, Sess!MembersWithout,
         Ec!CountsWithout, Sess!CountsWithout, Ec!RegistryWithout, Sess!RegistryWithout,
         Ec!Cardinality, Sess!Cardinality
<1>5. Ec!AdmitToRoom(ch) => Sess!AdmitToRoom(ch)
  BY DEF Ec!AdmitToRoom, Sess!AdmitToRoom, Ec!CreateClient, Sess!CreateClient,
         Ec!roomVars, Sess!roomVars, Ec!sfuVars, Sess!sfuVars, Ec!RoomBest, Sess!RoomBest
<1>6. \A r \in RoomId : Ec!SendToken(ch, r, "ROOM-BEST") => Sess!SendToken(ch, r, "ROOM-BEST")
  BY DEF Ec!SendToken, Sess!SendToken, Ec!chanVars, Sess!chanVars, Ec!roomVars, Sess!roomVars,
         Ec!clientVars, Sess!clientVars, Ec!sfuVars, Sess!sfuVars
<1> QED BY <1>1, <1>2, <1>3, <1>4, <1>5, <1>6

LEMMA SameWorkerSteps ==
  ASSUME NEW ch \in Chan
  PROVE  /\ Ec!AskForWorker(ch) => Sess!AskForWorker(ch)
         /\ Ec!WorkerTimeout(ch) => Sess!WorkerTimeout(ch)
         /\ \A w \in Worker : Ec!WorkerForNewRoom(ch, w) => Sess!WorkerForNewRoom(ch, w)
         /\ \A w \in Worker : Ec!WorkerForRacingRoom(ch, w) => Sess!WorkerForRacingRoom(ch, w)
<1>1. Ec!AskForWorker(ch) => Sess!AskForWorker(ch)
  BY DEF Ec!AskForWorker, Sess!AskForWorker, Ec!roomVars, Sess!roomVars, Ec!clientVars, Sess!clientVars,
         Ec!sfuVars, Sess!sfuVars, Ec!TtlBest, Sess!TtlBest
<1>2. Ec!WorkerTimeout(ch) => Sess!WorkerTimeout(ch)
  BY DEF Ec!WorkerTimeout, Sess!WorkerTimeout, Ec!chanVars, Sess!chanVars, Ec!roomVars, Sess!roomVars,
         Ec!clientVars, Sess!clientVars, Ec!sfuVars, Sess!sfuVars
<1>3. \A w \in Worker : Ec!WorkerForNewRoom(ch, w) => Sess!WorkerForNewRoom(ch, w)
  BY DEF Ec!WorkerForNewRoom, Sess!WorkerForNewRoom, Ec!CreateClient, Sess!CreateClient,
         Ec!chanVars, Sess!chanVars
<1>4. \A w \in Worker : Ec!WorkerForRacingRoom(ch, w) => Sess!WorkerForRacingRoom(ch, w)
  BY DEF Ec!WorkerForRacingRoom, Sess!WorkerForRacingRoom, Ec!CreateClient, Sess!CreateClient,
         Ec!chanVars, Sess!chanVars, Ec!roomVars, Sess!roomVars, Ec!sfuVars, Sess!sfuVars
<1> QED BY <1>1, <1>2, <1>3, <1>4
-----------------------------------------------------------------------------
(* What every step keeps.                                                  *)

ClientsKept ==
  /\ \A c \in Chan : cRoom[c] # None => cRoom'[c] = cRoom[c] /\ cWorker'[c] = cWorker[c]
  /\ \A i \in Chan : roomId[i] # None => roomId'[i] = roomId[i] /\ roomWorker'[i] = roomWorker[i]
  /\ \A c \in Chan : cRoom[c] # None /\ c \notin members[cRoom[c]] => c \notin members'[cRoom[c]]
  /\ \A ch \in Chan : join[ch] # "idle" => join'[ch] # "idle" /\ want'[ch] = want[ch]
  /\ \A ch \in Chan : join'[ch] \in {"idle", "token"} => join[ch] \in {"idle", "token"}

LEMMA NextMovesSessions ==
  ASSUME [Next]_vars PROVE [Sess!Next]_(Sess!vars)
<1>1. ASSUME NEW ch \in Chan, SocketStep(ch) PROVE Sess!Next
  <2>1. CASE Ec!Connect(ch) \/ Ec!SocketCloses(ch) \/ Ec!SocketLost(ch) \/ Ec!ReconnectionTimeout(ch)
    BY <2>1, SameSocketSteps DEF Sess!Next
  <2>2. CASE Ec!AdmitToRoom(ch)
    BY <2>2, SameSocketSteps DEF Sess!Next, Sess!TokenAnswered
  <2>3. CASE \E r \in RoomId : Ec!SendToken(ch, r, "ROOM-BEST")
    BY <2>3, SameSocketSteps DEF Sess!Next, Policies
  <2> QED BY <1>1, <2>1, <2>2, <2>3 DEF SocketStep
<1>2. ASSUME NEW ch \in Chan, AskForWorker(ch) PROVE Sess!Next
  BY <1>2, SameWorkerSteps DEF AskForWorker, Sess!Next, Sess!TokenAnswered
<1>3. ASSUME NEW ch \in Chan, GiveUp(ch) PROVE Sess!Next
  BY <1>3, SameWorkerSteps DEF GiveUp, Sess!Next, Sess!WorkerAnswered
<1>4. ASSUME NEW ch \in Chan, NEW w \in Worker, WorkerArrives(ch, w) PROVE Sess!Next
  BY <1>4, SameWorkerSteps DEF WorkerArrives, Sess!Next, Sess!WorkerAnswered
<1>5. ASSUME UNCHANGED ecVars PROVE UNCHANGED Sess!vars
  BY <1>5 DEF ecVars, Sess!vars, Sess!chanVars, Sess!joinVars, Sess!roomVars, Sess!clientVars, Sess!sfuVars
<1>6. ASSUME NEW ch \in Chan, Retry(ch) \/ RequestCaps(ch) \/ HandleCaps(ch) \/ AnswerCaps(ch)
      PROVE  UNCHANGED ecVars
  BY <1>6 DEF Retry, RequestCaps, HandleCaps, AnswerCaps
<1>7. ASSUME NEW a \in Agent, NEW ch \in Chan,
             \/ \E n \in 1..(MaxRetries + 1) : TakeRequest(a, ch, n) \/ SwallowRequest(a, ch, n)
             \/ HandleDeleteUser(a, ch)
      PROVE  UNCHANGED ecVars
  BY <1>7 DEF TakeRequest, SwallowRequest, HandleDeleteUser
<1>8. ASSUME NEW a \in Agent, Drain(a) PROVE UNCHANGED ecVars
  BY <1>8 DEF Drain
<1>9. CASE Next
  BY <1>1, <1>2, <1>3, <1>4, <1>5, <1>6, <1>7, <1>8, <1>9 DEF Next
<1>10. CASE UNCHANGED vars
  BY <1>5, <1>10 DEF vars
<1> QED BY <1>9, <1>10

LEMMA SessionsStayConsistent ==
  ASSUME Sess!SessionInv, [Next]_vars
  PROVE  Sess!SessionInv' /\ ClientsKept
<1>1. [Sess!Next]_(Sess!vars)
  BY NextMovesSessions
<1>2. Sess!SessionInv'
  BY <1>1, SessionAssumptions, Sess!NextKeepsInv
<1>3. ClientsKept
  BY <1>1, SessionAssumptions, Sess!StepsKeepClients DEF ClientsKept
<1> QED BY <1>2, <1>3

\* The types of the EC's variables and what the lemmas below use of SessionInv.
LEMMA SessionFacts ==
  ASSUME Sess!SessionInv
  PROVE  /\ Ec!TypeOK
         /\ \A c \in Chan : cRoom[c] # None =>
              cRoom[c] \in Chan /\ cWorker[c] \in Worker /\ cChan[c] \in Chan /\ roomId[cRoom[c]] \in RoomId
         /\ \A ch \in Chan : join[ch] \in {"token", "worker"} => want[ch] \in RoomId
<1>1. Ec!TypeOK
  BY DEF Sess!SessionInv, Sess!TypeOK, Ec!TypeOK
<1>2. ASSUME NEW c \in Chan, cRoom[c] # None
      PROVE  cRoom[c] \in Chan /\ cWorker[c] \in Worker /\ cChan[c] \in Chan /\ roomId[cRoom[c]] \in RoomId
  BY <1>2 DEF Sess!SessionInv, Sess!TypeOK, Sess!ClientInv
<1>3. ASSUME NEW ch \in Chan, join[ch] \in {"token", "worker"}
      PROVE  want[ch] \in RoomId
  BY <1>3 DEF Sess!SessionInv, Sess!TypeOK, Sess!ChannelInv
<1> QED BY <1>1, <1>2, <1>3

\* A client that has sent its first request keeps its Room, worker and room id,
\* and neither it nor anybody else comes back into a Room.
LEMMA KnownClientsKept ==
  ASSUME Sess!SessionInv, PendingInv, ClientsKept
  PROVE  /\ \A c \in Chan : caps[c] # "none" =>
              /\ cRoom'[c] = cRoom[c] /\ cRoom[c] # None
              /\ cWorker'[c] = cWorker[c]
              /\ roomId'[cRoom[c]] = roomId[cRoom[c]]
              /\ Ec!InRoom(c)' => Ec!InRoom(c)
         /\ \A c \in Chan : c \in Ec!Departed => c \in Ec!Departed'
         /\ \A r : SomeoneLeft(r) => SomeoneLeft(r)'
<1>1. ASSUME NEW c \in Chan, cRoom[c] # None
      PROVE  /\ cRoom'[c] = cRoom[c] /\ cWorker'[c] = cWorker[c]
             /\ roomId'[cRoom[c]] = roomId[cRoom[c]]
             /\ c \notin members[cRoom[c]] => c \notin members'[cRoom[c]]
  <2>1. cRoom[c] \in Chan /\ roomId[cRoom[c]] \in RoomId
    BY <1>1, SessionFacts
  <2> QED BY <1>1, <2>1, NoneAssumption DEF ClientsKept
<1>2. \A c \in Chan : caps[c] # "none" => cRoom[c] # None
  BY DEF PendingInv
<1>3. \A c \in Chan : caps[c] # "none" => (Ec!InRoom(c)' => Ec!InRoom(c))
  BY <1>1, <1>2 DEF Ec!InRoom
<1>4. \A c \in Chan : c \in Ec!Departed => c \in Ec!Departed'
  BY <1>1 DEF Ec!Departed
<1>5. ASSUME NEW r, SomeoneLeft(r) PROVE SomeoneLeft(r)'
  <2>1. PICK d \in Ec!Departed : RoomOf(d) = r
    BY <1>5 DEF SomeoneLeft
  <2>2. d \in Chan /\ cRoom[d] # None
    BY DEF Ec!Departed
  <2>3. RoomOf(d)' = r /\ d \in Ec!Departed'
    BY <1>1, <1>4, <2>1, <2>2
  <2> QED BY <2>3 DEF SomeoneLeft
<1> QED BY <1>1, <1>2, <1>3, <1>4, <1>5

\* Rooms stay kept when an EA closes only rooms that somebody has left, and a new
\* Room, client or reply is for a room that is kept.
LEMMA RoomsStayKept ==
  ASSUME Sess!SessionInv, SignalInv, ClientsKept,
         \A b \in Agent, q \in RoomId : Ea!HasRoom(b, q) => Ea!HasRoom(b, q)' \/ SomeoneLeft(q),
         \A i \in Chan : roomId[i] = None /\ roomId'[i] # None =>
           (roomWorker[i] \in Worker /\ RoomKept(roomWorker[i], roomId[i]))',
         \A c \in Chan : cRoom[c] = None /\ cRoom'[c] # None => RoomKept(cWorker[c], RoomOf(c))',
         \A m \in replies' : m \in replies \/
           (join[m[1]] # "idle" /\ want[m[1]] \in RoomId /\ RoomKept(m[3], want[m[1]]))'
  PROVE  RoomsKeptInv'
<1>1. ASSUME NEW w \in Worker, NEW r \in RoomId, RoomKept(w, r) PROVE RoomKept(w, r)'
  <2>1. AgentOf[w] \in Agent
    BY AgentOfAssumption
  <2> QED BY <1>1, <2>1, KnownClientsKept DEF SignalInv, RoomKept
<1>2. ASSUME NEW i \in Chan, roomId'[i] # None
      PROVE  (roomWorker[i] \in Worker /\ RoomKept(roomWorker[i], roomId[i]))'
  <2>1. CASE roomId[i] # None
    <3>1. roomId[i] \in RoomId
      BY <2>1, SessionFacts DEF Ec!TypeOK
    <3>2. roomWorker[i] \in Worker /\ RoomKept(roomWorker[i], roomId[i])
      BY <2>1 DEF SignalInv, RoomsKeptInv
    <3> QED BY <1>1, <2>1, <3>1, <3>2 DEF ClientsKept
  <2> QED BY <1>2, <2>1
<1>3. ASSUME NEW c \in Chan, cRoom'[c] # None PROVE RoomKept(cWorker[c], RoomOf(c))'
  <2>1. CASE cRoom[c] # None
    <3>1. cWorker[c] \in Worker /\ cRoom[c] \in Chan /\ RoomOf(c) \in RoomId
      BY <2>1, SessionFacts
    <3>2. RoomKept(cWorker[c], RoomOf(c))
      BY <2>1 DEF SignalInv, RoomsKeptInv
    <3>3. cWorker'[c] = cWorker[c] /\ RoomOf(c)' = RoomOf(c)
      BY <2>1, <3>1, NoneAssumption DEF ClientsKept
    <3> QED BY <1>1, <3>1, <3>2, <3>3
  <2> QED BY <1>3, <2>1
<1>4. ASSUME NEW m \in replies'
      PROVE  (join[m[1]] # "idle" /\ want[m[1]] \in RoomId /\ RoomKept(m[3], want[m[1]]))'
  <2>1. CASE m \in replies
    <3>1. m[1] \in Chan /\ m[3] \in Worker
      BY <2>1 DEF SignalInv, TypeOK
    <3>2. join[m[1]] # "idle" /\ want[m[1]] \in RoomId /\ RoomKept(m[3], want[m[1]])
      BY <2>1 DEF SignalInv, RoomsKeptInv
    <3> QED BY <1>1, <3>1, <3>2 DEF ClientsKept
  <2> QED BY <1>4, <2>1
<1> QED BY <1>2, <1>3, <1>4 DEF RoomsKeptInv

-----------------------------------------------------------------------------
(* Steps of the EC.                                                        *)

\* Steps that leave the rooms of the EAs and the first requests alone, and send
\* a deleteUser to every EA for exactly the clients that leave.
LEMMA EcStepsKeepAdmitted ==
  ASSUME Sess!SessionInv, SignalInv, ClientsKept,
         UNCHANGED <<eaVars, caps, late>>,
         pending' \in [Agent -> [Chan -> 0..2]],
         \A a \in Agent, c \in Chan :
           /\ pending[a][c] > 0 => pending'[a][c] > 0
           /\ pending'[a][c] > 0 => pending[a][c] > 0 \/ c \in Ec!Departed'
           /\ Ec!InRoom(c) => Ec!InRoom(c)' \/ pending'[a][c] > 0
  PROVE  PendingInv' /\ AdmittedInv' /\ EnteringInv' /\ ServedClientKept' /\ LeftClientBeingDeleted'
<1>0. /\ \A c \in Chan : caps[c] # "none" =>
           /\ cRoom'[c] = cRoom[c] /\ cRoom[c] # None
           /\ cWorker'[c] = cWorker[c]
           /\ roomId'[cRoom[c]] = roomId[cRoom[c]]
           /\ Ec!InRoom(c)' => Ec!InRoom(c)
      /\ \A c \in Chan : c \in Ec!Departed => c \in Ec!Departed'
      /\ \A r : SomeoneLeft(r) => SomeoneLeft(r)'
  BY KnownClientsKept DEF SignalInv
<1>1. UNCHANGED <<eaRouter, eaClients, eaEntering, eaAstray, caps, late>>
  BY DEF eaVars
<1>2. PendingInv'
  BY <1>0, <1>1 DEF SignalInv, PendingInv
<1>3. \A a \in Agent, r \in RoomId : eaClients[a][r] \subseteq Chan
  BY DEF SignalInv, TypeOK, Ea!TypeOK
<1>4. AdmittedInv'
  BY <1>0, <1>1, <1>3 DEF SignalInv, AdmittedInv, Ea!HasRoom
<1>a. \A c \in Chan : c \in eaAstray => caps[c] = "ok"
  BY DEF SignalInv, EnteringInv
<1>5. ServedClientKept'
  <2> SUFFICES ASSUME NEW c \in Chan, Ec!InRoom(c)'
               PROVE  /\ caps[c] = "ok" => c \in eaClients[AgentFor(c)'][RoomOf(c)'] \/ c \in eaAstray
                      /\ caps[c] = "error" \/ c \in eaAstray => SomeoneLeft(RoomOf(c))'
    BY <1>1 DEF ServedClientKept
  <2>1. CASE caps[c] = "none"
    BY <1>a, <2>1
  <2>2. CASE caps[c] # "none"
    <3>1. Ec!InRoom(c) /\ AgentFor(c)' = AgentFor(c) /\ RoomOf(c)' = RoomOf(c)
      BY <1>0, <2>2
    <3>2. /\ caps[c] = "ok" => c \in eaClients[AgentFor(c)][RoomOf(c)] \/ c \in eaAstray
          /\ caps[c] = "error" \/ c \in eaAstray => SomeoneLeft(RoomOf(c))
      BY <3>1 DEF SignalInv, ServedClientKept
    <3>3. SomeoneLeft(RoomOf(c)) => SomeoneLeft(RoomOf(c))'
      <4>1. SomeoneLeft(RoomOf(c)) => \E d \in Ec!Departed' : RoomOf(d)' = RoomOf(c)
        BY <1>0 DEF SomeoneLeft
      <4> QED BY <3>1, <4>1 DEF SomeoneLeft
    <3> QED BY <3>1, <3>2, <3>3
  <2> QED BY <2>1, <2>2
<1>7. EnteringInv'
  BY <1>0, <1>1, <1>a DEF SignalInv, EnteringInv
<1>6. LeftClientBeingDeleted'
  BY <1>1, <1>3 DEF SignalInv, LeftClientBeingDeleted
<1> QED BY <1>2, <1>4, <1>5, <1>6, <1>7

\* What BroadcastLeaving sends: at most two deleteUser for a client, to every EA,
\* none of which had one for it before.
LEMMA BroadcastReachesEveryAgent ==
  ASSUME Sess!SessionInv, SignalInv, ClientsKept, BroadcastLeaving
  PROVE  /\ pending' \in [Agent -> [Chan -> 0..2]]
         /\ \A a \in Agent, c \in Chan :
              /\ pending[a][c] > 0 => pending'[a][c] > 0
              /\ pending'[a][c] > 0 => pending[a][c] > 0 \/ c \in Ec!Departed'
              /\ Ec!InRoom(c) => Ec!InRoom(c)' \/ pending'[a][c] > 0
<1>1. ASSUME NEW c \in Leaving
      PROVE  /\ c \in Ec!Departed'
             /\ Events(c) \in {1, 2}
             /\ \A a \in Agent : pending[a][c] = 0
  <2>1. c \in Chan /\ cRoom[c] # None /\ c \in members[cRoom[c]] /\ c \notin members'[cRoom[c]]
    BY DEF Leaving, Ec!InRoom
  <2>2. cRoom'[c] = cRoom[c] /\ timers[cChan[c]] \in 0..2
    BY <2>1, SessionFacts DEF ClientsKept, Ec!TypeOK
  <2>3. Events(c) \in {1, 2}
    BY <2>2 DEF Events, Ec!DisconnectListeners
  <2>4. ASSUME NEW a \in Agent PROVE pending[a][c] = 0
    <3>1. pending[a][c] \in 0..2
      BY <2>1 DEF SignalInv, TypeOK
    <3>2. ~(pending[a][c] > 0)
      BY <2>1 DEF SignalInv, PendingInv, Ec!Departed
    <3> QED BY <3>1, <3>2
  <2> QED BY <2>1, <2>2, <2>3, <2>4 DEF Ec!Departed
<1>2. ASSUME NEW a \in Agent, NEW c \in Chan
      PROVE  /\ pending[a][c] \in 0..2
             /\ c \in Leaving => pending'[a][c] = Events(c)
             /\ c \notin Leaving => pending'[a][c] = pending[a][c]
  <2>1. pending[a][c] \in 0..2
    BY DEF SignalInv, TypeOK
  <2>2. pending'[a][c] = pending[a][c] + IF c \in Leaving THEN Events(c) ELSE 0
    BY DEF BroadcastLeaving
  <2> QED BY <1>1, <2>1, <2>2
<1>3. pending' \in [Agent -> [Chan -> 0..2]]
  <2>1. pending' = [a \in Agent |-> [c \in Chan |-> pending'[a][c]]]
    BY DEF BroadcastLeaving
  <2>2. \A a \in Agent, c \in Chan : pending'[a][c] \in 0..2
    BY <1>1, <1>2
  <2> QED BY <2>1, <2>2
<1>4. \A c \in Chan : Ec!InRoom(c) => Ec!InRoom(c)' \/ c \in Leaving
  BY DEF Ec!InRoom, Leaving, ClientsKept
<1> QED BY <1>1, <1>2, <1>3, <1>4

\* The requests under way stay those of channels whose token was accepted: one
\* more by such a channel, or none.
LEMMA OneMoreRequest ==
  ASSUME SignalInv, ClientsKept, NEW ch \in Chan, NEW n \in 1..(MaxRetries + 1),
         requests' \subseteq requests \cup {<<ch, n>>},
         join'[ch] \notin {"idle", "token"}, want'[ch] \in RoomId,
         \A h \in Chan \ {ch} : tries'[h] = tries[h]
  PROVE  requests' \subseteq Chan \X (1..(MaxRetries + 1)) /\ RequestInv'
<1>1. requests \subseteq Chan \X (1..(MaxRetries + 1))
  BY DEF SignalInv, TypeOK
<1>2. ASSUME NEW m \in requests PROVE join'[m[1]] # "idle" /\ want'[m[1]] \in RoomId
  <2>1. m[1] \in Chan /\ join[m[1]] # "idle" /\ want[m[1]] \in RoomId
    BY <1>1 DEF SignalInv, RequestInv
  <2> QED BY <2>1 DEF ClientsKept
<1>3. ASSUME NEW h \in Chan, join'[h] \in {"idle", "token"} PROVE tries'[h] = 0
  BY <1>3 DEF ClientsKept, SignalInv, RequestInv
<1> QED BY <1>1, <1>2, <1>3 DEF RequestInv

LEMMA NoMoreRequests ==
  ASSUME SignalInv, ClientsKept, requests' \subseteq requests, tries' = tries
  PROVE  requests' \subseteq Chan \X (1..(MaxRetries + 1)) /\ RequestInv'
<1>1. requests \subseteq Chan \X (1..(MaxRetries + 1))
  BY DEF SignalInv, TypeOK
<1>2. ASSUME NEW m \in requests PROVE join'[m[1]] # "idle" /\ want'[m[1]] \in RoomId
  <2>1. m[1] \in Chan /\ join[m[1]] # "idle" /\ want[m[1]] \in RoomId
    BY <1>1 DEF SignalInv, RequestInv
  <2> QED BY <2>1 DEF ClientsKept
<1>3. ASSUME NEW h \in Chan, join'[h] \in {"idle", "token"} PROVE tries'[h] = 0
  BY <1>3 DEF ClientsKept, SignalInv, RequestInv
<1> QED BY <1>1, <1>2, <1>3 DEF RequestInv

\* A socket event, a timer or a token: clients may leave or enter.
LEMMA SocketStepKeepsInv ==
  ASSUME Sess!SessionInv, Sess!SessionInv', SignalInv, ClientsKept, NEW ch \in Chan, SocketStep(ch)
  PROVE  SignalInv'
<1>1. UNCHANGED <<eaVars, tries, requests, replies, caps, late>> /\ BroadcastLeaving
  BY DEF SocketStep
<1>2. /\ pending' \in [Agent -> [Chan -> 0..2]]
      /\ PendingInv' /\ AdmittedInv' /\ EnteringInv' /\ ServedClientKept' /\ LeftClientBeingDeleted'
  BY <1>1, BroadcastReachesEveryAgent, EcStepsKeepAdmitted
<1>a. RoomsKeptInv'
  <2>1. UNCHANGED <<roomId, roomWorker, replies, eaRouter>>
    BY <1>1 DEF SocketStep, eaVars, Ec!Connect, Ec!SendToken, Ec!SocketCloses, Ec!SocketLost,
                Ec!ReconnectionTimeout, Ec!AdmitToRoom, Ec!roomVars
  <2>2. ASSUME NEW c \in Chan, cRoom[c] = None, cRoom'[c] # None
        PROVE  RoomKept(cWorker[c], RoomOf(c))'
    <3>1. Ec!AdmitToRoom(ch)
      BY <2>2 DEF SocketStep, Ec!Connect, Ec!SendToken, Ec!SocketCloses, Ec!SocketLost,
                  Ec!ReconnectionTimeout, Ec!clientVars
    <3>2. /\ registry[want[ch]] # None /\ join[ch] = "token"
          /\ cRoom' = [cRoom EXCEPT ![ch] = registry[want[ch]]]
          /\ cWorker' = [cWorker EXCEPT ![ch] = roomWorker[registry[want[ch]]]]
      BY <3>1 DEF Ec!AdmitToRoom, Ec!CreateClient
    <3>3. want[ch] \in RoomId
      BY <3>2, SessionFacts
    <3>4. PICK i \in Chan, q \in RoomId : registry[want[ch]] = i /\ roomId[i] = q
      BY <3>2, <3>3 DEF Sess!SessionInv, Sess!TypeOK, Sess!RoomInv, Sess!RegisteredRoomInUse
    <3>5. cRoom'[c] = i /\ cWorker'[c] = roomWorker[i]
      BY <2>2, <3>2, <3>4, SessionFacts DEF Ec!TypeOK
    <3>6. RoomKept(roomWorker[i], q)
      BY <3>4, NoneAssumption DEF SignalInv, RoomsKeptInv
    <3>7. SomeoneLeft(q) => SomeoneLeft(q)'
      BY KnownClientsKept DEF SignalInv
    <3>8. roomId'[i] = q /\ roomWorker'[i] = roomWorker[i]
      BY <2>1, <3>4
    <3>9. SomeoneLeft(q)' => SomeoneLeft(RoomOf(c))'
      BY <3>5, <3>8 DEF SomeoneLeft
    <3> QED BY <2>1, <3>5, <3>6, <3>7, <3>8, <3>9 DEF RoomKept, Ea!HasRoom
  <2> QED BY <2>1, <2>2, RoomsStayKept DEF Ea!HasRoom
<1>3. RequestInv'
  BY <1>1, NoMoreRequests
<1>4. TypeOK'
  <2>1. Ec!TypeOK'
    BY DEF Sess!SessionInv, Sess!TypeOK, Ec!TypeOK
  <2>2. Ea!TypeOK'
    BY <1>1 DEF SignalInv, TypeOK, Ea!TypeOK, eaVars
  <2> QED BY <1>1, <1>2, <2>1, <2>2 DEF SignalInv, TypeOK
<1>b. Ea!HostInv'
  BY <1>1 DEF SignalInv, Ea!HostInv, Ea!HasRoom, eaVars
<1> QED BY <1>2, <1>a, <1>b, <1>3, <1>4 DEF SignalInv

\* A worker is asked for, once more or in vain: nobody enters or leaves.
LEMMA AskingKeepsInv ==
  ASSUME Sess!SessionInv, Sess!SessionInv', SignalInv, ClientsKept, NEW ch \in Chan,
         AskForWorker(ch) \/ Retry(ch) \/ GiveUp(ch)
  PROVE  SignalInv'
<1>1. UNCHANGED <<eaVars, replies, pending, caps, late, cRoom, members, roomId>>
  BY DEF AskForWorker, Retry, GiveUp, netVars, ecVars, Ec!AskForWorker, Ec!WorkerTimeout, Ec!clientVars,
         Ec!roomVars
<1>a. RoomsKeptInv' /\ Ea!HostInv'
  BY <1>1, RoomsStayKept DEF SignalInv, eaVars, Ea!HasRoom, Ea!HostInv
<1>2. join[ch] \in {"token", "worker"} /\ want[ch] \in RoomId
  <2>1. join[ch] \in {"token", "worker"}
    BY DEF AskForWorker, Retry, GiveUp, Ec!AskForWorker, Ec!WorkerTimeout
  <2> QED BY <2>1, SessionFacts
<1>3. PendingInv' /\ AdmittedInv' /\ EnteringInv' /\ ServedClientKept' /\ LeftClientBeingDeleted'
  <2>1. pending' \in [Agent -> [Chan -> 0..2]]
    BY <1>1 DEF SignalInv, TypeOK
  <2>2. \A a \in Agent, c \in Chan :
          /\ pending[a][c] > 0 => pending'[a][c] > 0
          /\ pending'[a][c] > 0 => pending[a][c] > 0 \/ c \in Ec!Departed'
          /\ Ec!InRoom(c) => Ec!InRoom(c)' \/ pending'[a][c] > 0
    BY <1>1 DEF Ec!InRoom
  <2> QED BY <1>1, <2>1, <2>2, EcStepsKeepAdmitted
<1>4. /\ tries' \in [Chan -> 0..(MaxRetries + 1)]
      /\ requests' \subseteq Chan \X (1..(MaxRetries + 1))
      /\ RequestInv'
  <2>1. CASE GiveUp(ch)
    <3>1. UNCHANGED <<tries, requests>>
      BY <2>1 DEF GiveUp, netVars
    <3> QED BY <3>1, NoMoreRequests DEF SignalInv, TypeOK
  <2>2. CASE AskForWorker(ch) \/ Retry(ch)
    <3>1. /\ tries \in [Chan -> 0..(MaxRetries + 1)]
          /\ tries[ch] <= MaxRetries
      <4>1. tries \in [Chan -> 0..(MaxRetries + 1)]
        BY DEF SignalInv, TypeOK
      <4>2. CASE Retry(ch)
        BY <4>1, <4>2 DEF Retry
      <4>3. CASE AskForWorker(ch)
        <5>1. tries[ch] = 0
          BY <4>3 DEF AskForWorker, Ec!AskForWorker, SignalInv, RequestInv
        <5> QED BY <4>1, <5>1, RetriesAssumption
      <4> QED BY <2>2, <4>2, <4>3
    <3>2. tries[ch] + 1 \in 1..(MaxRetries + 1)
      BY <3>1, RetriesAssumption
    <3>3. /\ tries' = [tries EXCEPT ![ch] = @ + 1]
          /\ requests' = requests \cup {<<ch, tries[ch] + 1>>}
      BY <2>2 DEF AskForWorker, Retry, SendRequest
    <3>4. join'[ch] = "worker" /\ want'[ch] \in RoomId
      <4>1. CASE Retry(ch)
        BY <1>2, <4>1 DEF Retry, ecVars
      <4>2. CASE AskForWorker(ch)
        <5>1. join \in [Chan -> {"idle", "token", "worker", "joined", "refused", "dropped", "rejoined"}]
          BY SessionFacts DEF Ec!TypeOK
        <5> QED BY <1>2, <4>2, <5>1 DEF AskForWorker, Ec!AskForWorker
      <4> QED BY <2>2, <4>1, <4>2
    <3>5. tries' \in [Chan -> 0..(MaxRetries + 1)] /\ \A h \in Chan : h # ch => tries'[h] = tries[h]
      BY <3>1, <3>2, <3>3
    <3>6. requests' \subseteq Chan \X (1..(MaxRetries + 1)) /\ RequestInv'
      BY <3>2, <3>3, <3>4, <3>5, OneMoreRequest
    <3> QED BY <3>5, <3>6
  <2> QED BY <2>1, <2>2
<1>5. TypeOK'
  <2>1. Ec!TypeOK'
    BY DEF Sess!SessionInv, Sess!TypeOK, Ec!TypeOK
  <2>2. Ea!TypeOK'
    BY <1>1 DEF SignalInv, TypeOK, Ea!TypeOK, eaVars
  <2> QED BY <1>1, <1>4, <2>1, <2>2 DEF SignalInv, TypeOK
<1> QED BY <1>3, <1>a, <1>4, <1>5 DEF SignalInv

\* The reply arrives and the client is created: the others stay where they are.
LEMMA ArrivalKeepsInv ==
  ASSUME Sess!SessionInv, Sess!SessionInv', SignalInv, ClientsKept,
         NEW ch \in Chan, NEW w \in Worker, WorkerArrives(ch, w)
  PROVE  SignalInv'
<1>1. UNCHANGED <<eaVars, tries, requests, pending, caps, late>> /\ replies' \subseteq replies
  BY DEF WorkerArrives
<1>a. RoomsKeptInv'
  <2> DEFINE m == <<ch, tries[ch], w>>
             r == want[ch]
  <2>1. m \in replies /\ join[ch] = "worker" /\ cWorker' = [cWorker EXCEPT ![ch] = w]
    BY DEF WorkerArrives, Ec!WorkerForNewRoom, Ec!WorkerForRacingRoom, Ec!CreateClient
  <2>2. r \in RoomId /\ RoomKept(w, r)
    <3>1. want[m[1]] \in RoomId /\ RoomKept(m[3], want[m[1]])
      BY <2>1 DEF SignalInv, RoomsKeptInv
    <3> QED BY <3>1
  <2>3. RoomKept(w, r)' /\ UNCHANGED eaRouter
    <3>1. UNCHANGED eaRouter /\ want'[ch] = want[ch]
      BY <1>1, <2>1 DEF eaVars, ClientsKept
    <3>2. SomeoneLeft(r) => SomeoneLeft(want[ch])'
      <4>1. SomeoneLeft(r) => \E d \in Ec!Departed' : RoomOf(d)' = r
        BY KnownClientsKept DEF SignalInv, SomeoneLeft
      <4> QED BY <3>1, <4>1 DEF SomeoneLeft
    <3> QED BY <2>2, <3>1, <3>2 DEF RoomKept, Ea!HasRoom
  <2>4. ASSUME NEW i \in Chan, roomId[i] = None, roomId'[i] # None
        PROVE  roomWorker'[i] = w /\ roomId'[i] = r
    <3>1. Ec!WorkerForNewRoom(ch, w)
      BY <2>4 DEF WorkerArrives, Ec!WorkerForRacingRoom, Ec!roomVars
    <3> QED BY <2>4, <3>1, SessionFacts DEF Ec!WorkerForNewRoom, Ec!TypeOK
  <2>5. ASSUME NEW c \in Chan, cRoom[c] = None, cRoom'[c] # None
        PROVE  cWorker'[c] = w /\ RoomOf(c)' = r
    <3>1. PICK i \in Chan : cRoom' = [cRoom EXCEPT ![ch] = i] /\ roomId'[i] = r
      <4>1. CASE Ec!WorkerForNewRoom(ch, w)
        BY <4>1, SessionFacts DEF Ec!WorkerForNewRoom, Ec!CreateClient, Ec!TypeOK
      <4>2. CASE Ec!WorkerForRacingRoom(ch, w)
        <5>1. /\ registry[r] # None /\ cRoom' = [cRoom EXCEPT ![ch] = registry[r]]
              /\ roomId' = roomId
          BY <4>2 DEF Ec!WorkerForRacingRoom, Ec!CreateClient, Ec!roomVars
        <5>2. registry[r] \in Chan /\ roomId[registry[r]] = r
          BY <2>2, <5>1 DEF Sess!SessionInv, Sess!TypeOK, Sess!RoomInv, Sess!RegisteredRoomInUse
        <5> QED BY <5>1, <5>2
      <4> QED BY <4>1, <4>2 DEF WorkerArrives
    <3>2. c = ch /\ cRoom'[c] = i
      BY <2>5, <3>1, SessionFacts DEF Ec!TypeOK
    <3> QED BY <2>1, <3>1, <3>2, SessionFacts DEF Ec!TypeOK
  <2>6. want'[ch] = want[ch]
    BY <2>1 DEF ClientsKept
  <2> QED BY <1>1, <2>3, <2>4, <2>5, <2>6, RoomsStayKept DEF Ea!HasRoom, RoomKept, SomeoneLeft
<1>2. \A c \in Chan : Ec!InRoom(c) => Ec!InRoom(c)'
  <2> SUFFICES ASSUME NEW c \in Chan, cRoom[c] # None, c \in members[cRoom[c]]
               PROVE  cRoom'[c] = cRoom[c] /\ c \in members'[cRoom[c]]
    BY DEF Ec!InRoom
  <2>1. cRoom[c] \in Chan /\ cRoom'[c] = cRoom[c] /\ members \in [Chan -> SUBSET Chan]
    BY SessionFacts DEF ClientsKept, Ec!TypeOK
  <2>2. PICK i : members' = [members EXCEPT ![i] = @ \cup {ch}]
    BY DEF WorkerArrives, Ec!WorkerForNewRoom, Ec!WorkerForRacingRoom, Ec!CreateClient
  <2> QED BY <2>1, <2>2
<1>3. PendingInv' /\ AdmittedInv' /\ EnteringInv' /\ ServedClientKept' /\ LeftClientBeingDeleted'
  <2>1. pending' \in [Agent -> [Chan -> 0..2]]
    BY <1>1 DEF SignalInv, TypeOK
  <2> QED BY <1>1, <1>2, <2>1, EcStepsKeepAdmitted
<1>4. RequestInv'
  BY <1>1, NoMoreRequests
<1>5. TypeOK'
  <2>1. Ec!TypeOK'
    BY DEF Sess!SessionInv, Sess!TypeOK, Ec!TypeOK
  <2>2. Ea!TypeOK'
    BY <1>1 DEF SignalInv, TypeOK, Ea!TypeOK, eaVars
  <2> QED BY <1>1, <2>1, <2>2 DEF SignalInv, TypeOK
<1>b. Ea!HostInv'
  BY <1>1 DEF SignalInv, Ea!HostInv, Ea!HasRoom, eaVars
<1> QED BY <1>3, <1>a, <1>b, <1>4, <1>5 DEF SignalInv

-----------------------------------------------------------------------------
(* Steps of the EAs, and of clients: the EC does nothing.                  *)

LEMMA EcStandsStill ==
  ASSUME UNCHANGED ecVars
  PROVE  /\ UNCHANGED <<sock, join, want, cRoom, cWorker, cChan, roomId, roomWorker, members>>
         /\ \A c \in Chan : Ec!InRoom(c)' <=> Ec!InRoom(c)
         /\ Ec!Departed' = Ec!Departed
         /\ \A r : SomeoneLeft(r)' <=> SomeoneLeft(r)
BY DEF ecVars, Ec!InRoom, Ec!Departed, SomeoneLeft

\* A client that was told 'success' sends its first request.
LEMMA RequestCapsKeepsInv ==
  ASSUME Sess!SessionInv, Sess!SessionInv', SignalInv, ClientsKept, NEW c \in Chan, RequestCaps(c)
  PROVE  SignalInv'
<1>1. UNCHANGED <<ecVars, eaVars, tries, requests, replies, pending, late>>
  BY DEF RequestCaps
<1>2. /\ UNCHANGED <<cRoom, cWorker, roomId, roomWorker, join, want>>
      /\ \A d \in Chan : Ec!InRoom(d)' <=> Ec!InRoom(d)
      /\ Ec!Departed' = Ec!Departed
      /\ \A r : SomeoneLeft(r)' <=> SomeoneLeft(r)
  BY <1>1, EcStandsStill
<1>3. /\ caps' \in [Chan -> {"none", "sent", "ok", "error"}]
      /\ \A d \in Chan : /\ caps'[d] = "ok" <=> caps[d] = "ok"
                         /\ caps'[d] = "error" <=> caps[d] = "error"
                         /\ caps[d] = "sent" => caps'[d] = "sent"
      /\ \A d \in Chan : caps'[d] # "none" => cRoom[d] # None
  <2>1. /\ caps \in [Chan -> {"none", "sent", "ok", "error"}]
        /\ caps[c] = "none" /\ caps' = [caps EXCEPT ![c] = "sent"]
        /\ cRoom[c] # None /\ \A d \in Chan : caps[d] # "none" => cRoom[d] # None
    <3>1. caps \in [Chan -> {"none", "sent", "ok", "error"}]
      BY DEF SignalInv, TypeOK
    <3>2. caps[c] = "none" /\ caps' = [caps EXCEPT ![c] = "sent"] /\ cRoom[c] # None
      BY DEF RequestCaps, Ec!InRoom
    <3>3. \A d \in Chan : caps[d] # "none" => cRoom[d] # None
      BY DEF SignalInv, PendingInv
    <3> QED BY <3>1, <3>2, <3>3
  <2>2. caps' \in [Chan -> {"none", "sent", "ok", "error"}]
    BY <2>1
  <2>3. \A d \in Chan : caps'[d] = IF d = c THEN "sent" ELSE caps[d]
    BY <2>1
  <2> QED BY <2>1, <2>2, <2>3
<1>4. \A a \in Agent, r \in RoomId : eaClients[a][r] \subseteq Chan
  BY DEF SignalInv, TypeOK, Ea!TypeOK
<1>5. PendingInv' /\ ServedClientKept' /\ EnteringInv'
  <2>1. eaAstray \subseteq Chan
    BY DEF SignalInv, TypeOK, Ea!TypeOK
  <2>2. UNCHANGED <<eaRouter, eaClients, eaEntering, eaAstray, pending>>
    BY <1>1 DEF eaVars
  <2>a. PendingInv /\ ServedClientKept /\ EnteringInv
    BY DEF SignalInv
  <2>3. PendingInv' /\ ServedClientKept'
    BY <1>2, <1>3, <2>2, <2>a DEF PendingInv, ServedClientKept
  <2>4. EnteringInv'
    BY <1>2, <1>3, <2>1, <2>2, <2>a DEF EnteringInv
  <2> QED BY <2>3, <2>4
<1>a. RoomsKeptInv' /\ Ea!HostInv'
  <2>1. UNCHANGED <<eaRouter, replies>>
    BY <1>1 DEF eaVars
  <2>2. RoomsKeptInv'
    BY <1>2, <2>1, RoomsStayKept DEF Ea!HasRoom
  <2>3. Ea!HostInv'
    BY <2>1 DEF SignalInv, Ea!HasRoom, Ea!HostInv
  <2> QED BY <2>2, <2>3
<1>6. AdmittedInv' /\ LeftClientBeingDeleted'
  BY <1>1, <1>2, <1>3, <1>4 DEF SignalInv, AdmittedInv, LeftClientBeingDeleted, Ea!HasRoom, eaVars
<1>7. RequestInv'
  BY <1>1, NoMoreRequests
<1>8. TypeOK'
  <2>1. Ec!TypeOK'
    BY DEF Sess!SessionInv, Sess!TypeOK, Ec!TypeOK
  <2>2. Ea!TypeOK'
    BY <1>1 DEF SignalInv, TypeOK, Ea!TypeOK, eaVars
  <2> QED BY <1>1, <1>3, <2>1, <2>2 DEF SignalInv, TypeOK
<1> QED BY <1>5, <1>a, <1>6, <1>7, <1>8 DEF SignalInv

\* A worker request is taken by an EA in service, which has the room or opens it
\* on a new router, or swallowed by one that drains: no client is touched.
LEMMA WorkRequestKeepsInv ==
  ASSUME Sess!SessionInv, Sess!SessionInv', SignalInv, ClientsKept, NEW a \in Agent, NEW ch \in Chan,
         NEW n \in 1..(MaxRetries + 1), TakeRequest(a, ch, n) \/ SwallowRequest(a, ch, n)
  PROVE  SignalInv'
<1>1. UNCHANGED <<ecVars, tries, pending, caps, late, eaClients, eaEntering, eaAstray>> /\ requests' \subseteq requests
  BY DEF TakeRequest, SwallowRequest, eaVars, Ea!eaVars, Ea!WorkOnRoom, Ea!WorkOnNewRoom
<1>2. /\ UNCHANGED <<cRoom, cWorker, roomId, roomWorker, join, want>>
      /\ \A d \in Chan : Ec!InRoom(d)' <=> Ec!InRoom(d)
      /\ Ec!Departed' = Ec!Departed
      /\ \A r : SomeoneLeft(r)' <=> SomeoneLeft(r)
  BY <1>1, EcStandsStill
<1>3. /\ Ea!TypeOK' /\ Ea!HostInv'
      /\ replies' \subseteq Chan \X (1..(MaxRetries + 1)) \X Worker
      /\ \A m \in replies' : m \in replies \/
           (join[m[1]] # "idle" /\ want[m[1]] \in RoomId /\ RoomKept(m[3], want[m[1]]))'
      /\ \A b \in Agent, r \in RoomId : Ea!HasRoom(b, r) => eaRouter'[b][r] = eaRouter[b][r]
  <2>1. Ea!TypeOK /\ Ea!HostInv /\ replies \subseteq Chan \X (1..(MaxRetries + 1)) \X Worker
    BY DEF SignalInv, TypeOK
  <2>2. CASE SwallowRequest(a, ch, n)
    BY <2>1, <2>2 DEF SwallowRequest, Ea!TypeOK, Ea!HostInv, Ea!HasRoom, eaVars
  <2>3. CASE TakeRequest(a, ch, n)
    <3>1. want[ch] \in RoomId
      BY <2>3 DEF TakeRequest, SignalInv, RequestInv
    <3>2. /\ Ea!TypeOK' /\ Ea!HostInv'
          /\ eaRouter'[a][want[ch]] \in Worker
          /\ AgentOf[eaRouter'[a][want[ch]]] = a
          /\ \A b \in Agent, r \in RoomId : Ea!HasRoom(b, r) => eaRouter'[b][r] = eaRouter[b][r]
      <4>1. CASE Ea!WorkOnRoom(a, want[ch])
        BY <2>1, <3>1, <4>1 DEF Ea!WorkOnRoom, Ea!eaVars, Ea!TypeOK, Ea!HostInv, Ea!HasRoom
      <4>2. ASSUME NEW w \in Worker, Ea!WorkOnNewRoom(a, want[ch], ThisEc, w)
            PROVE  /\ Ea!TypeOK' /\ Ea!HostInv'
                   /\ eaRouter'[a][want[ch]] \in Worker
                   /\ AgentOf[eaRouter'[a][want[ch]]] = a
                   /\ \A b \in Agent, r \in RoomId : Ea!HasRoom(b, r) => eaRouter'[b][r] = eaRouter[b][r]
        BY <2>1, <3>1, <4>2, NoneAssumption DEF Ea!WorkOnNewRoom, Ea!TypeOK, Ea!HostInv, Ea!HasRoom
      <4> QED BY <2>3, <4>1, <4>2 DEF TakeRequest
    <3>3. replies' \subseteq Chan \X (1..(MaxRetries + 1)) \X Worker
      BY <2>1, <2>3, <3>2 DEF TakeRequest
    <3>4. ASSUME NEW m \in replies', m \notin replies
          PROVE  (join[m[1]] # "idle" /\ want[m[1]] \in RoomId /\ RoomKept(m[3], want[m[1]]))'
      <4>1. m = <<ch, n, eaRouter'[a][want[ch]]>> /\ join[ch] = "worker"
        BY <2>3, <3>4 DEF TakeRequest
      <4> QED BY <1>2, <3>1, <3>2, <4>1, NoneAssumption DEF RoomKept, Ea!HasRoom
    <3> QED BY <3>2, <3>3, <3>4
  <2> QED BY <2>2, <2>3
<1>4. \A b \in Agent, r \in RoomId : eaClients[b][r] \subseteq Chan
  BY DEF SignalInv, TypeOK, Ea!TypeOK
<1>5. PendingInv' /\ ServedClientKept'
  BY <1>1, <1>2 DEF SignalInv, PendingInv, ServedClientKept
<1>a. RoomsKeptInv'
  BY <1>2, <1>3, RoomsStayKept DEF Ea!HasRoom
<1>b. EnteringInv'
  <2> SUFFICES ASSUME NEW d \in Chan, eaEntering[d] # None
               PROVE  /\ caps[d] = "sent"
                      /\ eaRouter'[AgentFor(d)][RoomOf(d)] = eaEntering[d] \/ SomeoneLeft(RoomOf(d))
    BY <1>1, <1>2 DEF EnteringInv, SignalInv
  <2>1. /\ caps[d] = "sent"
        /\ eaRouter[AgentFor(d)][RoomOf(d)] = eaEntering[d] \/ SomeoneLeft(RoomOf(d))
    BY DEF SignalInv, EnteringInv
  <2>2. AgentFor(d) \in Agent /\ RoomOf(d) \in RoomId
    BY <2>1, SessionFacts, AgentOfAssumption DEF SignalInv, PendingInv
  <2> QED BY <1>3, <2>1, <2>2 DEF Ea!HasRoom
<1>6. AdmittedInv' /\ LeftClientBeingDeleted'
  BY <1>1, <1>2, <1>3, <1>4 DEF SignalInv, AdmittedInv, LeftClientBeingDeleted, Ea!HasRoom
<1>7. requests' \subseteq Chan \X (1..(MaxRetries + 1)) /\ RequestInv'
  BY <1>1, NoMoreRequests
<1>8. TypeOK'
  <2>1. Ec!TypeOK'
    BY DEF Sess!SessionInv, Sess!TypeOK, Ec!TypeOK
  <2>2. Ea!TypeOK' /\ replies' \subseteq Chan \X (1..(MaxRetries + 1)) \X Worker
    BY <1>3
  <2> QED BY <1>1, <1>7, <2>1, <2>2 DEF SignalInv, TypeOK
<1>c. Ea!HostInv'
  BY <1>3
<1> QED BY <1>5, <1>a, <1>b, <1>c, <1>6, <1>7, <1>8 DEF SignalInv

\* getRouterRtpCapabilities reaches the EA of the client, before or after its
\* deleteUser, and the EA has the client's room or not.
LEMMA HandleCapsKeepsInv ==
  ASSUME Sess!SessionInv, Sess!SessionInv', SignalInv, ClientsKept, NEW c \in Chan, HandleCaps(c)
  PROVE  SignalInv'
<1>1. /\ UNCHANGED <<ecVars, tries, requests, replies, pending, late>>
      /\ caps[c] = "sent"
      /\ UNCHANGED <<eaRouter, eaOwner, eaClients, eaAstray, eaUsed, eaState>>
  BY DEF HandleCaps, Ea!FindRoom, eaVars
<1>2. /\ UNCHANGED <<cRoom, cWorker, roomId, roomWorker, join, want>>
      /\ \A d \in Chan : Ec!InRoom(d)' <=> Ec!InRoom(d)
      /\ Ec!Departed' = Ec!Departed
      /\ \A r : SomeoneLeft(r)' <=> SomeoneLeft(r)
  BY <1>1, EcStandsStill
<1>3. cRoom[c] # None /\ AgentFor(c) \in Agent /\ RoomOf(c) \in RoomId /\ cWorker[c] \in Worker
  <2>1. cRoom[c] # None
    BY <1>1 DEF SignalInv, PendingInv
  <2> QED BY <2>1, SessionFacts, AgentOfAssumption
<1>4. /\ caps \in [Chan -> {"none", "sent", "ok", "error"}]
      /\ eaEntering \in [Chan -> Worker \cup {None}] /\ eaAstray \subseteq Chan
      /\ Ea!TypeOK /\ \A a \in Agent, r \in RoomId : eaClients[a][r] \subseteq Chan
  BY DEF SignalInv, TypeOK, Ea!TypeOK
<1>5. \/ /\ Ea!HasRoom(AgentFor(c), RoomOf(c)) /\ caps' = caps
         /\ eaEntering' = [eaEntering EXCEPT ![c] = eaRouter[AgentFor(c)][RoomOf(c)]]
      \/ /\ ~Ea!HasRoom(AgentFor(c), RoomOf(c)) /\ eaEntering' = eaEntering
         /\ caps' = [caps EXCEPT ![c] = "error"] /\ eaEntering[c] = None
  BY DEF HandleCaps, Ea!FindRoom, eaVars
<1>6. /\ eaEntering' \in [Chan -> Worker \cup {None}]
      /\ caps' \in [Chan -> {"none", "sent", "ok", "error"}]
      /\ \A d \in Chan : /\ caps'[d] = "ok" <=> caps[d] = "ok"
                         /\ d # c => caps'[d] = caps[d] /\ eaEntering'[d] = eaEntering[d]
      /\ eaEntering'[c] # None => /\ caps'[c] = "sent"
                                 /\ eaRouter[AgentFor(c)][RoomOf(c)] = eaEntering'[c]
      /\ caps'[c] = "error" => ~Ea!HasRoom(AgentFor(c), RoomOf(c))
      /\ caps'[c] # "none"
  <2>1. eaRouter[AgentFor(c)][RoomOf(c)] \in Worker \cup {None}
    BY <1>3, <1>4 DEF Ea!TypeOK
  <2> QED BY <1>1, <1>4, <1>5, <2>1
<1>7. PendingInv /\ AdmittedInv /\ EnteringInv /\ ServedClientKept /\ LeftClientBeingDeleted /\ Ea!HostInv
  BY DEF SignalInv
<1>8. PendingInv' /\ AdmittedInv' /\ LeftClientBeingDeleted' /\ Ea!HostInv'
  BY <1>1, <1>2, <1>3, <1>4, <1>6, <1>7
     DEF PendingInv, AdmittedInv, LeftClientBeingDeleted, Ea!HostInv, Ea!HasRoom
<1>9. RoomsKeptInv'
  BY <1>1, <1>2, RoomsStayKept DEF Ea!HasRoom
<1>10. EnteringInv'
  BY <1>1, <1>2, <1>4, <1>6, <1>7 DEF EnteringInv
<1>11. ServedClientKept'
  <2> SUFFICES ASSUME NEW d \in Chan, Ec!InRoom(d)
               PROVE  /\ caps'[d] = "ok" => d \in eaClients[AgentFor(d)][RoomOf(d)] \/ d \in eaAstray
                      /\ caps'[d] = "error" \/ d \in eaAstray => SomeoneLeft(RoomOf(d))
    BY <1>1, <1>2 DEF ServedClientKept
  <2>1. CASE d = c
    <3>1. caps'[c] = "error" => SomeoneLeft(RoomOf(c))
      BY <1>3, <1>6 DEF SignalInv, RoomsKeptInv, RoomKept
    <3>2. c \notin eaAstray
      BY <1>1, <1>7 DEF EnteringInv
    <3> QED BY <1>1, <1>6, <2>1, <3>1, <3>2
  <2>2. CASE d # c
    BY <1>6, <1>7, <2>2 DEF ServedClientKept
  <2> QED BY <2>1, <2>2
<1>12. RequestInv'
  BY <1>1, NoMoreRequests
<1>13. TypeOK'
  <2>1. Ec!TypeOK'
    BY DEF Sess!SessionInv, Sess!TypeOK, Ec!TypeOK
  <2>2. Ea!TypeOK'
    BY <1>1, <1>4, <1>6 DEF Ea!TypeOK
  <2> QED BY <1>1, <1>6, <2>1, <2>2 DEF SignalInv, TypeOK
<1> QED BY <1>8, <1>9, <1>10, <1>11, <1>12, <1>13 DEF SignalInv

\* The client is created in the room that was found for it: if that is no longer
\* its EA's room of the id, somebody has left it.
LEMMA AnswerCapsKeepsInv ==
  ASSUME Sess!SessionInv, Sess!SessionInv', SignalInv, ClientsKept, NEW c \in Chan, AnswerCaps(c)
  PROVE  SignalInv'
<1> DEFINE a == AgentFor(c)
           r == RoomOf(c)
<1>1. /\ UNCHANGED <<ecVars, tries, requests, replies, pending, eaRouter, eaOwner, eaUsed, eaState>>
      /\ eaEntering[c] # None
      /\ eaEntering' = [eaEntering EXCEPT ![c] = None]
      /\ caps' = [caps EXCEPT ![c] = "ok"]
      /\ late' = IF ~Ec!InRoom(c) /\ pending[a][c] = 0 THEN late \cup {c} ELSE late
      /\ \/ /\ eaRouter[a][r] = eaEntering[c] /\ eaAstray' = eaAstray
            /\ eaClients' = [eaClients EXCEPT ![a][r] = @ \cup {c}]
         \/ /\ eaRouter[a][r] # eaEntering[c] /\ eaAstray' = eaAstray \cup {c}
            /\ eaClients' = eaClients
  BY DEF AnswerCaps, Ea!AddUser
<1>2. /\ UNCHANGED <<cRoom, cWorker, roomId, roomWorker, join, want>>
      /\ \A d \in Chan : Ec!InRoom(d)' <=> Ec!InRoom(d)
      /\ Ec!Departed' = Ec!Departed
      /\ \A q : SomeoneLeft(q)' <=> SomeoneLeft(q)
  BY <1>1, EcStandsStill
<1>3. /\ caps[c] = "sent"
      /\ eaRouter[a][r] # eaEntering[c] => SomeoneLeft(r)
  BY <1>1 DEF SignalInv, EnteringInv
<1>4. cRoom[c] # None /\ a \in Agent /\ r \in RoomId
  <2>1. cRoom[c] # None
    BY <1>3 DEF SignalInv, PendingInv
  <2> QED BY <2>1, SessionFacts, AgentOfAssumption
<1>5. /\ caps \in [Chan -> {"none", "sent", "ok", "error"}] /\ late \subseteq Chan
      /\ eaEntering \in [Chan -> Worker \cup {None}] /\ eaAstray \subseteq Chan
      /\ Ea!TypeOK /\ eaClients \in [Agent -> [RoomId -> SUBSET Chan]]
      /\ pending[a][c] \in 0..2
  BY <1>4 DEF SignalInv, TypeOK, Ea!TypeOK
<1>6. /\ eaEntering' \in [Chan -> Worker \cup {None}] /\ caps' \in [Chan -> {"none", "sent", "ok", "error"}]
      /\ \A d \in Chan : /\ d # c => caps'[d] = caps[d] /\ eaEntering'[d] = eaEntering[d]
                         /\ d = c => caps'[d] = "ok" /\ eaEntering'[d] = None
      /\ late' \subseteq Chan /\ late \subseteq late'
      /\ Ec!InRoom(c) \/ pending[a][c] > 0 \/ c \in late'
      /\ eaAstray' \subseteq eaAstray \cup {c} /\ eaAstray \subseteq eaAstray'
      /\ c \in eaAstray' => c \in eaAstray \/ SomeoneLeft(r)
  BY <1>1, <1>3, <1>5
<1> HIDE DEF a, r
<1>7. /\ eaClients' \in [Agent -> [RoomId -> SUBSET Chan]]
      /\ \A b \in Agent, q \in RoomId : eaClients[b][q] \subseteq eaClients'[b][q]
      /\ \A b \in Agent, q \in RoomId : \A d \in eaClients'[b][q] :
           d \in eaClients[b][q] \/ (d = c /\ b = a /\ q = r /\ eaRouter[a][r] # None)
      /\ c \in eaClients'[a][r] \/ c \in eaAstray'
  <2>1. CASE eaClients' = [eaClients EXCEPT ![a][r] = @ \cup {c}] /\ eaRouter[a][r] # None
    BY <1>4, <1>5, <2>1
  <2>2. CASE eaClients' = eaClients /\ c \in eaAstray'
    BY <1>5, <2>2
  <2> QED BY <1>1, <2>1, <2>2
<1>8. /\ PendingInv /\ AdmittedInv /\ EnteringInv /\ ServedClientKept /\ LeftClientBeingDeleted
      /\ Ea!HostInv
  BY DEF SignalInv
<1>9. PendingInv' /\ Ea!HostInv'
  BY <1>1, <1>2, <1>4, <1>6, <1>8 DEF PendingInv, Ea!HostInv, Ea!HasRoom
<1>10. AdmittedInv'
  <2> SUFFICES ASSUME NEW b \in Agent, NEW q \in RoomId, NEW d \in eaClients'[b][q]
               PROVE  /\ eaRouter[b][q] # None
                      /\ caps'[d] = "ok"
                      /\ b = AgentFor(d) /\ q = RoomOf(d)
    BY <1>1, <1>2 DEF AdmittedInv, Ea!HasRoom
  <2>1. CASE d \in eaClients[b][q]
    <3>1. eaRouter[b][q] # None /\ caps[d] = "ok" /\ b = AgentFor(d) /\ q = RoomOf(d)
      BY <1>8, <2>1 DEF AdmittedInv, Ea!HasRoom
    <3>2. d \in Chan /\ d # c
      BY <1>3, <1>5, <2>1, <3>1
    <3> QED BY <1>6, <3>1, <3>2
  <2>2. CASE d = c /\ b = a /\ q = r /\ eaRouter[a][r] # None
    BY <1>6, <2>2 DEF a, r
  <2> QED BY <1>7, <2>1, <2>2
<1>11. RoomsKeptInv'
  BY <1>1, <1>2, RoomsStayKept DEF Ea!HasRoom
<1>12. EnteringInv'
  BY <1>1, <1>2, <1>5, <1>6, <1>8 DEF EnteringInv
<1>13. ServedClientKept'
  <2> SUFFICES ASSUME NEW d \in Chan, Ec!InRoom(d)
               PROVE  /\ caps'[d] = "ok" => d \in eaClients'[AgentFor(d)][RoomOf(d)] \/ d \in eaAstray'
                      /\ caps'[d] = "error" \/ d \in eaAstray' => SomeoneLeft(RoomOf(d))
    BY <1>2 DEF ServedClientKept
  <2>1. CASE d = c
    <3>1. c \notin eaAstray
      BY <1>3, <1>8 DEF EnteringInv
    <3> QED BY <1>6, <1>7, <2>1, <3>1 DEF a, r
  <2>2. CASE d # c
    <3>1. /\ caps[d] = "ok" => d \in eaClients[AgentFor(d)][RoomOf(d)] \/ d \in eaAstray
          /\ caps[d] = "error" \/ d \in eaAstray => SomeoneLeft(RoomOf(d))
      BY <1>8 DEF ServedClientKept
    <3>2. AgentFor(d) \in Agent /\ RoomOf(d) \in RoomId
      BY SessionFacts, AgentOfAssumption DEF Ec!InRoom
    <3> QED BY <1>6, <1>7, <2>2, <3>1, <3>2
  <2> QED BY <2>1, <2>2
<1>14. LeftClientBeingDeleted'
  <2> SUFFICES ASSUME NEW b \in Agent, NEW q \in RoomId, NEW d \in eaClients'[b][q]
               PROVE  Ec!InRoom(d) \/ pending[b][d] > 0 \/ d \in late'
    BY <1>1, <1>2, <1>7 DEF LeftClientBeingDeleted
  <2>1. CASE d \in eaClients[b][q]
    BY <1>6, <1>8, <2>1 DEF LeftClientBeingDeleted
  <2> QED BY <1>6, <1>7, <2>1
<1>15. RequestInv'
  BY <1>1, NoMoreRequests
<1>16. TypeOK'
  <2>1. Ec!TypeOK'
    BY DEF Sess!SessionInv, Sess!TypeOK, Ec!TypeOK
  <2>2. Ea!TypeOK'
    BY <1>1, <1>5, <1>6, <1>7 DEF Ea!TypeOK
  <2> QED BY <1>1, <1>6, <2>1, <2>2 DEF SignalInv, TypeOK
<1> QED BY <1>9, <1>10, <1>11, <1>12, <1>13, <1>14, <1>15, <1>16 DEF SignalInv

\* deleteUser reaches an EA that has the client, does not have it any more or
\* never had it: nobody else loses his place.
LEMMA HandleDeleteUserKeepsInv ==
  ASSUME Sess!SessionInv, Sess!SessionInv', SignalInv, ClientsKept,
         NEW a \in Agent, NEW c \in Chan, HandleDeleteUser(a, c)
  PROVE  SignalInv'
<1> DEFINE r == RoomOf(c)
<1>1. /\ UNCHANGED <<ecVars, tries, requests, replies, caps, late>>
      /\ pending[a][c] > 0
      /\ pending' = [pending EXCEPT ![a][c] = @ - 1]
  BY DEF HandleDeleteUser
<1>2. /\ UNCHANGED <<cRoom, cWorker, roomId, roomWorker, join, want>>
      /\ \A d \in Chan : Ec!InRoom(d)' <=> Ec!InRoom(d)
      /\ Ec!Departed' = Ec!Departed
      /\ \A q : SomeoneLeft(q)' <=> SomeoneLeft(q)
  BY <1>1, EcStandsStill
<1>3. ~Ec!InRoom(c) /\ cRoom[c] # None /\ r \in RoomId /\ SomeoneLeft(r)
  <2>1. c \in Ec!Departed
    BY <1>1 DEF SignalInv, PendingInv
  <2> QED BY <2>1, SessionFacts DEF Ec!Departed, Ec!InRoom, SomeoneLeft
<1>4. \/ Ea!DeleteUser(a, r, c)
      \/ ~Ea!HasRoom(a, r) /\ UNCHANGED eaVars
  BY DEF HandleDeleteUser
<1> HIDE DEF r
<1>5. /\ Ea!TypeOK
      /\ eaClients \in [Agent -> [RoomId -> SUBSET Chan]]
      /\ pending \in [Agent -> [Chan -> 0..2]]
  BY DEF SignalInv, TypeOK, Ea!TypeOK
<1>6. /\ pending' \in [Agent -> [Chan -> 0..2]]
      /\ \A b \in Agent, d \in Chan : b # a \/ d # c => pending'[b][d] = pending[b][d]
      /\ \A b \in Agent, d \in Chan : pending'[b][d] > 0 => pending[b][d] > 0
  <2>1. pending[a][c] - 1 \in 0..2
    <3>1. pending[a][c] \in 0..2
      BY <1>5
    <3> QED BY <1>1, <3>1
  <2> QED BY <1>1, <1>5, <2>1
<1>7. /\ Ea!TypeOK'
      /\ \A b \in Agent, q \in RoomId : eaClients'[b][q] \subseteq eaClients[b][q]
      /\ \A b \in Agent, q \in RoomId : eaClients'[b][q] # {} => eaRouter'[b][q] = eaRouter[b][q]
      /\ \A b \in Agent, q \in RoomId, d \in Chan :
           d \in eaClients[b][q] /\ d # c => d \in eaClients'[b][q]
      /\ c \notin eaClients'[a][r]
      /\ UNCHANGED <<eaEntering, eaAstray>>
      /\ \A b \in Agent, q \in RoomId : eaRouter'[b][q] = eaRouter[b][q] \/
           (b = a /\ q = r /\ eaRouter'[b][q] = None)
  <2>1. CASE ~Ea!HasRoom(a, r) /\ UNCHANGED eaVars
    <3>1. c \notin eaClients[a][r]
      BY <1>3, <2>1 DEF SignalInv, AdmittedInv
    <3> QED BY <1>5, <2>1, <3>1 DEF Ea!TypeOK, eaVars
  <2>2. CASE Ea!DeleteUser(a, r, c)
    <3>1. CASE Ea!EmptyWithout(a, r, c)
      <4>1. /\ eaRouter' = [eaRouter EXCEPT ![a][r] = None]
            /\ eaOwner' = [eaOwner EXCEPT ![a][r] = None]
            /\ eaClients' = [eaClients EXCEPT ![a][r] = {}]
            /\ UNCHANGED <<eaEntering, eaAstray, eaUsed, eaState>>
            /\ eaClients[a][r] \subseteq {c}
        BY <2>2, <3>1 DEF Ea!DeleteUser, Ea!EmptyWithout
      <4>2. \A b \in Agent, q \in RoomId :
              /\ b # a \/ q # r => eaClients'[b][q] = eaClients[b][q] /\ eaRouter'[b][q] = eaRouter[b][q]
              /\ b = a /\ q = r => eaClients'[b][q] = {} /\ eaRouter'[b][q] = None
        BY <1>3, <1>5, <4>1 DEF Ea!TypeOK
      <4>3. Ea!TypeOK'
        BY <1>3, <1>5, <4>1 DEF Ea!TypeOK
      <4>4. \A b \in Agent, q \in RoomId, d \in Chan :
              d \in eaClients[b][q] /\ d # c => d \in eaClients'[b][q]
        BY <4>1, <4>2
      <4> QED BY <1>3, <4>1, <4>2, <4>3, <4>4
    <3>2. CASE ~Ea!EmptyWithout(a, r, c)
      <4>1. /\ UNCHANGED <<eaRouter, eaOwner, eaEntering, eaAstray, eaUsed, eaState>>
            /\ eaClients' = [eaClients EXCEPT ![a][r] = @ \ {c}]
        BY <2>2, <3>2 DEF Ea!DeleteUser
      <4>2. \A b \in Agent, q \in RoomId :
              /\ b # a \/ q # r => eaClients'[b][q] = eaClients[b][q]
              /\ b = a /\ q = r => eaClients'[b][q] = eaClients[b][q] \ {c}
        BY <1>5, <4>1
      <4>3. Ea!TypeOK'
        BY <1>3, <1>5, <4>1 DEF Ea!TypeOK
      <4>4. \A b \in Agent, q \in RoomId, d \in Chan :
              d \in eaClients[b][q] /\ d # c => d \in eaClients'[b][q]
        BY <4>2
      <4> QED BY <1>3, <4>1, <4>2, <4>3, <4>4
    <3> QED BY <3>1, <3>2
  <2> QED BY <1>4, <2>1, <2>2
<1>8. PendingInv'
  BY <1>1, <1>2, <1>6 DEF SignalInv, PendingInv
<1>9. AdmittedInv'
  <2> SUFFICES ASSUME NEW b \in Agent, NEW q \in RoomId, NEW d \in eaClients'[b][q]
               PROVE  /\ eaRouter'[b][q] # None
                      /\ caps[d] = "ok"
                      /\ b = AgentFor(d) /\ q = RoomOf(d)
    BY <1>1, <1>2 DEF AdmittedInv, Ea!HasRoom
  <2>1. d \in eaClients[b][q] /\ eaRouter'[b][q] = eaRouter[b][q]
    BY <1>7
  <2> QED BY <2>1 DEF SignalInv, AdmittedInv, Ea!HasRoom
<1>10. ServedClientKept'
  <2> SUFFICES ASSUME NEW d \in Chan, Ec!InRoom(d)
               PROVE  /\ caps[d] = "ok" => d \in eaClients'[AgentFor(d)][RoomOf(d)] \/ d \in eaAstray
                      /\ caps[d] = "error" \/ d \in eaAstray => SomeoneLeft(RoomOf(d))
    BY <1>1, <1>2, <1>7 DEF ServedClientKept
  <2>1. d # c /\ cRoom[d] # None
    BY <1>3 DEF Ec!InRoom
  <2>2. AgentFor(d) \in Agent /\ RoomOf(d) \in RoomId
    BY <2>1, SessionFacts, AgentOfAssumption
  <2>3. /\ caps[d] = "ok" => d \in eaClients[AgentFor(d)][RoomOf(d)] \/ d \in eaAstray
        /\ caps[d] = "error" \/ d \in eaAstray => SomeoneLeft(RoomOf(d))
    BY DEF SignalInv, ServedClientKept
  <2> QED BY <1>7, <2>1, <2>2, <2>3
<1>a. RoomsKeptInv'
  BY <1>1, <1>2, <1>3, <1>7, RoomsStayKept DEF Ea!HasRoom
<1>b. EnteringInv'
  <2> SUFFICES ASSUME NEW d \in Chan, eaEntering[d] # None
               PROVE  /\ caps[d] = "sent"
                      /\ eaRouter'[AgentFor(d)][RoomOf(d)] = eaEntering[d] \/ SomeoneLeft(RoomOf(d))
    BY <1>1, <1>2, <1>7 DEF EnteringInv, SignalInv
  <2>1. /\ caps[d] = "sent"
        /\ eaRouter[AgentFor(d)][RoomOf(d)] = eaEntering[d] \/ SomeoneLeft(RoomOf(d))
    BY DEF SignalInv, EnteringInv
  <2>2. AgentFor(d) \in Agent /\ RoomOf(d) \in RoomId
    BY <2>1, SessionFacts, AgentOfAssumption DEF SignalInv, PendingInv
  <2> QED BY <1>3, <1>7, <2>1, <2>2
<1>c. Ea!HostInv'
  <2>1. Ea!HostInv
    BY DEF SignalInv
  <2> QED BY <1>7, <2>1 DEF Ea!HostInv, Ea!HasRoom
<1>11. LeftClientBeingDeleted'
  <2> SUFFICES ASSUME NEW b \in Agent, NEW q \in RoomId, NEW d \in eaClients'[b][q]
               PROVE  Ec!InRoom(d) \/ pending'[b][d] > 0 \/ d \in late
    <3>1. \A b \in Agent, q \in RoomId : eaClients'[b][q] \subseteq Chan
      BY <1>7 DEF Ea!TypeOK
    <3> QED BY <1>1, <1>2, <3>1 DEF LeftClientBeingDeleted
  <2>1. d \in eaClients[b][q] /\ d \in Chan
    BY <1>5, <1>7
  <2>2. b = a => d # c
    <3> SUFFICES ASSUME b = a, d = c PROVE FALSE
      OBVIOUS
    <3>1. q = r
      BY <2>1 DEF SignalInv, AdmittedInv, r
    <3> QED BY <1>7, <3>1
  <2>3. pending'[b][d] = pending[b][d]
    BY <1>6, <2>1, <2>2
  <2> QED BY <2>1, <2>3 DEF SignalInv, LeftClientBeingDeleted
<1>12. RequestInv'
  BY <1>1, NoMoreRequests
<1>13. TypeOK'
  <2>1. Ec!TypeOK'
    BY DEF Sess!SessionInv, Sess!TypeOK, Ec!TypeOK
  <2> QED BY <1>1, <1>6, <1>7, <2>1 DEF SignalInv, TypeOK
<1> QED BY <1>8, <1>9, <1>10, <1>a, <1>b, <1>c, <1>11, <1>12, <1>13 DEF SignalInv

\* An EA drains, or nothing happens.
LEMMA DrainKeepsInv ==
  ASSUME Sess!SessionInv, Sess!SessionInv', SignalInv, ClientsKept, UNCHANGED vars \/ \E a \in Agent : Drain(a)
  PROVE  SignalInv'
<1>1. UNCHANGED <<ecVars, netVars, eaRouter, eaOwner, eaClients, eaEntering, eaAstray, eaUsed>>
  BY DEF Drain, vars, eaVars, Ea!Drain
<1>2. /\ UNCHANGED <<tries, requests, replies, pending, caps, late, cRoom, cWorker, roomId, roomWorker, members>>
      /\ \A r : SomeoneLeft(r)' <=> SomeoneLeft(r)
  BY <1>1, EcStandsStill DEF netVars
<1>a. RoomsKeptInv'
  BY <1>1, <1>2, RoomsStayKept DEF Ea!HasRoom
<1>b. EnteringInv' /\ Ea!HostInv'
  BY <1>1, <1>2 DEF SignalInv, EnteringInv, Ea!HostInv, Ea!HasRoom
<1>3. PendingInv' /\ AdmittedInv' /\ ServedClientKept' /\ LeftClientBeingDeleted'
  BY <1>1, <1>2 DEF SignalInv, PendingInv, AdmittedInv, ServedClientKept, LeftClientBeingDeleted,
                    Ec!InRoom, Ec!Departed, Ea!HasRoom
<1>4. RequestInv'
  BY <1>2, NoMoreRequests
<1>5. Ea!TypeOK'
  BY <1>1 DEF SignalInv, TypeOK, Ea!TypeOK, Drain, Ea!Drain, vars, eaVars
<1>6. Ec!TypeOK'
  BY DEF Sess!SessionInv, Sess!TypeOK, Ec!TypeOK
<1> QED BY <1>2, <1>a, <1>b, <1>3, <1>4, <1>5, <1>6 DEF SignalInv, TypeOK

-----------------------------------------------------------------------------
(* The theorems.                                                           *)

LEMMA InitEstablishesInv == Init => Sess!SessionInv /\ SignalInv
<1> SUFFICES ASSUME Init PROVE Sess!SessionInv /\ SignalInv
  OBVIOUS
<1>1. Sess!Init
  BY DEF Init, Ec!Init, Sess!Init
<1>2. Sess!SessionInv
  BY <1>1, SessionAssumptions, Sess!InitEstablishesInv
<1>3. TypeOK
  <2>1. Ec!TypeOK
    BY <1>2, SessionFacts
  <2>2. Ea!TypeOK
    BY DEF Init, Ea!Init, Ea!TypeOK
  <2> QED BY <2>1, <2>2, RetriesAssumption DEF Init, TypeOK
<1>4. RequestInv /\ PendingInv /\ AdmittedInv /\ ServedClientKept /\ LeftClientBeingDeleted
  BY DEF Init, Ec!Init, Ea!Init, RequestInv, PendingInv, AdmittedInv, ServedClientKept,
         LeftClientBeingDeleted, Ec!InRoom
<1>5. RoomsKeptInv /\ EnteringInv /\ Ea!HostInv
  BY DEF Init, Ec!Init, Ea!Init, RoomsKeptInv, EnteringInv, Ea!HostInv, Ea!HasRoom
<1> QED BY <1>2, <1>3, <1>4, <1>5 DEF SignalInv

LEMMA NextKeepsSignalInv ==
  Sess!SessionInv /\ SignalInv /\ [Next]_vars => Sess!SessionInv' /\ SignalInv'
<1> SUFFICES ASSUME Sess!SessionInv, SignalInv, [Next]_vars
             PROVE  Sess!SessionInv' /\ SignalInv'
  OBVIOUS
<1>1. Sess!SessionInv' /\ ClientsKept
  BY SessionsStayConsistent
<1>2. ASSUME NEW ch \in Chan, SocketStep(ch) PROVE SignalInv'
  BY <1>1, <1>2, SocketStepKeepsInv
<1>3. ASSUME NEW ch \in Chan, AskForWorker(ch) \/ Retry(ch) \/ GiveUp(ch) PROVE SignalInv'
  BY <1>1, <1>3, AskingKeepsInv
<1>4. ASSUME NEW ch \in Chan, NEW w \in Worker, WorkerArrives(ch, w) PROVE SignalInv'
  BY <1>1, <1>4, ArrivalKeepsInv
<1>5. ASSUME NEW c \in Chan, RequestCaps(c) PROVE SignalInv'
  BY <1>1, <1>5, RequestCapsKeepsInv
<1>6. ASSUME NEW c \in Chan, HandleCaps(c) \/ AnswerCaps(c) PROVE SignalInv'
  BY <1>1, <1>6, HandleCapsKeepsInv, AnswerCapsKeepsInv
<1>7. ASSUME NEW a \in Agent, NEW ch \in Chan, NEW n \in 1..(MaxRetries + 1),
             TakeRequest(a, ch, n) \/ SwallowRequest(a, ch, n)
      PROVE  SignalInv'
  BY <1>1, <1>7, WorkRequestKeepsInv
<1>8. ASSUME NEW a \in Agent, NEW c \in Chan, HandleDeleteUser(a, c) PROVE SignalInv'
  BY <1>1, <1>8, HandleDeleteUserKeepsInv
<1>9. CASE UNCHANGED vars \/ \E a \in Agent : Drain(a)
  BY <1>1, <1>9, DrainKeepsInv
<1>10. CASE Next
  BY <1>1, <1>2, <1>3, <1>4, <1>5, <1>6, <1>7, <1>8, <1>9, <1>10 DEF Next
<1> QED BY <1>9, <1>10

\* The EC's sessions, the EAs' rooms and the messages between them stay
\* consistent, whatever overtakes what (erizoController.js, erizoAgent rpcPublic.js).
THEOREM SignallingInvariance == Spec => [](Sess!SessionInv /\ SignalInv)
BY InitEstablishesInv, NextKeepsSignalInv, PTL DEF Spec

\* Every variable keeps its type: a client sees at most two deleteUser messages
\* and a join makes at most MaxRetries + 1 attempts.
THEOREM TypeCorrect == Spec => []TypeOK
<1>1. SignalInv => TypeOK
  BY DEF SignalInv
<1> QED BY <1>1, SignallingInvariance, PTL

\* A client its EA has answered is in the EA's room until it leaves the EC's: no
\* deleteUser of somebody else takes its room away (room.js onClientDisconnected),
\* unless it closed the room between lookup and insertion (rpcPublic.js, room.js),
\* or before the lookup, and then somebody of the room has left.
THEOREM ServedClientsStay == Spec => []ServedClientKept
<1>1. SignalInv => ServedClientKept
  BY DEF SignalInv
<1> QED BY <1>1, SignallingInvariance, PTL

\* An EA that still has a client which left the EC is going to be told, unless
\* the client's first request came after its deleteUser (rpcPublic.js).
THEOREM LeftClientsAreDeleted == Spec => []LeftClientBeingDeleted
<1>1. SignalInv => LeftClientBeingDeleted
  BY DEF SignalInv
<1> QED BY <1>1, SignallingInvariance, PTL

-----------------------------------------------------------------------------
(* What the EC promises by itself it keeps here.                           *)

\* With EAs, retries and messages that overtake each other around it, the EC
\* does nothing that EcSession does not allow (erizoController.js, Room.js).
THEOREM SessionsAreImplemented == Spec => Sess!Spec
<1>1. Init => Sess!Init
  BY DEF Init, Ec!Init, Sess!Init
<1>2. [Next]_vars => [Sess!Next]_(Sess!vars)
  BY NextMovesSessions
<1> QED BY <1>1, <1>2, PTL DEF Spec, Sess!Spec

\* Nor does what comes between break the promise of the rooms: who entered is
\* visible until he departs, and does not return (Room.js, Rooms, Client.js).
THEOREM RoomServiceIsKept == Spec => Sess!ImplementsRoomService
<1>1. ~NuveDeletes /\ Policies \subseteq {Sess!RoomBest}
  BY DEF NuveDeletes, Policies, Sess!RoomBest
<1>2. Sess!Spec => Sess!ImplementsRoomService
  BY <1>1, SessionAssumptions, Sess!RoomServiceIsImplemented
<1> QED BY <1>2, SessionsAreImplemented
=============================================================================
