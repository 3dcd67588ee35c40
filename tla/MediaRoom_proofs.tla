--------------------------- MODULE MediaRoom_proofs ---------------------------
(***************************************************************************)
(* Theorems about MediaRoom, for any clients, producers and EAs.           *)
(***************************************************************************)
EXTENDS MediaRoom, TLAPS

USE HomeAssumption, ProducerAssumption

\* Nobody is there before the first request.
LEMMA InitMedia == Init => MediaInv
BY DEF Init, MediaInv, TypeOK, ClientInv, ProducerInv, ConsumerInv, OneConsumerEach, Audience, Consumer

\* Creating clients and transports leaves producers and consumers alone.
LEMMA PeerStep ==
  ASSUME MediaInv, NEW u \in User, NEW d \in Direction,
         AddClient(u) \/ CreateTransport(u, d) \/ TransportCreated(u, d)
  PROVE  MediaInv'
<1> USE DEF peerVars, producerVars, consumerVars, transportVars
<1> USE DEF MediaInv
<1>1. TypeOK'
  BY DEF AddClient, CreateTransport, TransportCreated, TypeOK, Consumer
<1>2. ClientInv'
  BY DEF AddClient, CreateTransport, TransportCreated, ClientInv
<1>3. ProducerInv' /\ ConsumerInv'
  BY DEF AddClient, CreateTransport, TransportCreated, ProducerInv, ConsumerInv
<1>4. OneConsumerEach'
  BY DEF AddClient, CreateTransport, TransportCreated, OneConsumerEach, Audience, ConsumersOf, Consumer
<1>5. QED
  BY <1>1, <1>2, <1>3, <1>4

\* A client that joins had no consumers, and gets one of each producer.
LEMMA JoinStep ==
  ASSUME MediaInv, NEW u \in User, NEW able \in BOOLEAN, Join(u, able)
  PROVE  MediaInv'
<1> USE DEF peerVars, producerVars, transportVars
<1> DEFINE others == {p \in producers : Home[OwnerOf[p]] = Home[u]}
           hear == able /\ <<u, "consuming">> \in transports
<1>1. TypeOK'
  BY DEF MediaInv, Join, TypeOK, Consumer
<1>2. ClientInv'
  BY DEF MediaInv, Join, ClientInv
<1>3. u \notin joined /\ u \in clients /\ u \notin capable \cup early
  BY DEF MediaInv, Join, ClientInv
<1>4. ProducerInv'
  BY DEF MediaInv, Join, ProducerInv
<1>5. \A c \in consumers \cup creating : c[1] # u
  BY <1>3 DEF MediaInv, ConsumerInv
<1>6. ConsumerInv'
  BY <1>3 DEF MediaInv, Join, ConsumerInv, ProducerInv, TypeOK
<1>7. OneConsumerEach'
  <2> SUFFICES ASSUME NEW v \in User, NEW p \in Producer, Audience(v, p)'
               PROVE  \E c \in Consumer : ConsumersOf(v, p)' = {c}
    BY DEF OneConsumerEach
  <2>1. CASE v = u
    <3>1. hear /\ p \in others
      BY <1>3, <2>1 DEF Audience, Join
    <3>2. creating' = creating \cup ({u} \X others \X {"join"}) /\ consumers' = consumers
      BY <3>1 DEF Join
    <3>3. ConsumersOf(v, p)' = {<<u, p, "join">>}
      BY <1>5, <2>1, <3>1, <3>2 DEF ConsumersOf
    <3>4. QED
      BY <3>3 DEF Consumer
  <2>2. CASE v # u
    <3>1. Audience(v, p)
      BY <2>2 DEF Audience, Join
    <3>2. ConsumersOf(v, p)' = ConsumersOf(v, p)
      BY <2>2 DEF ConsumersOf, Join
    <3>3. QED
      BY <3>1, <3>2 DEF MediaInv, OneConsumerEach
  <2>3. QED
    BY <2>1, <2>2
<1>8. QED
  BY <1>1, <1>2, <1>4, <1>6, <1>7 DEF MediaInv

\* A producer that is answered had no consumers, and everybody who is to hear
\* it gets one.
LEMMA ProducerCreatedStep ==
  ASSUME MediaInv, NEW p \in Producer, ProducerCreated(p)
  PROVE  MediaInv'
<1> USE DEF peerVars, transportVars
<1>1. TypeOK'
  BY DEF MediaInv, ProducerCreated, TypeOK, Consumer, Listeners
<1>2. ClientInv'
  BY DEF MediaInv, ProducerCreated, ClientInv
<1>3. p \in producing /\ p \notin producers /\ p \in started
  BY DEF MediaInv, ProducerCreated, ProducerInv
<1>4. \A c \in consumers \cup creating : c[2] # p
  BY <1>3 DEF MediaInv, ConsumerInv
<1>5. ConsumerInv'
  BY <1>3 DEF MediaInv, ProducerCreated, ConsumerInv, Listeners, CanConsume
<1>6. OneConsumerEach'
  <2> SUFFICES ASSUME NEW v \in User, NEW q \in Producer, Audience(v, q)'
               PROVE  \E c \in Consumer : ConsumersOf(v, q)' = {c}
    BY DEF OneConsumerEach
  <2>1. CASE q = p
    <3>1. v \in Listeners(p)
      BY <2>1 DEF Audience, ProducerCreated, Listeners, CanConsume, MediaInv, ClientInv
    <3>2. ConsumersOf(v, q)' = {<<v, p, "produce">>}
      BY <1>4, <2>1, <3>1 DEF ConsumersOf, ProducerCreated
    <3>3. QED
      BY <3>2 DEF Consumer
  <2>2. CASE q # p
    <3>1. Audience(v, q)
      BY <2>2 DEF Audience, ProducerCreated
    <3>2. ConsumersOf(v, q)' = ConsumersOf(v, q)
      BY <2>2 DEF ConsumersOf, ProducerCreated
    <3>3. QED
      BY <3>1, <3>2 DEF MediaInv, OneConsumerEach
  <2>3. QED
    BY <2>1, <2>2
<1>7. ProducerInv'
  BY DEF MediaInv, ProducerCreated, ProducerInv, ClientInv
<1>8. QED
  BY <1>1, <1>2, <1>5, <1>6, <1>7 DEF MediaInv

\* A producer that is asked for, lost or closed is to be heard by nobody new.
LEMMA ProducerStep ==
  ASSUME MediaInv, NEW p \in Producer,
         Produce(p) \/ ProducerLost(p) \/ CloseProducer(p)
  PROVE  MediaInv'
<1> USE DEF peerVars, consumerVars, transportVars
<1> USE DEF MediaInv
<1>1. TypeOK'
  BY DEF Produce, ProducerLost, CloseProducer, TypeOK, Consumer
<1>2. ClientInv'
  BY DEF Produce, ProducerLost, CloseProducer, ClientInv
<1>3. ProducerInv'
  BY DEF Produce, ProducerLost, CloseProducer, ProducerInv, ClientInv
<1>4. ConsumerInv'
  BY DEF Produce, ProducerLost, CloseProducer, ConsumerInv
<1>5. OneConsumerEach'
  BY DEF Produce, ProducerLost, CloseProducer, OneConsumerEach, Audience, ConsumersOf
<1>6. QED
  BY <1>1, <1>2, <1>3, <1>4, <1>5

\* A consumer is counted while it is created and after; one that goes away was
\* of no producer in the room.
LEMMA ConsumerStep ==
  ASSUME MediaInv, NEW c \in Consumer, ConsumerCreated(c) \/ ProducerClosed(c)
  PROVE  MediaInv'
<1> USE DEF peerVars, producerVars, transportVars
<1> USE DEF MediaInv
<1>1. TypeOK'
  BY DEF ConsumerCreated, ProducerClosed, TypeOK
<1>2. ClientInv' /\ ProducerInv'
  BY DEF ConsumerCreated, ProducerClosed, ClientInv, ProducerInv
<1>3. ConsumerInv'
  BY DEF ConsumerCreated, ProducerClosed, ConsumerInv
<1>4. OneConsumerEach'
  <2> SUFFICES ASSUME NEW v \in User, NEW q \in Producer, Audience(v, q)'
               PROVE  \E d \in Consumer : ConsumersOf(v, q)' = {d}
    BY DEF OneConsumerEach
  <2>1. Audience(v, q) /\ q \in producers
    BY DEF Audience, ConsumerCreated, ProducerClosed
  <2>2. ConsumersOf(v, q)' = ConsumersOf(v, q)
    BY <2>1 DEF ConsumersOf, ConsumerCreated, ProducerClosed
  <2>3. QED
    BY <2>1, <2>2 DEF OneConsumerEach
<1>5. QED
  BY <1>1, <1>2, <1>3, <1>4

\* Whose transports close has left, with all of the room if it is closed.
LEMMA DeleteUserStep ==
  ASSUME MediaInv, NEW u \in User, DeleteUser(u)
  PROVE  MediaInv'
<1> DEFINE gone == Closing(u)
<1>1. u \in gone /\ gone \cap clients \subseteq {u}
  BY DEF Closing, Local
<1>2. gone \cap joined' = {} /\ joined' = joined \ {u}
  BY <1>1 DEF DeleteUser, MediaInv, ClientInv
<1>3. TypeOK'
  BY DEF MediaInv, DeleteUser, TypeOK
<1>4. ClientInv'
  <2>1. joined' \subseteq clients' /\ clients' \cap left' = {}
    BY DEF MediaInv, DeleteUser, ClientInv
  <2>2. capable' \cup early' \subseteq joined' \cup left'
    BY DEF MediaInv, DeleteUser, ClientInv
  <2>3. ASSUME NEW v \in joined' \cap early' PROVE <<v, "consuming">> \in transports'
    BY <1>2, <2>3 DEF MediaInv, DeleteUser, ClientInv
  <2>4. QED
    BY <2>1, <2>2, <2>3 DEF ClientInv
<1>5. ProducerInv'
  <2>1. ASSUME NEW p \in producers' PROVE OwnerOf[p] \in joined'
    BY <1>1, <2>1 DEF MediaInv, DeleteUser, ProducerInv
  <2>2. QED
    BY <2>1 DEF MediaInv, DeleteUser, ProducerInv
<1>6. ConsumerInv'
  <2>1. ASSUME NEW c \in consumers' \cup creating' PROVE c[1] \in joined'
    BY <1>1, <2>1 DEF MediaInv, DeleteUser, ConsumerInv
  <2>2. QED
    BY <2>1 DEF MediaInv, DeleteUser, ConsumerInv
<1>7. OneConsumerEach'
  <2> SUFFICES ASSUME NEW v \in User, NEW p \in Producer, Audience(v, p)'
               PROVE  \E c \in Consumer : ConsumersOf(v, p)' = {c}
    BY DEF OneConsumerEach
  <2>1. Audience(v, p) /\ v \notin gone
    BY <1>2 DEF Audience, DeleteUser
  <2>2. ConsumersOf(v, p)' = ConsumersOf(v, p)
    BY <2>1 DEF ConsumersOf, DeleteUser
  <2>3. QED
    BY <2>1, <2>2 DEF MediaInv, OneConsumerEach
<1>8. QED
  BY <1>3, <1>4, <1>5, <1>6, <1>7 DEF MediaInv

\* Every step keeps the invariant.
LEMMA NextMedia == MediaInv /\ [Next]_vars => MediaInv'
<1> SUFFICES ASSUME MediaInv, [Next]_vars PROVE MediaInv'
  OBVIOUS
<1>1. ASSUME NEW u \in User, AddClient(u) PROVE MediaInv'
  BY <1>1, PeerStep DEF Direction
<1>2. ASSUME NEW u \in User, NEW d \in Direction, CreateTransport(u, d) \/ TransportCreated(u, d)
      PROVE  MediaInv'
  BY <1>2, PeerStep
<1>3. ASSUME NEW u \in User, NEW able \in BOOLEAN, Join(u, able) PROVE MediaInv'
  BY <1>3, JoinStep
<1>4. ASSUME NEW u \in User, DeleteUser(u) PROVE MediaInv'
  BY <1>4, DeleteUserStep
<1>5. ASSUME NEW p \in Producer, Produce(p) \/ ProducerLost(p) \/ CloseProducer(p)
      PROVE  MediaInv'
  BY <1>5, ProducerStep
<1>6. ASSUME NEW p \in Producer, ProducerCreated(p) PROVE MediaInv'
  BY <1>6, ProducerCreatedStep
<1>7. ASSUME NEW c \in Consumer, ConsumerCreated(c) \/ ProducerClosed(c) PROVE MediaInv'
  BY <1>7, ConsumerStep
<1>8. CASE UNCHANGED vars
  BY <1>8 DEF vars, peerVars, transportVars, producerVars, consumerVars, MediaInv, TypeOK,
     ClientInv, ProducerInv, ConsumerInv, OneConsumerEach, Audience, ConsumersOf
<1>9. QED
  BY <1>1, <1>2, <1>3, <1>4, <1>5, <1>6, <1>7, <1>8 DEF Next

\* The clients, producers and consumers of a room go together, whatever calls
\* to mediasoup overlap.
THEOREM MediaInvariance == Spec => []MediaInv
<1>1. QED
  BY InitMedia, NextMedia, PTL DEF Spec

\* The variables of an EA's room keep to their types (room.js, client.js).
THEOREM TypeCorrect == Spec => []TypeOK
<1>1. MediaInv => TypeOK
  BY DEF MediaInv
<1> QED BY <1>1, MediaInvariance, PTL

\* Whoever joined in time gets exactly one consumer of each producer of the
\* others (join and produce of handleUserRequest).
THEOREM EachConsumedOnce == Spec => []OneConsumerEach
<1>1. MediaInv => OneConsumerEach
  BY DEF MediaInv
<1>2. QED
  BY <1>1, MediaInvariance, PTL

\* Consumers and producers in the room are of clients in the room, and nobody
\* consumes its own producer (Client.close, produce).
THEOREM UsersLeaveNothing == Spec => []NothingLeftBehind
<1>1. MediaInv => NothingLeftBehind
  BY DEF MediaInv, ClientInv, ProducerInv, ConsumerInv, NothingLeftBehind
<1>2. QED
  BY <1>1, MediaInvariance, PTL
=============================================================================
