--------------------------- MODULE EcSession_proofs ---------------------------
(***************************************************************************)
(* Proofs about the sessions of an ErizoController: the invariant SessionInv*)
(* of EcSession holds for any number of sockets, rooms, workers and agents,*)
(* and with it the safety properties it contains.  On it rest the counts of*)
(* clients per router, the reachability of live clients, and that sessions *)
(* implement RoomService; these take steps in three kinds: clients leave,  *)
(* one is created, or the rooms stay as they are.                          *)
(***************************************************************************)
EXTENDS EcSession, FiniteSetTheorems, TLAPS

-----------------------------------------------------------------------------
(* What the 'disconnect' events of some channels do.                       *)

\* Exactly the clients whose current channel is in D listen to D.
LEMMA ListeningIsCurrent ==
  ASSUME TypeOK, ListenerInv, NEW D \in SUBSET Chan
  PROVE  /\ Listening(D) \in SUBSET Chan
         /\ \A c \in Chan : c \in Listening(D) <=> cChan[c] \in D
BY DEF TypeOK, ListenerInv, Listening

\* The counts stay integers, since a set of clients is finite.
LEMMA CountsAreIntegers ==
  ASSUME TypeOK, NEW S \in SUBSET Chan, NEW k \in Nat
  PROVE  CountsWithout(S, k) \in [Chan -> [Worker -> Int]]
<1>1. \A i \in Chan, w \in Worker :
        Cardinality({c \in S : cRoom[c] = i /\ cWorker[c] = w}) \in Nat
  <2> SUFFICES ASSUME NEW i \in Chan, NEW w \in Worker
               PROVE  Cardinality({c \in S : cRoom[c] = i /\ cWorker[c] = w}) \in Nat
    OBVIOUS
  <2>1. IsFiniteSet({c \in S : cRoom[c] = i /\ cWorker[c] = w})
    BY ChanAssumption, FS_Subset
  <2> QED BY <2>1, FS_CardinalityType
<1>2. \A i \in Chan, w \in Worker :
        clientCount[i][w] - k * Cardinality({c \in S : cRoom[c] = i /\ cWorker[c] = w}) \in Int
  BY <1>1 DEF TypeOK
<1> QED BY <1>2 DEF CountsWithout

\* The clients S leave: what a room table without the emptied rooms is like.
LEMMA LeavingKeepsRoomInv ==
  ASSUME TypeOK, RoomInv, NEW S \in SUBSET Chan,
         members' = MembersWithout(S),
         \A r \in RoomId : registry'[r] # None => registry'[r] = RegistryWithout(S)[r],
         roomId' = roomId, roomWorker' = roomWorker, cRoom' = cRoom,
         \A i \in Chan : join[i] = "joined" => join'[i] = "joined"
  PROVE  RoomInv'
<1>1. \A i \in Chan : members'[i] = members[i] \ S
  BY DEF MembersWithout
<1>2. \A r \in RoomId : registry'[r] # None =>
        /\ registry'[r] = registry[r]
        /\ \A c \in S : ~(roomId[cRoom[c]] = r /\ members[cRoom[c]] \subseteq S)
  BY DEF RegistryWithout
<1>3. \A i, c \in Chan : c \in members'[i] => cRoom'[c] = i
  BY <1>1 DEF RoomInv
<1>4. \A i \in Chan : roomId'[i] # None => join'[i] = "joined"
  BY DEF RoomInv
<1>5. \A r \in RoomId : registry'[r] # None => roomWorker'[registry'[r]] # None
  BY <1>2 DEF RoomInv
<1>6. RegisteredRoomInUse'
  <2> SUFFICES ASSUME NEW r \in RoomId, registry'[r] # None
               PROVE  roomId'[registry'[r]] = r /\ members'[registry'[r]] # {}
    BY DEF RegisteredRoomInUse
  <2> DEFINE i == registry[r]
  <2>1. i # None /\ registry'[r] = i /\ i \in Chan
    BY <1>2 DEF TypeOK
  <2>2. roomId[i] = r /\ members[i] # {}
    BY <2>1 DEF RoomInv, RegisteredRoomInUse
  <2>3. CASE members[i] \subseteq S
    <3>1. PICK c \in members[i] : TRUE
      BY <2>2
    <3>2. c \in S /\ cRoom[c] = i
      BY <2>1, <2>3, <3>1 DEF RoomInv, TypeOK
    <3> QED BY <1>2, <2>2, <2>3, <3>2
  <2>4. CASE ~(members[i] \subseteq S)
    BY <1>1, <2>1, <2>2, <2>4
  <2> QED BY <2>3, <2>4
<1> QED BY <1>3, <1>4, <1>5, <1>6 DEF RoomInv

\* The type of what the events change.
LEMMA LeavingTypes ==
  ASSUME TypeOK, NEW S \in SUBSET Chan, NEW k \in Nat
  PROVE  /\ MembersWithout(S) \in [Chan -> SUBSET Chan]
         /\ CountsWithout(S, k) \in [Chan -> [Worker -> Int]]
         /\ RegistryWithout(S) \in [RoomId -> Chan \cup {None}]
<1>1. CountsWithout(S, k) \in [Chan -> [Worker -> Int]]
  BY CountsAreIntegers
<1>2. MembersWithout(S) \in [Chan -> SUBSET Chan]
  BY DEF TypeOK, MembersWithout
<1>3. RegistryWithout(S) \in [RoomId -> Chan \cup {None}]
  BY DEF TypeOK, RegistryWithout
<1> QED BY <1>1, <1>2, <1>3

\* Disconnecting the channels D closes open sockets, and keeps a timer running
\* for each reconnecting one.
LEMMA ClosingTypes ==
  ASSUME TypeOK, NEW D \in SUBSET Chan
  PROVE  /\ SocketsClosing(D) \in [Chan -> {"new", "open", "closed"}]
         /\ StateClosing(D) \in [Chan -> {"CONNECTED", "RECONNECTING", "DISCONNECTED"}]
         /\ TimersClosing(D) \in [Chan -> 0..2]
         /\ \A ch \in Chan :
              /\ TimersClosing(D)[ch] > 0 <=> timers[ch] > 0
              /\ SocketsClosing(D)[ch] = IF ch \in OpenIn(D) THEN "closed" ELSE sock[ch]
<1>1. \A n \in 0..2 : TimersAfterClear(n) \in 0..2 /\ (TimersAfterClear(n) > 0 <=> n > 0)
  BY DEF TimersAfterClear, DisconnectListeners
<1>2. /\ TimersClosing(D) \in [Chan -> 0..2]
      /\ \A ch \in Chan : TimersClosing(D)[ch] > 0 <=> timers[ch] > 0
  BY <1>1 DEF TypeOK, TimersClosing
<1>3. /\ SocketsClosing(D) \in [Chan -> {"new", "open", "closed"}]
      /\ \A ch \in Chan : SocketsClosing(D)[ch] = IF ch \in OpenIn(D) THEN "closed" ELSE sock[ch]
  BY DEF TypeOK, SocketsClosing
<1>4. StateClosing(D) \in [Chan -> {"CONNECTED", "RECONNECTING", "DISCONNECTED"}]
  BY DEF TypeOK, StateClosing
<1> QED BY <1>2, <1>3, <1>4

\* A client in a room has that room and a channel.
LEMMA MemberFacts ==
  ASSUME SessionInv, NEW i \in Chan, NEW c \in members[i]
  PROVE  c \in Chan /\ cRoom[c] = i /\ i # None /\ cChan[c] \in Chan
<1>1. c \in Chan /\ cRoom[c] = i /\ i # None
  BY NoneAssumption DEF SessionInv, TypeOK, RoomInv
<1>2. cChan[c] \in Chan
  BY <1>1 DEF SessionInv, TypeOK, ClientInv
<1> QED BY <1>1, <1>2

\* Channels D are disconnected by the EC and the clients on the open ones leave.
LEMMA ClosingKeepsInv ==
  ASSUME SessionInv, NEW D \in SUBSET Chan,
         CloseChannels(D),
         members' = MembersWithout(Listening(OpenIn(D))),
         clientCount' = CountsWithout(Listening(OpenIn(D)), DisconnectListeners),
         registry' \in [RoomId -> Chan \cup {None}],
         \A r \in RoomId : registry'[r] # None =>
           registry'[r] = RegistryWithout(Listening(OpenIn(D)))[r],
         lostAgent' \in SUBSET Agent,
         join' \in [Chan -> {"idle", "token", "worker", "joined", "refused", "dropped", "rejoined"}],
         \A ch \in Chan : join'[ch] = join[ch] \/ (join[ch] = "token" /\ join'[ch] = "refused"),
         UNCHANGED <<want, policy, joinRoom, roomVars, clientVars, sfuVars>>
  PROVE  SessionInv'
<1> DEFINE S == Listening(OpenIn(D))
<1>1. OpenIn(D) \in SUBSET Chan /\ DisconnectListeners \in Nat
  BY DEF OpenIn, DisconnectListeners
<1>2. S \in SUBSET Chan /\ \A c \in Chan : c \in S <=> cChan[c] \in OpenIn(D)
  BY <1>1, ListeningIsCurrent DEF SessionInv
<1>3. TypeOK'
  BY <1>1, <1>2, LeavingTypes, ClosingTypes
     DEF SessionInv, TypeOK, CloseChannels, roomVars, clientVars, sfuVars
<1>4. ClientInv'
  BY DEF SessionInv, ClientInv, roomVars, clientVars
<1>5. ListenerInv'
  BY DEF SessionInv, TypeOK, ListenerInv, clientVars
<1>6. ChannelInv'
  BY ClosingTypes DEF SessionInv, ChannelInv, CloseChannels, roomVars
<1>7. RoomInv'
  <2>1. \A i \in Chan : join[i] = "joined" => join'[i] = "joined"
    OBVIOUS
  <2> QED BY <1>2, <2>1, LeavingKeepsRoomInv DEF SessionInv, roomVars, clientVars
<1>8. DeadSocketWillLeave'
  <2> SUFFICES ASSUME NEW i \in Chan, NEW c \in Chan, c \in members'[i],
                      sock'[cChan'[c]] = "closed"
               PROVE  timers'[cChan'[c]] > 0 \/ c \in bornDead'
    BY DEF DeadSocketWillLeave
  <2>1. c \in members[i] /\ c \notin S
    BY DEF MembersWithout
  <2>2. cChan[c] \in Chan /\ cChan' = cChan /\ bornDead' = bornDead
    BY <2>1, MemberFacts DEF clientVars
  <2>3. sock[cChan[c]] = "closed"
    BY <1>2, <2>1, <2>2, ClosingTypes DEF SessionInv, CloseChannels
  <2> QED BY <2>1, <2>2, <2>3, ClosingTypes DEF SessionInv, DeadSocketWillLeave, CloseChannels
<1> QED BY <1>3, <1>4, <1>5, <1>6, <1>7, <1>8 DEF SessionInv

\* A client is created on channel ch in Room i, which exists or is created too.
LEMMA CreatingKeepsInv ==
  ASSUME SessionInv, NEW ch \in Chan, NEW i \in Chan, NEW w \in Worker,
         join[ch] \in {"token", "worker"},
         CreateClient(ch, i, w),
         chState' \in [Chan -> {"CONNECTED", "RECONNECTING", "DISCONNECTED"}],
         registry' \in [RoomId -> Chan \cup {None}],
         roomId' \in [Chan -> RoomId \cup {None}],
         roomPolicy' \in [Chan -> Policies \cup {None}],
         roomWorker' \in [Chan -> Worker \cup {None}],
         routers' \in [Chan -> SUBSET Worker],
         pipes' \in SUBSET (Chan \X Worker \X Worker),
         roomId'[i] # None,
         \A j \in Chan : roomId[j] # None => roomId'[j] = roomId[j],
         \A j \in Chan : roomId'[j] # None => roomId[j] # None \/ j = ch,
         \A r \in RoomId : registry'[r] # None =>
           /\ registry'[r] = registry[r] \/ registry'[r] = i
           /\ roomWorker'[registry'[r]] # None
           /\ roomId'[registry'[r]] = r,
         UNCHANGED <<sock, timers, want, policy, joinRoom, lostAgent>>
  PROVE  SessionInv'
<1>1. cRoom[ch] = None /\ cChan[ch] = None /\ roomId[ch] = None
  BY DEF SessionInv, ClientInv, RoomInv
<1>2. \A c \in Chan : cChan[c] # ch
  BY NoneAssumption DEF SessionInv, ListenerInv
<1>3. i # None /\ w # None /\ ch # None
  BY NoneAssumption
<1>4. TypeOK'
  <2>1. clientCount' \in [Chan -> [Worker -> Int]]
    BY DEF SessionInv, TypeOK, CreateClient
  <2>2. /\ cRoom' \in [Chan -> Chan \cup {None}]
        /\ cWorker' \in [Chan -> Worker \cup {None}]
        /\ cChan' \in [Chan -> Chan \cup {None}]
        /\ listeners' \in [Chan -> SUBSET Chan]
        /\ members' \in [Chan -> SUBSET Chan]
        /\ join' \in [Chan -> {"idle", "token", "worker", "joined", "refused", "dropped", "rejoined"}]
        /\ bornDead' \in SUBSET Chan
    BY DEF SessionInv, TypeOK, CreateClient
  <2> QED BY <2>1, <2>2 DEF SessionInv, TypeOK
<1>5. ClientInv'
  BY <1>1, <1>3 DEF SessionInv, TypeOK, ClientInv, CreateClient
<1>6. ListenerInv'
  <2>1. \A c \in Chan : cChan'[c] = IF c = ch THEN ch ELSE cChan[c]
    BY DEF SessionInv, TypeOK, CreateClient
  <2>2. \A c, h \in Chan : c \in listeners'[h] <=> c \in listeners[h] \/ (c = ch /\ h = ch)
    BY DEF SessionInv, TypeOK, CreateClient
  <2>3. \A h \in Chan : join'[h] = IF h = ch THEN "joined" ELSE join[h]
    BY DEF SessionInv, TypeOK, CreateClient
  <2>4. \A c, h \in Chan : c \in listeners'[h] <=> cChan'[c] = h
    BY <1>1, <1>2, <2>1, <2>2, NoneAssumption DEF SessionInv, ListenerInv
  <2>5. \A c, d \in Chan : cChan'[c] # None /\ cChan'[c] = cChan'[d] => c = d
    BY <1>2, <2>1 DEF SessionInv, ListenerInv
  <2>6. \A c \in Chan : cChan'[c] # None => join'[cChan'[c]] \in {"joined", "rejoined"}
    BY <2>1, <2>3 DEF SessionInv, TypeOK, ListenerInv
  <2> QED BY <2>4, <2>5, <2>6 DEF ListenerInv
<1>7. ChannelInv'
  BY <1>3 DEF SessionInv, TypeOK, ChannelInv, CreateClient
<1>8. RoomInv'
  <2>1. \A j, c \in Chan : c \in members'[j] <=> c \in members[j] \/ (c = ch /\ j = i)
    BY DEF SessionInv, TypeOK, CreateClient
  <2>2. \A c \in Chan : cRoom'[c] = IF c = ch THEN i ELSE cRoom[c]
    BY DEF SessionInv, TypeOK, CreateClient
  <2>3. \A h \in Chan : join'[h] = IF h = ch THEN "joined" ELSE join[h]
    BY DEF SessionInv, TypeOK, CreateClient
  <2>4. \A j, c \in Chan : c \in members'[j] => cRoom'[c] = j
    <3> SUFFICES ASSUME NEW j \in Chan, NEW c \in Chan, c \in members'[j]
                 PROVE  cRoom'[c] = j
      OBVIOUS
    <3>1. CASE c = ch
      <4>1. ch \notin members[j]
        BY <1>1, NoneAssumption DEF SessionInv, RoomInv
      <4> QED BY <2>1, <2>2, <3>1, <4>1
    <3>2. CASE c # ch
      <4>1. c \in members[j]
        BY <2>1, <3>2
      <4> QED BY <2>2, <3>2, <4>1 DEF SessionInv, RoomInv
    <3> QED BY <3>1, <3>2
  <2>5. \A j \in Chan : roomId'[j] # None => join'[j] = "joined"
    BY <2>3 DEF SessionInv, RoomInv
  <2>6. RegisteredRoomInUse'
    <3> SUFFICES ASSUME NEW r \in RoomId, registry'[r] # None
                 PROVE  roomId'[registry'[r]] = r /\ members'[registry'[r]] # {}
      BY DEF RegisteredRoomInUse
    <3>1. CASE registry'[r] = i
      <4>1. ch \in members'[i]
        BY <2>1
      <4> QED BY <3>1, <4>1
    <3>2. CASE registry'[r] = registry[r]
      <4>1. registry[r] \in Chan /\ members[registry[r]] # {}
        BY <3>2 DEF SessionInv, TypeOK, RoomInv, RegisteredRoomInUse
      <4>2. PICK c \in members[registry[r]] : c \in Chan
        BY <4>1 DEF SessionInv, TypeOK
      <4>3. c \in members'[registry'[r]]
        BY <2>1, <3>2, <4>1, <4>2
      <4> QED BY <3>2, <4>3
    <3> QED BY <3>1, <3>2
  <2> QED BY <2>4, <2>5, <2>6 DEF RoomInv
<1>9. DeadSocketWillLeave'
  <2> SUFFICES ASSUME NEW j \in Chan, NEW c \in Chan, c \in members'[j],
                      sock'[cChan'[c]] = "closed"
               PROVE  timers'[cChan'[c]] > 0 \/ c \in bornDead'
    BY DEF DeadSocketWillLeave
  <2>1. CASE c = ch
    <3>1. cChan'[c] = ch /\ timers[ch] \in 0..2
      BY <2>1 DEF SessionInv, TypeOK, CreateClient
    <3> QED BY <2>1, <3>1 DEF CreateClient
  <2>2. CASE c # ch
    <3>1. c \in members[j] /\ cChan'[c] = cChan[c] /\ bornDead \subseteq bornDead'
      BY <2>2 DEF SessionInv, TypeOK, CreateClient
    <3> QED BY <3>1 DEF SessionInv, DeadSocketWillLeave
  <2> QED BY <2>1, <2>2
<1> QED BY <1>4, <1>5, <1>6, <1>7, <1>8, <1>9 DEF SessionInv

-----------------------------------------------------------------------------
(* The invariant.                                                          *)

\* Before any socket connects, nobody listens anywhere and no room is registered.
LEMMA InitEstablishesInv == Init => SessionInv
<1> SUFFICES ASSUME Init PROVE SessionInv
  OBVIOUS
<1>1. TypeOK
  BY DEF Init, TypeOK
<1>2. ClientInv /\ ListenerInv /\ ChannelInv
  BY NoneAssumption DEF Init, ClientInv, ListenerInv, ChannelInv
<1>3. RoomInv /\ DeadSocketWillLeave
  BY DEF Init, RoomInv, RegisteredRoomInUse, DeadSocketWillLeave
<1> QED BY <1>1, <1>2, <1>3 DEF SessionInv

\* A new socket belongs to no client yet (listen, on 'connection').
LEMMA ConnectKeepsInv ==
  ASSUME SessionInv, NEW ch \in Chan, Connect(ch)
  PROVE  SessionInv'
<1> USE DEF Connect, joinVars, roomVars, clientVars, sfuVars
<1>1. TypeOK'
  BY DEF SessionInv, TypeOK
<1>2. ClientInv' /\ ListenerInv' /\ RoomInv'
  BY DEF SessionInv, ClientInv, ListenerInv, RoomInv, RegisteredRoomInUse
<1>3. ChannelInv'
  BY DEF SessionInv, TypeOK, ChannelInv
<1>4. DeadSocketWillLeave'
  BY DEF SessionInv, TypeOK, ClientInv, RoomInv, DeadSocketWillLeave
<1> QED BY <1>1, <1>2, <1>3, <1>4 DEF SessionInv

\* The clients of a closed socket leave their rooms (Channel.onDisconnect).
LEMMA SocketClosesKeepsInv ==
  ASSUME SessionInv, NEW ch \in Chan, SocketCloses(ch)
  PROVE  SessionInv'
<1> USE DEF SocketCloses, joinVars, roomVars, clientVars, sfuVars
<1> DEFINE S == Listening({ch})
<1>1. S \in SUBSET Chan /\ \A c \in Chan : c \in S <=> cChan[c] = ch
  BY ListeningIsCurrent DEF SessionInv
<1>2. TypeOK'
  BY <1>1, LeavingTypes DEF SessionInv, TypeOK, Emit, DisconnectListeners
<1>3. ClientInv' /\ ListenerInv'
  BY DEF SessionInv, ClientInv, ListenerInv
<1>4. ChannelInv'
  BY DEF SessionInv, TypeOK, ChannelInv
<1>5. RoomInv'
  BY <1>1, LeavingKeepsRoomInv DEF SessionInv, Emit
<1>6. DeadSocketWillLeave'
  <2> SUFFICES ASSUME NEW i \in Chan, NEW c \in Chan, c \in members'[i],
                      sock'[cChan'[c]] = "closed"
               PROVE  timers'[cChan'[c]] > 0 \/ c \in bornDead'
    BY DEF DeadSocketWillLeave
  <2>1. c \in members[i] /\ c \notin S
    BY DEF Emit, MembersWithout
  <2>2. cChan[c] \in Chan /\ cChan[c] # ch
    BY <1>1, <2>1, MemberFacts
  <2> QED BY <2>1, <2>2 DEF SessionInv, TypeOK, DeadSocketWillLeave
<1> QED BY <1>2, <1>3, <1>4, <1>5, <1>6 DEF SessionInv

\* A lost socket has its reconnection timers running (Channel.onDisconnect).
LEMMA SocketLostKeepsInv ==
  ASSUME SessionInv, NEW ch \in Chan, SocketLost(ch)
  PROVE  SessionInv'
<1> USE DEF SocketLost, joinVars, roomVars, clientVars, sfuVars, DisconnectListeners
<1>1. TypeOK'
  BY DEF SessionInv, TypeOK
<1>2. ClientInv' /\ ListenerInv' /\ RoomInv'
  BY DEF SessionInv, ClientInv, ListenerInv, RoomInv, RegisteredRoomInUse
<1>3. ChannelInv'
  BY DEF SessionInv, TypeOK, ChannelInv
<1>4. DeadSocketWillLeave'
  BY DEF SessionInv, TypeOK, ClientInv, RoomInv, DeadSocketWillLeave
<1> QED BY <1>1, <1>2, <1>3, <1>4 DEF SessionInv

\* When a channel's timers fire, the clients on it leave.
LEMMA TimeoutKeepsInv ==
  ASSUME SessionInv, NEW ch \in Chan, ReconnectionTimeout(ch)
  PROVE  SessionInv'
<1> USE DEF ReconnectionTimeout, joinVars, roomVars, clientVars, sfuVars
<1> DEFINE S == Listening({ch})
<1>1. S \in SUBSET Chan /\ \A c \in Chan : c \in S <=> cChan[c] = ch
  BY ListeningIsCurrent DEF SessionInv
<1>2. TypeOK'
  <2>1. timers[ch] \in 0..2 /\ timers' \in [Chan -> 0..2]
    BY DEF SessionInv, TypeOK
  <2>2. timers[ch] \in Nat
    BY <2>1
  <2> QED BY <1>1, <2>1, <2>2, LeavingTypes DEF SessionInv, TypeOK, Emit
<1>3. ClientInv' /\ ListenerInv'
  BY DEF SessionInv, ClientInv, ListenerInv
<1>4. ChannelInv'
  BY DEF SessionInv, TypeOK, ChannelInv
<1>5. RoomInv'
  BY <1>1, LeavingKeepsRoomInv DEF SessionInv, Emit
<1>6. DeadSocketWillLeave'
  <2> SUFFICES ASSUME NEW i \in Chan, NEW c \in Chan, c \in members'[i],
                      sock'[cChan'[c]] = "closed"
               PROVE  timers'[cChan'[c]] > 0 \/ c \in bornDead'
    BY DEF DeadSocketWillLeave
  <2>1. c \in members[i] /\ c \notin S
    BY DEF Emit, MembersWithout
  <2>2. cChan[c] \in Chan /\ cChan[c] # ch
    BY <1>1, <2>1, MemberFacts
  <2> QED BY <2>1, <2>2 DEF SessionInv, TypeOK, DeadSocketWillLeave
<1> QED BY <1>2, <1>3, <1>4, <1>5, <1>6 DEF SessionInv

\* A client that reconnects listens to its new channel and no longer to the old
\* one (Client.setNewChannel).
LEMMA ReconnectKeepsInv ==
  ASSUME SessionInv, NEW ch \in Chan, NEW c \in Chan, Reconnect(ch, c)
  PROVE  SessionInv'
<1> USE DEF Reconnect
<1> DEFINE old == cChan[c]
<1>1. cRoom[c] # None /\ old \in Chan /\ old # ch
  <2>1. PICK r \in RoomId : registry[r] # None /\ c \in members[registry[r]]
    BY DEF Findable
  <2>2. registry[r] \in Chan /\ cRoom[c] = registry[r]
    BY <2>1 DEF SessionInv, TypeOK, RoomInv
  <2>3. cRoom[c] # None /\ old \in Chan
    BY <2>1, <2>2, MemberFacts
  <2> QED BY <2>3, NoneAssumption DEF SessionInv, ListenerInv
<1>2. /\ \A d \in Chan : cChan[d] # ch
      /\ \A d \in Chan : cChan[d] = old => d = c
  <2>1. \A d \in Chan : cChan[d] # ch
    BY NoneAssumption DEF SessionInv, ListenerInv
  <2>2. \A d \in Chan : cChan[d] = old => d = c
    BY <1>1, NoneAssumption DEF SessionInv, ListenerInv
  <2> QED BY <2>1, <2>2
<1>3. TypeOK'
  <2>1. /\ listeners' \in [Chan -> SUBSET Chan]
        /\ cChan' \in [Chan -> Chan \cup {None}]
        /\ join' \in [Chan -> {"idle", "token", "worker", "joined", "refused", "dropped", "rejoined"}]
    BY DEF SessionInv, TypeOK, ListenersMoved
  <2>2. /\ chState' \in [Chan -> {"CONNECTED", "RECONNECTING", "DISCONNECTED"}]
        /\ timers' \in [Chan -> 0..2]
        /\ sock' \in [Chan -> {"new", "open", "closed"}]
    BY <1>1, ClosingTypes DEF SessionInv
  <2> QED BY <2>1, <2>2 DEF SessionInv, TypeOK, roomVars, sfuVars
<1>4. ClientInv'
  BY <1>1, NoneAssumption DEF SessionInv, TypeOK, ClientInv, roomVars
<1>5. ListenerInv'
  <2>1. \A d \in Chan : cChan'[d] = IF d = c THEN ch ELSE cChan[d]
    BY DEF SessionInv, TypeOK
  <2>2. \A h \in Chan : listeners'[h] =
          IF h = ch THEN listeners[h] \cup {c} ELSE IF h = old THEN {} ELSE listeners[h]
    BY <1>1 DEF SessionInv, TypeOK, ListenersMoved
  <2>3. \A h \in Chan : join'[h] = IF h = ch THEN "rejoined" ELSE join[h]
    BY DEF SessionInv, TypeOK
  <2>4. \A d, h \in Chan : d \in listeners'[h] <=> cChan'[d] = h
    <3> SUFFICES ASSUME NEW d \in Chan, NEW h \in Chan
                 PROVE  d \in listeners'[h] <=> cChan'[d] = h
      OBVIOUS
    <3>1. d \in listeners[h] <=> cChan[d] = h
      BY DEF SessionInv, ListenerInv
    <3>2. CASE h = ch
      BY <1>1, <1>2, <2>1, <2>2, <3>1, <3>2
    <3>3. CASE h = old
      BY <1>1, <1>2, <2>1, <2>2, <3>1, <3>3
    <3>4. CASE h # ch /\ h # old
      BY <2>1, <2>2, <3>1, <3>4
    <3> QED BY <3>2, <3>3, <3>4
  <2>5. \A d, e \in Chan : cChan'[d] # None /\ cChan'[d] = cChan'[e] => d = e
    BY <1>2, <2>1 DEF SessionInv, ListenerInv
  <2>6. \A d \in Chan : cChan'[d] # None => join'[cChan'[d]] \in {"joined", "rejoined"}
    BY <2>1, <2>3 DEF SessionInv, TypeOK, ListenerInv
  <2> QED BY <2>4, <2>5, <2>6 DEF ListenerInv
<1>6. ChannelInv'
  BY <1>1, ClosingTypes DEF SessionInv, TypeOK, ChannelInv, roomVars
<1>7. RoomInv'
  BY DEF SessionInv, TypeOK, RoomInv, RegisteredRoomInUse, roomVars
<1>8. DeadSocketWillLeave'
  <2> SUFFICES ASSUME NEW i \in Chan, NEW d \in Chan, d \in members'[i],
                      sock'[cChan'[d]] = "closed"
               PROVE  timers'[cChan'[d]] > 0 \/ d \in bornDead'
    BY DEF DeadSocketWillLeave
  <2>1. d # c
    <3>1. sock'[ch] = "open"
      BY <1>1 DEF SessionInv, TypeOK, SocketsClosing, OpenIn
    <3> QED BY <3>1 DEF SessionInv, TypeOK
  <2>2. cChan'[d] = cChan[d] /\ cChan[d] \in Chan /\ cChan[d] # old
    BY <1>2, <2>1, MemberFacts DEF SessionInv, TypeOK
  <2> QED BY <2>2 DEF SessionInv, TypeOK, DeadSocketWillLeave, SocketsClosing, TimersClosing, OpenIn
<1> QED BY <1>3, <1>4, <1>5, <1>6, <1>7, <1>8 DEF SessionInv

\* An announced client that is not found changes no room.
LEMMA ReconnectUnknownKeepsInv ==
  ASSUME SessionInv, NEW ch \in Chan, ReconnectUnknown(ch)
  PROVE  SessionInv'
<1> USE DEF ReconnectUnknown, roomVars, clientVars, sfuVars
<1>1. TypeOK'
  BY DEF SessionInv, TypeOK
<1>2. ClientInv' /\ ListenerInv' /\ RoomInv'
  BY DEF SessionInv, TypeOK, ClientInv, ListenerInv, RoomInv, RegisteredRoomInUse
<1>3. ChannelInv'
  BY DEF SessionInv, TypeOK, ChannelInv
<1>4. DeadSocketWillLeave'
  BY DEF SessionInv, DeadSocketWillLeave
<1> QED BY <1>1, <1>2, <1>3, <1>4 DEF SessionInv

\* A token only fills in what the channel wants.
LEMMA SendTokenKeepsInv ==
  ASSUME SessionInv, NEW ch \in Chan, NEW r \in RoomId, NEW p \in Policies,
         SendToken(ch, r, p)
  PROVE  SessionInv'
<1> USE DEF SendToken, chanVars, roomVars, clientVars, sfuVars
<1>1. TypeOK'
  BY DEF SessionInv, TypeOK
<1>2. ClientInv' /\ ListenerInv' /\ RoomInv'
  BY DEF SessionInv, TypeOK, ClientInv, ListenerInv, RoomInv, RegisteredRoomInUse
<1>3. ChannelInv'
  BY NoneAssumption DEF SessionInv, TypeOK, ChannelInv
<1>4. DeadSocketWillLeave'
  BY DEF SessionInv, DeadSocketWillLeave
<1> QED BY <1>1, <1>2, <1>3, <1>4 DEF SessionInv

\* A channel whose token is refused is disconnected; no client is on it.
LEMMA TokenRefusedKeepsInv ==
  ASSUME SessionInv, NEW ch \in Chan, TokenRefused(ch)
  PROVE  SessionInv'
<1> DEFINE S == Listening(OpenIn({ch}))
<1>1. S \in SUBSET Chan
  BY ListeningIsCurrent DEF SessionInv, OpenIn
<1>2. registry' \in [RoomId -> Chan \cup {None}]
  BY <1>1, LeavingTypes DEF SessionInv, TokenRefused, DisconnectChannels, Emit, DisconnectListeners
<1>3. /\ join' \in [Chan -> {"idle", "token", "worker", "joined", "refused", "dropped", "rejoined"}]
      /\ \A h \in Chan : join'[h] = join[h] \/ (join[h] = "token" /\ join'[h] = "refused")
  BY DEF SessionInv, TypeOK, TokenRefused
<1>4. lostAgent' \in SUBSET Agent
  BY DEF SessionInv, TypeOK, TokenRefused
<1> QED BY <1>2, <1>3, <1>4, ClosingKeepsInv DEF TokenRefused, DisconnectChannels, Emit

\* A client that enters an existing Room at once enters a registered one.
LEMMA AdmitToRoomKeepsInv ==
  ASSUME SessionInv, NEW ch \in Chan, AdmitToRoom(ch)
  PROVE  SessionInv'
<1> USE DEF AdmitToRoom, roomVars, sfuVars
<1> DEFINE i == registry[want[ch]]
<1>1. want[ch] \in RoomId /\ i \in Chan
  BY DEF SessionInv, TypeOK, ChannelInv
<1>2. roomId[i] # None /\ roomWorker[i] \in Worker
  BY <1>1, NoneAssumption DEF SessionInv, TypeOK, RoomInv, RegisteredRoomInUse
<1>3. chState' \in [Chan -> {"CONNECTED", "RECONNECTING", "DISCONNECTED"}]
  BY DEF SessionInv, TypeOK
<1>4. \A r \in RoomId : registry[r] # None =>
        roomWorker[registry[r]] # None /\ roomId[registry[r]] = r
  BY DEF SessionInv, RoomInv, RegisteredRoomInUse
<1>5. /\ registry \in [RoomId -> Chan \cup {None}]
      /\ roomId \in [Chan -> RoomId \cup {None}]
      /\ roomPolicy \in [Chan -> Policies \cup {None}]
      /\ roomWorker \in [Chan -> Worker \cup {None}]
      /\ routers \in [Chan -> SUBSET Worker]
      /\ pipes \in SUBSET (Chan \X Worker \X Worker)
  BY DEF SessionInv, TypeOK
<1> QED BY <1>1, <1>2, <1>3, <1>4, <1>5, CreatingKeepsInv

\* The Room captured for the worker's reply has been created.
LEMMA AskForWorkerKeepsInv ==
  ASSUME SessionInv, NEW ch \in Chan, AskForWorker(ch)
  PROVE  SessionInv'
<1> USE DEF AskForWorker, roomVars, clientVars, sfuVars
<1> DEFINE i == registry[want[ch]]
<1>1. want[ch] \in RoomId /\ i \in Chan \cup {None}
  BY DEF SessionInv, TypeOK, ChannelInv
<1>2. i # None => roomId[i] # None
  BY <1>1, NoneAssumption DEF SessionInv, RoomInv, RegisteredRoomInUse
<1>3. TypeOK'
  BY <1>1 DEF SessionInv, TypeOK
<1>4. ClientInv' /\ ListenerInv' /\ RoomInv'
  BY DEF SessionInv, TypeOK, ClientInv, ListenerInv, RoomInv, RegisteredRoomInUse
<1>5. ChannelInv'
  BY <1>1, <1>2 DEF SessionInv, TypeOK, ChannelInv
<1>6. DeadSocketWillLeave'
  BY DEF SessionInv, DeadSocketWillLeave
<1> QED BY <1>3, <1>4, <1>5, <1>6 DEF SessionInv

\* A join that ends without a worker creates no client.
LEMMA WorkerTimeoutKeepsInv ==
  ASSUME SessionInv, NEW ch \in Chan, WorkerTimeout(ch)
  PROVE  SessionInv'
<1> USE DEF WorkerTimeout, chanVars, roomVars, clientVars, sfuVars
<1>1. TypeOK'
  BY DEF SessionInv, TypeOK
<1>2. ClientInv' /\ ListenerInv' /\ RoomInv'
  BY DEF SessionInv, TypeOK, ClientInv, ListenerInv, RoomInv, RegisteredRoomInUse
<1>3. ChannelInv'
  BY DEF SessionInv, TypeOK, ChannelInv
<1>4. DeadSocketWillLeave'
  BY DEF SessionInv, DeadSocketWillLeave
<1> QED BY <1>1, <1>2, <1>3, <1>4 DEF SessionInv

\* The client enters the captured Room, which may be registered no more.
LEMMA WorkerForRoomKeepsInv ==
  ASSUME SessionInv, NEW ch \in Chan, NEW w \in Worker, WorkerForRoom(ch, w)
  PROVE  SessionInv'
<1> USE DEF WorkerForRoom, chanVars, roomVars
<1> DEFINE i == joinRoom[ch]
<1>1. i \in Chan /\ roomId[i] # None
  BY DEF SessionInv, TypeOK, ChannelInv
<1>2. /\ chState' \in [Chan -> {"CONNECTED", "RECONNECTING", "DISCONNECTED"}]
      /\ routers' \in [Chan -> SUBSET Worker]
      /\ pipes' \in SUBSET (Chan \X Worker \X Worker)
  BY <1>1 DEF SessionInv, TypeOK, PipesTo
<1>3. \A r \in RoomId : registry[r] # None =>
        roomWorker[registry[r]] # None /\ roomId[registry[r]] = r
  BY DEF SessionInv, RoomInv, RegisteredRoomInUse
<1>4. /\ registry \in [RoomId -> Chan \cup {None}]
      /\ roomId \in [Chan -> RoomId \cup {None}]
      /\ roomPolicy \in [Chan -> Policies \cup {None}]
      /\ roomWorker \in [Chan -> Worker \cup {None}]
  BY DEF SessionInv, TypeOK
<1> QED BY <1>1, <1>2, <1>3, <1>4, CreatingKeepsInv

\* The client's Room is created and registered, with the client in it.
LEMMA WorkerForNewRoomKeepsInv ==
  ASSUME SessionInv, NEW ch \in Chan, NEW w \in Worker, WorkerForNewRoom(ch, w)
  PROVE  SessionInv'
<1> USE DEF WorkerForNewRoom, chanVars
<1> DEFINE r == want[ch]
<1>1. r \in RoomId /\ r # None /\ w # None
  BY NoneAssumption DEF SessionInv, TypeOK, ChannelInv
<1>2. roomId[ch] = None
  BY DEF SessionInv, RoomInv
<1>3. /\ chState' \in [Chan -> {"CONNECTED", "RECONNECTING", "DISCONNECTED"}]
      /\ registry' \in [RoomId -> Chan \cup {None}]
      /\ roomId' \in [Chan -> RoomId \cup {None}]
      /\ roomPolicy' \in [Chan -> Policies \cup {None}]
      /\ roomWorker' \in [Chan -> Worker \cup {None}]
      /\ routers' \in [Chan -> SUBSET Worker]
      /\ pipes' \in SUBSET (Chan \X Worker \X Worker)
  BY <1>1 DEF SessionInv, TypeOK
<1>4. /\ roomId'[ch] # None
      /\ \A j \in Chan : roomId[j] # None => roomId'[j] = roomId[j]
      /\ \A j \in Chan : roomId'[j] # None => roomId[j] # None \/ j = ch
  BY <1>1, <1>2 DEF SessionInv, TypeOK
<1>5. ASSUME NEW q \in RoomId, registry'[q] # None
      PROVE  /\ registry'[q] = registry[q] \/ registry'[q] = ch
             /\ roomWorker'[registry'[q]] # None
             /\ roomId'[registry'[q]] = q
  <2>1. CASE q = r
    BY <1>1, <2>1 DEF SessionInv, TypeOK
  <2>2. CASE q # r
    <3>1. registry'[q] = registry[q] /\ registry[q] \in Chan
      BY <1>5, <2>2 DEF SessionInv, TypeOK
    <3>2. roomId[registry[q]] = q /\ roomWorker[registry[q]] # None
      BY <3>1, NoneAssumption DEF SessionInv, RoomInv, RegisteredRoomInUse
    <3>3. registry[q] # ch
      BY <1>2, <3>2, NoneAssumption
    <3> QED BY <3>1, <3>2, <3>3 DEF SessionInv, TypeOK
  <2> QED BY <2>1, <2>2
<1> QED BY <1>3, <1>4, <1>5, CreatingKeepsInv

\* The client enters the Room that was registered meanwhile.
LEMMA WorkerForRacingRoomKeepsInv ==
  ASSUME SessionInv, NEW ch \in Chan, NEW w \in Worker, WorkerForRacingRoom(ch, w)
  PROVE  SessionInv'
<1> USE DEF WorkerForRacingRoom, chanVars, roomVars, sfuVars
<1> DEFINE i == registry[want[ch]]
<1>1. want[ch] \in RoomId /\ i \in Chan
  BY DEF SessionInv, TypeOK, ChannelInv
<1>2. roomId[i] # None
  BY <1>1, NoneAssumption DEF SessionInv, RoomInv, RegisteredRoomInUse
<1>3. chState' \in [Chan -> {"CONNECTED", "RECONNECTING", "DISCONNECTED"}]
  BY DEF SessionInv, TypeOK
<1>4. \A r \in RoomId : registry[r] # None =>
        roomWorker[registry[r]] # None /\ roomId[registry[r]] = r
  BY DEF SessionInv, RoomInv, RegisteredRoomInUse
<1>5. /\ registry \in [RoomId -> Chan \cup {None}]
      /\ roomId \in [Chan -> RoomId \cup {None}]
      /\ roomPolicy \in [Chan -> Policies \cup {None}]
      /\ roomWorker \in [Chan -> Worker \cup {None}]
      /\ routers \in [Chan -> SUBSET Worker]
      /\ pipes \in SUBSET (Chan \X Worker \X Worker)
  BY DEF SessionInv, TypeOK
<1> QED BY <1>1, <1>2, <1>3, <1>4, <1>5, CreatingKeepsInv

\* The channels of some clients of rooms, or of some clients that exist.
LEMMA ChannelsOfClients ==
  ASSUME SessionInv, NEW S \in SUBSET Chan, \A c \in S : cRoom[c] # None
  PROVE  {cChan[c] : c \in S} \in SUBSET Chan
BY DEF SessionInv, TypeOK, ClientInv

\* nuve's deleteRoom unregisters the Room and closes its clients' channels.
LEMMA DeleteRoomKeepsInv ==
  ASSUME SessionInv, NEW r \in RoomId, DeleteRoom(r)
  PROVE  SessionInv'
<1> DEFINE i == registry[r]
           D == {cChan[c] : c \in members[i]}
           S == Listening(OpenIn(D))
<1>1. i \in Chan
  BY DEF SessionInv, TypeOK, DeleteRoom
<1>2. D \in SUBSET Chan
  BY <1>1, MemberFacts
<1>3. S \in SUBSET Chan
  BY <1>2, ListeningIsCurrent DEF SessionInv, OpenIn
<1>4. RegistryWithout(S) \in [RoomId -> Chan \cup {None}]
  BY <1>3, LeavingTypes DEF SessionInv, DisconnectListeners
<1>5. /\ registry' \in [RoomId -> Chan \cup {None}]
      /\ \A q \in RoomId : registry'[q] # None => registry'[q] = RegistryWithout(S)[q]
  BY <1>4 DEF DeleteRoom
<1>6. /\ join' \in [Chan -> {"idle", "token", "worker", "joined", "refused", "dropped", "rejoined"}]
      /\ join' = join
      /\ lostAgent' \in SUBSET Agent
  BY DEF SessionInv, TypeOK, DeleteRoom, joinVars
<1> QED BY <1>2, <1>5, <1>6, ClosingKeepsInv DEF DeleteRoom, joinVars

\* The EC disconnects the channels of the clients S.
LEMMA DisconnectKeepsInv ==
  ASSUME SessionInv, NEW S \in SUBSET Chan, \A c \in S : cRoom[c] # None,
         DisconnectChannels({cChan[c] : c \in S}),
         lostAgent' \in SUBSET Agent,
         UNCHANGED <<joinVars, roomVars, clientVars, sfuVars>>
  PROVE  SessionInv'
<1> DEFINE D == {cChan[c] : c \in S}
<1>1. D \in SUBSET Chan
  BY ChannelsOfClients
<1>2. Listening(OpenIn(D)) \in SUBSET Chan
  BY <1>1, ListeningIsCurrent DEF SessionInv, OpenIn
<1>3. registry' \in [RoomId -> Chan \cup {None}]
  BY <1>2, LeavingTypes DEF SessionInv, DisconnectChannels, Emit, DisconnectListeners
<1>4. join' = join /\ join' \in [Chan -> {"idle", "token", "worker", "joined", "refused", "dropped", "rejoined"}]
  BY DEF SessionInv, TypeOK, joinVars
<1> QED BY <1>1, <1>3, <1>4, ClosingKeepsInv DEF DisconnectChannels, Emit, joinVars

\* deleteUser disconnects clients of a registered Room.
LEMMA DeleteUserKeepsInv ==
  ASSUME SessionInv, NEW r \in RoomId, NEW S \in SUBSET Chan, DeleteUser(r, S)
  PROVE  SessionInv'
<1>1. registry[r] \in Chan
  BY DEF SessionInv, TypeOK, DeleteUser
<1>2. \A c \in S : cRoom[c] # None
  BY <1>1, MemberFacts DEF DeleteUser
<1>3. lostAgent' \in SUBSET Agent
  BY DEF SessionInv, TypeOK, DeleteUser
<1> QED BY <1>2, <1>3, DisconnectKeepsInv DEF DeleteUser

\* remove_ea disconnects the clients created on the EA.
LEMMA RemoveEaKeepsInv ==
  ASSUME SessionInv, NEW a \in Agent, RemoveEa(a)
  PROVE  SessionInv'
<1> DEFINE S == {x \in Chan : cRoom[x] # None /\ AgentOf[cWorker[x]] = a}
<1>1. S \in SUBSET Chan /\ \A c \in S : cRoom[c] # None
  OBVIOUS
<1>2. lostAgent' \in SUBSET Agent
  BY DEF SessionInv, TypeOK, RemoveEa
<1> QED BY <1>1, <1>2, DisconnectKeepsInv DEF RemoveEa

\* The table of EAs is no part of the invariant.
LEMMA EaReturnsKeepsInv ==
  ASSUME SessionInv, NEW a \in Agent, EaReturns(a)
  PROVE  SessionInv'
<1> USE DEF EaReturns, chanVars, joinVars, roomVars, clientVars, sfuVars
<1>1. TypeOK'
  BY DEF SessionInv, TypeOK
<1>2. ClientInv' /\ ListenerInv' /\ RoomInv' /\ ChannelInv' /\ DeadSocketWillLeave'
  BY DEF SessionInv, ClientInv, ListenerInv, RoomInv, RegisteredRoomInUse, ChannelInv,
         DeadSocketWillLeave
<1> QED BY <1>1, <1>2 DEF SessionInv

\* Every step keeps the invariant.
LEMMA NextKeepsInv ==
  ASSUME SessionInv, [Next]_vars
  PROVE  SessionInv'
<1>1. CASE UNCHANGED vars
  BY <1>1 DEF vars, chanVars, joinVars, roomVars, clientVars, sfuVars, SessionInv, TypeOK,
         ClientInv, ListenerInv, RoomInv, RegisteredRoomInUse, ChannelInv, DeadSocketWillLeave
<1>2. ASSUME NEW ch \in Chan, Connect(ch) \/ SocketCloses(ch) \/ SocketLost(ch) \/ ReconnectionTimeout(ch)
      PROVE  SessionInv'
  BY <1>2, ConnectKeepsInv, SocketClosesKeepsInv, SocketLostKeepsInv, TimeoutKeepsInv
<1>3. ASSUME NEW ch \in Chan, NEW c \in Chan, Reconnect(ch, c)
      PROVE  SessionInv'
  BY <1>3, ReconnectKeepsInv
<1>4. ASSUME NEW ch \in Chan, ReconnectUnknown(ch)
      PROVE  SessionInv'
  BY <1>4, ReconnectUnknownKeepsInv
<1>5. ASSUME NEW ch \in Chan, NEW r \in RoomId, NEW p \in Policies, SendToken(ch, r, p)
      PROVE  SessionInv'
  BY <1>5, SendTokenKeepsInv
<1>6. ASSUME NEW ch \in Chan, TokenAnswered(ch)
      PROVE  SessionInv'
  BY <1>6, TokenRefusedKeepsInv, AdmitToRoomKeepsInv, AskForWorkerKeepsInv DEF TokenAnswered
<1>7. ASSUME NEW ch \in Chan, WorkerAnswered(ch)
      PROVE  SessionInv'
  BY <1>7, WorkerTimeoutKeepsInv, WorkerForRoomKeepsInv, WorkerForNewRoomKeepsInv,
     WorkerForRacingRoomKeepsInv DEF WorkerAnswered
<1>8. ASSUME NEW r \in RoomId, DeleteRoom(r)
      PROVE  SessionInv'
  BY <1>8, DeleteRoomKeepsInv
<1>9. ASSUME NEW r \in RoomId, NEW S \in SUBSET Chan, DeleteUser(r, S)
      PROVE  SessionInv'
  BY <1>9, DeleteUserKeepsInv
<1>10. ASSUME NEW a \in Agent, RemoveEa(a) \/ EaReturns(a)
       PROVE  SessionInv'
  BY <1>10, RemoveEaKeepsInv, EaReturnsKeepsInv
<1> QED BY <1>1, <1>2, <1>3, <1>4, <1>5, <1>6, <1>7, <1>8, <1>9, <1>10 DEF Next

\* The invariant of every behaviour.
THEOREM SessionInvariance == Spec => []SessionInv
<1>1. Init => SessionInv
  BY InitEstablishesInv
<1>2. SessionInv /\ [Next]_vars => SessionInv'
  BY NextKeepsInv
<1> QED BY <1>1, <1>2, PTL DEF Spec

\* All variables keep to their types.
THEOREM TypeCorrect == Spec => []TypeOK
<1>1. SessionInv => TypeOK
  BY DEF SessionInv
<1> QED BY <1>1, SessionInvariance, PTL

\* No room is in the table without a client, in whatever order clients leave,
\* rooms are deleted by nuve and EAs are removed (Room.onClientDisconnected,
\* Rooms.deleteRoom).
THEOREM RegisteredRoomsAreInUse == Spec => []RegisteredRoomInUse
<1>1. SessionInv => RegisteredRoomInUse
  BY DEF SessionInv, RoomInv
<1> QED BY <1>1, SessionInvariance, PTL

\* Whoever has lost his socket still has a reconnection timer, even if he was
\* thrown out meanwhile (Channel.onDisconnect, Channel.disconnect).
THEOREM DeadSocketsWillLeave == Spec => []DeadSocketWillLeave
<1>1. SessionInv => DeadSocketWillLeave
  BY DEF SessionInv
<1> QED BY <1>1, SessionInvariance, PTL

-----------------------------------------------------------------------------
(* What a step may not do: put out a client that is connected.             *)

\* Clients that leave with the channels D closed were on channels in D.
LEMMA LeaversAreDisconnected ==
  ASSUME SessionInv, NEW D \in SUBSET Chan,
         members' = MembersWithout(Listening(D)),
         \A ch \in D : sock'[ch] = "closed",
         NEW i \in Chan, NEW c \in Chan, c \in members[i], c \notin members'[i]
  PROVE  sock'[cChan[c]] = "closed"
<1>1. c \in Listening(D)
  BY DEF MembersWithout
<1> QED BY <1>1, ListeningIsCurrent DEF SessionInv

\* The same for channels the EC disconnects, of which only open ones emit.
LEMMA DisconnectedLeave ==
  ASSUME SessionInv, NEW D \in SUBSET Chan,
         sock' = SocketsClosing(D),
         members' = MembersWithout(Listening(OpenIn(D))),
         NEW i \in Chan, NEW c \in Chan, c \in members[i], c \notin members'[i]
  PROVE  sock'[cChan[c]] = "closed"
<1>1. OpenIn(D) \in SUBSET Chan /\ \A ch \in OpenIn(D) : sock'[ch] = "closed"
  BY ClosingTypes DEF SessionInv, OpenIn
<1> QED BY <1>1, LeaversAreDisconnected

\* A step that removes a client from a room has the socket of its current
\* channel closed; a reconnection in time is never undone by the old channel.
THEOREM LeavingNeedsDisconnection == Spec => NobodyLeavesWhileConnected
<1> DEFINE Step == \A i, c \in Chan : c \in members[i] /\ c \notin members'[i] => sock'[cChan[c]] = "closed"
<1>1. SessionInv /\ [Next]_vars => [Step]_vars
  <2> SUFFICES ASSUME SessionInv, Next,
                      NEW i \in Chan, NEW c \in Chan, c \in members[i], c \notin members'[i]
               PROVE  sock'[cChan[c]] = "closed"
    OBVIOUS
  <2>1. ASSUME NEW ch \in Chan, SocketCloses(ch)
        PROVE  sock'[cChan[c]] = "closed"
    <3>1. \A h \in {ch} : sock'[h] = "closed"
      BY <2>1 DEF SessionInv, TypeOK, SocketCloses
    <3> QED BY <2>1, <3>1, LeaversAreDisconnected DEF SocketCloses, Emit
  <2>2. ASSUME NEW ch \in Chan, ReconnectionTimeout(ch)
        PROVE  sock'[cChan[c]] = "closed"
    <3>1. \A h \in {ch} : sock'[h] = "closed"
      BY <2>2 DEF SessionInv, ChannelInv, ReconnectionTimeout
    <3>2. {ch} \in SUBSET Chan /\ members' = MembersWithout(Listening({ch}))
      BY <2>2 DEF ReconnectionTimeout, Emit
    <3> QED BY <3>1, <3>2, LeaversAreDisconnected
  <2>3. ASSUME NEW ch \in Chan, TokenRefused(ch)
        PROVE  sock'[cChan[c]] = "closed"
    BY <2>3, DisconnectedLeave DEF TokenRefused, DisconnectChannels, CloseChannels, Emit
  <2>4. ASSUME NEW ch \in Chan, NEW j \in Chan, NEW w \in Worker, CreateClient(ch, j, w)
        PROVE  FALSE
    BY <2>4 DEF SessionInv, TypeOK, CreateClient
  <2>5. ASSUME NEW r \in RoomId, DeleteRoom(r)
        PROVE  sock'[cChan[c]] = "closed"
    <3> DEFINE D == {cChan[x] : x \in members[registry[r]]}
    <3>1. registry[r] \in Chan
      BY <2>5 DEF SessionInv, TypeOK, DeleteRoom
    <3>2. D \in SUBSET Chan
      BY <3>1, MemberFacts
    <3> QED BY <2>5, <3>2, DisconnectedLeave DEF DeleteRoom, CloseChannels
  <2>6. ASSUME NEW r \in RoomId, NEW S \in SUBSET Chan, DeleteUser(r, S)
        PROVE  sock'[cChan[c]] = "closed"
    <3>1. registry[r] \in Chan
      BY <2>6 DEF SessionInv, TypeOK, DeleteUser
    <3>2. {cChan[x] : x \in S} \in SUBSET Chan
      BY <2>6, <3>1, MemberFacts DEF DeleteUser
    <3> QED BY <2>6, <3>2, DisconnectedLeave DEF DeleteUser, DisconnectChannels, CloseChannels, Emit
  <2>7. ASSUME NEW a \in Agent, RemoveEa(a)
        PROVE  sock'[cChan[c]] = "closed"
    <3> DEFINE S == {x \in Chan : cRoom[x] # None /\ AgentOf[cWorker[x]] = a}
    <3>1. {cChan[x] : x \in S} \in SUBSET Chan
      BY ChannelsOfClients
    <3> QED BY <2>7, <3>1, DisconnectedLeave DEF RemoveEa, DisconnectChannels, CloseChannels, Emit
  <2>8. ASSUME NEW ch \in Chan, AdmitToRoom(ch) \/ WorkerAnswered(ch)
        PROVE  FALSE
    <3>1. CASE AdmitToRoom(ch)
      <4>1. registry[want[ch]] \in Chan
        BY <3>1 DEF SessionInv, TypeOK, ChannelInv, AdmitToRoom
      <4>2. roomWorker[registry[want[ch]]] \in Worker
        BY <3>1, <4>1 DEF SessionInv, TypeOK, ChannelInv, RoomInv, AdmitToRoom
      <4> QED BY <2>4, <3>1, <4>1, <4>2 DEF AdmitToRoom
    <3>2. CASE WorkerTimeout(ch)
      BY <3>2 DEF WorkerTimeout
    <3>3. ASSUME NEW w \in Worker, WorkerForRoom(ch, w)
          PROVE  FALSE
      BY <2>4, <3>3 DEF SessionInv, TypeOK, WorkerForRoom
    <3>4. ASSUME NEW w \in Worker, WorkerForNewRoom(ch, w)
          PROVE  FALSE
      BY <2>4, <3>4 DEF WorkerForNewRoom
    <3>5. ASSUME NEW w \in Worker, WorkerForRacingRoom(ch, w)
          PROVE  FALSE
      BY <2>4, <3>5 DEF SessionInv, TypeOK, ChannelInv, WorkerForRacingRoom
    <3> QED BY <2>8, <3>1, <3>2, <3>3, <3>4, <3>5 DEF WorkerAnswered
  <2>9. ASSUME members' = members
        PROVE  FALSE
    BY <2>9
  <2>10. ASSUME NEW ch \in Chan,
                \/ Connect(ch) \/ SocketLost(ch) \/ ReconnectUnknown(ch) \/ AskForWorker(ch)
                \/ \E d \in Chan : Reconnect(ch, d)
                \/ \E r \in RoomId, p \in Policies : SendToken(ch, r, p)
         PROVE  FALSE
    BY <2>9, <2>10 DEF Connect, SocketLost, ReconnectUnknown, AskForWorker, Reconnect, SendToken
  <2>11. ASSUME NEW a \in Agent, EaReturns(a)
         PROVE  FALSE
    BY <2>9, <2>11 DEF EaReturns
  <2> QED BY <2>1, <2>2, <2>3, <2>5, <2>6, <2>7, <2>8, <2>10, <2>11 DEF Next, TokenAnswered
<1> QED BY <1>1, SessionInvariance, PTL DEF Spec, NobodyLeavesWhileConnected
-----------------------------------------------------------------------------
(* The three kinds of steps: clients leave, a client is created, or no room *)
(* changes.                                                                 *)

\* Sockets and timers of the channels E are done with once their events are out.
Ended(E) ==
  /\ \A ch \in E :
       /\ sock[ch] = "open" \/ timers[ch] > 0
       /\ sock'[ch] = "closed" /\ timers'[ch] = 0
  /\ \A ch \in Chan \ E :
       /\ sock'[ch] = sock[ch]
       /\ timers[ch] = 0 => timers'[ch] = 0

\* The channels E end with k events each.  If nuve deletes room r meanwhile, it
\* closes the channels of all its clients.
Leaves(E, k) ==
  /\ Ended(E)
  /\ members' = MembersWithout(Listening(E))
  /\ clientCount' = CountsWithout(Listening(E), k)
  /\ \A ch \in Chan : join'[ch] = join[ch] \/ (join[ch] = "token" /\ join'[ch] = "refused")
  /\ \/ registry' = RegistryWithout(Listening(E))
     \/ \E r \in RoomId :
          /\ NuveDeletes /\ registry[r] # None
          /\ registry' = [RegistryWithout(Listening(E)) EXCEPT ![r] = None]
          /\ \A c \in members[registry[r]] : sock'[cChan[c]] # "open"
  /\ UNCHANGED <<want, policy, joinRoom, roomVars, clientVars>>

\* Channel ch gets its client in Room i, which is registered, captured or new.
Creates(ch, i, w) ==
  /\ join[ch] \in {"token", "worker"}
  /\ CreateClient(ch, i, w)
  /\ \/ i = registry[want[ch]] /\ UNCHANGED <<registry, roomVars>>
     \/ i = joinRoom[ch] /\ UNCHANGED <<registry, roomVars>>
     \/ /\ i = ch /\ registry[want[ch]] = None
        /\ registry' = [registry EXCEPT ![want[ch]] = ch]
        /\ roomId' = [roomId EXCEPT ![ch] = want[ch]]
        /\ roomPolicy' = [roomPolicy EXCEPT ![ch] = policy[ch]]
        /\ roomWorker' = [roomWorker EXCEPT ![ch] = w]
  /\ UNCHANGED <<sock, timers, want, policy, joinRoom>>

\* A step of channel ch by which nobody enters or leaves.
QuietStep(ch) ==
  \/ Connect(ch) \/ SocketLost(ch) \/ ReconnectUnknown(ch) \/ AskForWorker(ch) \/ WorkerTimeout(ch)
  \/ \E c \in Chan : Reconnect(ch, c)
  \/ \E r \in RoomId, p \in Policies : SendToken(ch, r, p)

Quiet == (\E ch \in Chan : QuietStep(ch)) \/ (\E a \in Agent : EaReturns(a)) \/ UNCHANGED vars

\* A quiet step touches no room.
LEMMA QuietKeepsRooms ==
  ASSUME Quiet
  PROVE  UNCHANGED <<registry, roomVars, members, clientCount, cRoom, cWorker>>
BY DEF Quiet, QuietStep, Connect, SocketLost, ReconnectUnknown, AskForWorker, WorkerTimeout,
   Reconnect, SendToken, EaReturns, vars, roomVars, clientVars

\* Channels that the EC disconnects: only those with an open socket end.
LEMMA DisconnectedEnd ==
  ASSUME SessionInv, NEW D \in SUBSET Chan, CloseChannels(D)
  PROVE  OpenIn(D) \in SUBSET Chan /\ Ended(OpenIn(D))
<1>1. \A ch \in Chan : timers[ch] \in 0..2 /\ (sock[ch] = "open" => timers[ch] = 0)
  <2>1. \A ch \in Chan : timers[ch] \in 0..2
    BY DEF SessionInv, TypeOK
  <2>2. \A ch \in Chan : timers[ch] > 0 => sock[ch] = "closed"
    BY DEF SessionInv, ChannelInv
  <2> QED BY <2>1, <2>2
<1>2. \A ch \in Chan : timers[ch] = 0 => timers'[ch] = 0
  BY DEF CloseChannels, TimersClosing, TimersAfterClear, DisconnectListeners
<1>3. \A ch \in Chan : sock'[ch] = IF ch \in OpenIn(D) THEN "closed" ELSE sock[ch]
  BY DEF CloseChannels, SocketsClosing
<1> QED BY <1>1, <1>2, <1>3 DEF OpenIn, Ended

\* Disconnecting channels is a step of the first kind.
LEMMA DisconnectingLeaves ==
  ASSUME SessionInv, NEW D \in SUBSET Chan, DisconnectChannels(D),
         \A ch \in Chan : join'[ch] = join[ch] \/ (join[ch] = "token" /\ join'[ch] = "refused"),
         UNCHANGED <<want, policy, joinRoom, roomVars, clientVars>>
  PROVE  \E E \in SUBSET Chan, k \in {1, 2} : Leaves(E, k)
<1>1. OpenIn(D) \in SUBSET Chan /\ Ended(OpenIn(D))
  BY DisconnectedEnd DEF DisconnectChannels
<1>2. Leaves(OpenIn(D), 2)
  BY <1>1 DEF Leaves, DisconnectChannels, Emit, DisconnectListeners
<1> QED BY <1>1, <1>2
\* Every step is of one of the three kinds.
LEMMA StepKinds ==
  ASSUME SessionInv, [Next]_vars
  PROVE  \/ \E E \in SUBSET Chan, k \in {1, 2} : Leaves(E, k)
         \/ \E ch, i \in Chan, w \in Worker : Creates(ch, i, w)
         \/ Quiet
<1> DEFINE Goal == \/ \E E \in SUBSET Chan, k \in {1, 2} : Leaves(E, k)
                   \/ \E ch, i \in Chan, w \in Worker : Creates(ch, i, w)
                   \/ Quiet
<1> HIDE DEF Goal
<1>0. /\ \A ch \in Chan : timers[ch] \in 0..2 /\ (timers[ch] > 0 => sock[ch] = "closed")
      /\ timers \in [Chan -> 0..2] /\ sock \in [Chan -> {"new", "open", "closed"}]
      /\ join \in [Chan -> {"idle", "token", "worker", "joined", "refused", "dropped", "rejoined"}]
      /\ \A ch \in Chan : join[ch] \in {"token", "worker"} => want[ch] \in RoomId
      /\ \A r \in RoomId : registry[r] # None => registry[r] \in Chan /\ roomWorker[registry[r]] \in Worker
      /\ \A ch \in Chan : joinRoom[ch] # None => joinRoom[ch] \in Chan
  BY DEF SessionInv, TypeOK, ChannelInv, RoomInv
<1>1. ASSUME NEW ch \in Chan, SocketCloses(ch)
      PROVE  Goal
  <2>1. Ended({ch})
    BY <1>0, <1>1 DEF SocketCloses, Ended
  <2>2. Leaves({ch}, 2)
    BY <1>1, <2>1 DEF SocketCloses, Leaves, Emit, DisconnectListeners, joinVars
  <2> QED BY <2>2 DEF Goal
<1>2. ASSUME NEW ch \in Chan, ReconnectionTimeout(ch)
      PROVE  Goal
  <2>1. Ended({ch}) /\ timers[ch] \in {1, 2}
    BY <1>0, <1>2 DEF ReconnectionTimeout, Ended
  <2>2. Leaves({ch}, timers[ch])
    BY <1>2, <2>1 DEF ReconnectionTimeout, Leaves, Emit, joinVars
  <2> QED BY <2>1, <2>2 DEF Goal
<1>3. ASSUME NEW ch \in Chan, TokenRefused(ch)
      PROVE  Goal
  <2>1. \A h \in Chan : join'[h] = join[h] \/ (join[h] = "token" /\ join'[h] = "refused")
    BY <1>0, <1>3 DEF TokenRefused
  <2> QED BY <1>3, <2>1, DisconnectingLeaves DEF TokenRefused, Goal
<1>4. ASSUME NEW ch \in Chan, AdmitToRoom(ch)
      PROVE  Goal
  <2>1. Creates(ch, registry[want[ch]], roomWorker[registry[want[ch]]])
    BY <1>0, <1>4 DEF AdmitToRoom, Creates
  <2> QED BY <1>0, <1>4, <2>1 DEF AdmitToRoom, Goal
<1>5. ASSUME NEW ch \in Chan, NEW w \in Worker, WorkerForRoom(ch, w)
      PROVE  Goal
  <2>1. Creates(ch, joinRoom[ch], w)
    BY <1>5 DEF WorkerForRoom, Creates, chanVars
  <2> QED BY <1>0, <1>5, <2>1 DEF WorkerForRoom, Goal
<1>6. ASSUME NEW ch \in Chan, NEW w \in Worker, WorkerForNewRoom(ch, w)
      PROVE  Goal
  <2>1. Creates(ch, ch, w)
    BY <1>6 DEF WorkerForNewRoom, Creates, chanVars
  <2> QED BY <2>1 DEF Goal
<1>7. ASSUME NEW ch \in Chan, NEW w \in Worker, WorkerForRacingRoom(ch, w)
      PROVE  Goal
  <2>1. Creates(ch, registry[want[ch]], w)
    BY <1>7 DEF WorkerForRacingRoom, Creates, chanVars
  <2> QED BY <1>0, <1>7, <2>1 DEF WorkerForRacingRoom, Goal
<1>8. ASSUME NEW r \in RoomId, DeleteRoom(r)
      PROVE  Goal
  <2> DEFINE D == {cChan[c] : c \in members[registry[r]]}
  <2>1. registry[r] \in Chan
    BY <1>0, <1>8 DEF DeleteRoom
  <2>2. D \in SUBSET Chan
    BY <2>1, MemberFacts
  <2>3. OpenIn(D) \in SUBSET Chan /\ Ended(OpenIn(D))
    BY <1>8, <2>2, DisconnectedEnd DEF DeleteRoom
  <2>4. \A c \in members[registry[r]] : sock'[cChan[c]] # "open"
    BY <1>8, <2>2, ClosingTypes DEF DeleteRoom, CloseChannels, OpenIn, SessionInv
  <2>5. Leaves(OpenIn(D), 2)
    BY <1>8, <2>3, <2>4 DEF DeleteRoom, Leaves, DisconnectListeners, joinVars
  <2> QED BY <2>3, <2>5 DEF Goal
<1>9. ASSUME NEW r \in RoomId, NEW S \in SUBSET Chan, DeleteUser(r, S)
      PROVE  Goal
  <2>1. registry[r] \in Chan
    BY <1>0, <1>9 DEF DeleteUser
  <2>2. {cChan[c] : c \in S} \in SUBSET Chan
    BY <1>9, <2>1, MemberFacts DEF DeleteUser
  <2> QED BY <1>9, <2>2, DisconnectingLeaves DEF DeleteUser, joinVars, Goal
<1>10. ASSUME NEW a \in Agent, RemoveEa(a)
       PROVE  Goal
  <2> DEFINE S == {x \in Chan : cRoom[x] # None /\ AgentOf[cWorker[x]] = a}
  <2>1. {cChan[c] : c \in S} \in SUBSET Chan
    BY ChannelsOfClients
  <2> QED BY <1>10, <2>1, DisconnectingLeaves DEF RemoveEa, joinVars, Goal
<1>11. ASSUME NEW ch \in Chan, QuietStep(ch)
       PROVE  Goal
  BY <1>11 DEF Quiet, Goal
<1>12. ASSUME NEW a \in Agent, EaReturns(a)
       PROVE  Goal
  BY <1>12 DEF Quiet, Goal
<1>13. CASE UNCHANGED vars
  BY <1>13 DEF Quiet, Goal
<1>14. ASSUME NEW ch \in Chan, TokenAnswered(ch) \/ WorkerAnswered(ch)
       PROVE  Goal
  <2>1. AskForWorker(ch) \/ WorkerTimeout(ch) => Goal
    BY <1>11 DEF QuietStep
  <2> QED BY <1>3, <1>4, <1>5, <1>6, <1>7, <1>14, <2>1 DEF TokenAnswered, WorkerAnswered
<1>15. ASSUME NEW ch \in Chan, Connect(ch) \/ SocketLost(ch) \/ ReconnectUnknown(ch)
       PROVE  Goal
  BY <1>11, <1>15 DEF QuietStep
<1>16. ASSUME NEW ch \in Chan, NEW c \in Chan, Reconnect(ch, c)
       PROVE  Goal
  BY <1>11, <1>16 DEF QuietStep
<1>17. ASSUME NEW ch \in Chan, NEW r \in RoomId, NEW p \in Policies, SendToken(ch, r, p)
       PROVE  Goal
  BY <1>11, <1>17 DEF QuietStep
<1>18. ASSUME NEW ch \in Chan,
              \/ Connect(ch)
              \/ SocketCloses(ch)
              \/ SocketLost(ch)
              \/ ReconnectionTimeout(ch)
              \/ \E c \in Chan : Reconnect(ch, c)
              \/ ReconnectUnknown(ch)
              \/ \E r \in RoomId, p \in Policies : SendToken(ch, r, p)
              \/ TokenAnswered(ch)
              \/ WorkerAnswered(ch)
       PROVE  Goal
  BY <1>1, <1>2, <1>14, <1>15, <1>16, <1>17, <1>18
<1>19. Next => Goal
  <2>1. ASSUME NEW a \in Agent, RemoveEa(a) \/ EaReturns(a)
        PROVE  Goal
    BY <1>10, <1>12, <2>1
  <2> QED BY <1>8, <1>9, <1>18, <2>1 DEF Next
<1> QED BY <1>13, <1>19 DEF Goal
-----------------------------------------------------------------------------
(* Counts of SFU routers.                                                  *)

\* The clients of Room i on worker w.
OnWorker(i, w) == {c \in members[i] : cWorker[c] = w}

\* There are finitely many.
LEMMA ClientsAreCounted ==
  ASSUME TypeOK, NEW i \in Chan, NEW w \in Worker
  PROVE  IsFiniteSet(OnWorker(i, w)) /\ Cardinality(OnWorker(i, w)) \in Nat
<1>1. IsFiniteSet(OnWorker(i, w))
  BY ChanAssumption, FS_Subset DEF TypeOK, OnWorker
<1> QED BY <1>1, FS_CardinalityType

\* Each of the clients that leave is taken off the count once, or twice.
LEMMA LeavingKeepsCounts ==
  ASSUME SessionInv, CountInv, NEW E \in SUBSET Chan, NEW k \in {1, 2}, Leaves(E, k)
  PROVE  CountInv'
<1> DEFINE S == Listening(E)
<1>1. S \in SUBSET Chan
  BY ListeningIsCurrent DEF SessionInv
<1> SUFFICES ASSUME NEW i \in Chan, NEW w \in Worker
             PROVE  clientCount'[i][w] <= Cardinality({c \in members'[i] : cWorker'[c] = w})
  BY DEF CountInv
<1> DEFINE A == OnWorker(i, w)
           G == {c \in S : cRoom[c] = i /\ cWorker[c] = w}
           B == {c \in members'[i] : cWorker'[c] = w}
<1>2. B = A \ S
  BY DEF Leaves, MembersWithout, OnWorker, clientVars
<1>3. IsFiniteSet(A) /\ Cardinality(A) \in Nat
  BY ClientsAreCounted DEF SessionInv
<1>4. IsFiniteSet(G) /\ Cardinality(G) \in Nat
  BY <1>1, ChanAssumption, FS_Subset, FS_CardinalityType
<1>5. A \cap S \subseteq G
  BY <1>1 DEF SessionInv, TypeOK, RoomInv, OnWorker
<1>6. Cardinality(A \cap S) \in Nat /\ Cardinality(A \cap S) <= Cardinality(G)
  <2>1. IsFiniteSet(A \cap S)
    BY <1>4, <1>5, FS_Subset
  <2> QED BY <1>4, <1>5, <2>1, FS_Subset, FS_CardinalityType
<1>7. Cardinality(A \ S) = Cardinality(A) - Cardinality(A \cap S)
  BY <1>3, FS_Difference
<1>8. clientCount'[i][w] = clientCount[i][w] - k * Cardinality(G)
  BY DEF Leaves, CountsWithout
<1>9. clientCount[i][w] \in Int /\ clientCount[i][w] <= Cardinality(A)
  BY DEF SessionInv, TypeOK, CountInv, OnWorker
<1> HIDE DEF S, A, G, B
<1>10. clientCount'[i][w] <= clientCount[i][w] - Cardinality(G)
  <2>1. \A n, g \in Int : g >= 0 /\ (k = 1 \/ k = 2) => n - k * g <= n - g
    OBVIOUS
  <2> QED BY <1>4, <1>8, <1>9, <2>1
<1>11. clientCount'[i][w] <= Cardinality(B)
  BY <1>2, <1>3, <1>4, <1>6, <1>7, <1>8, <1>9, <1>10
<1> QED BY <1>11 DEF B

\* A client that is created is counted for its worker.
LEMMA CreatingKeepsCounts ==
  ASSUME SessionInv, CountInv, NEW ch \in Chan, NEW i \in Chan, NEW w \in Worker, Creates(ch, i, w)
  PROVE  CountInv'
<1> SUFFICES ASSUME NEW j \in Chan, NEW v \in Worker
             PROVE  clientCount'[j][v] <= Cardinality({c \in members'[j] : cWorker'[c] = v})
  BY DEF CountInv
<1>1. ch \notin members[j]
  <2>1. cRoom[ch] = None /\ ch # None
    BY NoneAssumption DEF SessionInv, ClientInv, Creates
  <2> QED BY <2>1, NoneAssumption DEF SessionInv, RoomInv
<1>2. /\ \A c \in members[j] : cWorker'[c] = cWorker[c]
      /\ cWorker'[ch] = w
      /\ members'[j] = IF j = i THEN members[j] \cup {ch} ELSE members[j]
      /\ clientCount'[j][v] = IF j = i /\ v = w THEN clientCount[j][v] + 1 ELSE clientCount[j][v]
  BY <1>1 DEF SessionInv, TypeOK, Creates, CreateClient
<1>3. /\ IsFiniteSet(OnWorker(j, v)) /\ Cardinality(OnWorker(j, v)) \in Nat
      /\ clientCount[j][v] \in Int /\ clientCount[j][v] <= Cardinality(OnWorker(j, v))
  BY ClientsAreCounted DEF SessionInv, TypeOK, CountInv, OnWorker
<1> DEFINE B == {c \in members'[j] : cWorker'[c] = v}
<1>4. CASE j = i /\ v = w
  <2>1. B = OnWorker(j, v) \cup {ch}
    BY <1>2, <1>4 DEF OnWorker
  <2>2. ch \notin OnWorker(j, v)
    BY <1>1 DEF OnWorker
  <2>3. Cardinality(OnWorker(j, v) \cup {ch}) = Cardinality(OnWorker(j, v)) + 1
    BY <1>3, <2>2, FS_AddElement
  <2> HIDE DEF B
  <2>4. clientCount'[j][v] <= Cardinality(B)
    BY <1>2, <1>3, <1>4, <2>1, <2>3
  <2> QED BY <2>4 DEF B
<1>5. CASE ~(j = i /\ v = w)
  <2>1. {c \in members'[j] : cWorker'[c] = v} = OnWorker(j, v)
    BY <1>2, <1>5 DEF OnWorker
  <2> QED BY <1>2, <1>3, <1>5, <2>1
<1> QED BY <1>4, <1>5

\* Every step keeps the counts.
LEMMA NextKeepsCounts ==
  ASSUME SessionInv, CountInv, [Next]_vars
  PROVE  CountInv'
<1>1. ASSUME Quiet PROVE CountInv'
  BY <1>1, QuietKeepsRooms DEF CountInv
<1> QED BY <1>1, StepKinds, LeavingKeepsCounts, CreatingKeepsCounts

\* A router of the SFU table that the EC cascades from has a client, although the
\* clients that leave are uncounted once for each listener that was registered
\* for them (SFUConManager.addRouter, delClient).
THEOREM CountedRoutersHaveClients == Spec => []CountedRouterHasClient
<1>1. Init => CountInv
  <2> SUFFICES ASSUME Init, NEW i \in Chan, NEW w \in Worker
               PROVE  clientCount[i][w] <= Cardinality({c \in members[i] : cWorker[c] = w})
    BY DEF CountInv
  <2>1. {c \in members[i] : cWorker[c] = w} = {} /\ clientCount[i][w] = 0
    BY DEF Init
  <2> QED BY <2>1, FS_EmptySet
<1>2. SessionInv /\ CountInv /\ [Next]_vars => CountInv'
  BY NextKeepsCounts
<1>3. SessionInv /\ CountInv => CountedRouterHasClient
  <2> SUFFICES ASSUME SessionInv, CountInv, NEW i \in Chan, NEW w \in Worker, clientCount[i][w] > 0
               PROVE  \E c \in members[i] : cWorker[c] = w
    BY DEF CountedRouterHasClient
  <2>1. clientCount[i][w] \in Int /\ clientCount[i][w] <= Cardinality(OnWorker(i, w))
    BY DEF SessionInv, TypeOK, CountInv, OnWorker
  <2>2. OnWorker(i, w) # {}
    BY <2>1, FS_EmptySet
  <2> QED BY <2>2 DEF OnWorker
<1> QED BY <1>1, <1>2, <1>3, SessionInvariance, PTL DEF Spec
-----------------------------------------------------------------------------
(* Connected clients are found.                                            *)

\* What the invariant says of a client in a room, of its Room and its channel.
LEMMA MemberRoom ==
  ASSUME SessionInv, NEW i \in Chan, NEW c \in members[i]
  PROVE  /\ c \in Chan /\ cRoom[c] = i /\ roomId[i] \in RoomId
         /\ cChan[c] \in Chan /\ join[cChan[c]] # "idle"
<1>1. c \in Chan /\ cRoom[c] = i /\ i # None /\ cChan[c] \in Chan
  BY MemberFacts
<1>2. roomId[i] \in RoomId
  BY <1>1 DEF SessionInv, TypeOK, ClientInv
<1>3. join[cChan[c]] # "idle"
  BY <1>1, NoneAssumption DEF SessionInv, ListenerInv
<1> QED BY <1>1, <1>2, <1>3

\* Rooms that clients leave stay registered as long as somebody is in them.
LEMMA LeavingKeepsReach ==
  ASSUME SessionInv, ReachInv, NEW E \in SUBSET Chan, NEW k \in {1, 2}, Leaves(E, k)
  PROVE  ReachInv'
<1> DEFINE S == Listening(E)
<1>1. \A ch \in Chan : sock'[ch] = "new" => join'[ch] = "idle"
  BY DEF ReachInv, Leaves, Ended
<1>2. \A ch \in Chan : joinRoom'[ch] # None => roomPolicy'[joinRoom'[ch]] = TtlBest
  BY DEF ReachInv, Leaves, roomVars
<1>3. LiveClientReachable'
  <2> SUFFICES ASSUME NEW i \in Chan, NEW c \in Chan, c \in members'[i],
                      sock'[cChan'[c]] = "open", roomPolicy'[i] = RoomBest,
                      ~ \E j \in Chan \ {i} : roomId'[j] = roomId'[i]
               PROVE  registry'[roomId'[i]] = i
    BY DEF LiveClientReachable
  <2>1. c \in members[i] /\ c \notin S /\ ~(members[i] \subseteq S)
    BY DEF Leaves, MembersWithout
  <2>2. cChan[c] \in Chan /\ roomId[i] \in RoomId
    BY <2>1, MemberRoom
  <2>3. /\ roomPolicy[i] = RoomBest /\ roomId' = roomId /\ cChan' = cChan
        /\ ~ \E j \in Chan \ {i} : roomId[j] = roomId[i]
    BY DEF Leaves, roomVars, clientVars
  <2>4. sock[cChan[c]] = "open"
    BY <2>2, <2>3 DEF Leaves, Ended
  <2>5. registry[roomId[i]] = i
    BY <2>1, <2>3, <2>4 DEF ReachInv, LiveClientReachable
  <2>6. RegistryWithout(S)[roomId[i]] = i
    <3> SUFFICES ASSUME NEW d \in S, roomId[cRoom[d]] = roomId[i], members[cRoom[d]] \subseteq S
                 PROVE  FALSE
      BY <2>2, <2>5 DEF RegistryWithout
    <3>1. d \in Chan /\ cChan[d] \in Chan
      BY ListeningIsCurrent DEF SessionInv
    <3>2. cRoom[d] \in Chan
      BY <3>1, NoneAssumption DEF SessionInv, TypeOK, ClientInv
    <3> QED BY <2>1, <2>3, <3>2
  <2>7. CASE registry' = RegistryWithout(S)
    BY <2>3, <2>6, <2>7
  <2>8. ASSUME NEW r \in RoomId, registry[r] # None,
               registry' = [RegistryWithout(S) EXCEPT ![r] = None],
               \A d \in members[registry[r]] : sock'[cChan[d]] # "open"
        PROVE  registry'[roomId'[i]] = i
    <3>1. roomId[i] # r
      BY <2>1, <2>3, <2>5, <2>8
    <3> QED BY <2>2, <2>3, <2>6, <2>8, <3>1 DEF RegistryWithout
  <2> QED BY <2>7, <2>8 DEF Leaves
<1> QED BY <1>1, <1>2, <1>3 DEF ReachInv

\* A client enters a Room that is found, or one with an EA for each client.
LEMMA CreatingKeepsReach ==
  ASSUME SessionInv, ReachInv, NEW ch \in Chan, NEW i \in Chan, NEW w \in Worker, Creates(ch, i, w)
  PROVE  ReachInv'
<1>1. roomId[ch] = None /\ want[ch] \in RoomId /\ want[ch] # None
  BY NoneAssumption DEF SessionInv, TypeOK, RoomInv, ChannelInv, Creates
<1>2. \A h \in Chan : join'[h] = IF h = ch THEN "joined" ELSE join[h]
  BY DEF SessionInv, TypeOK, Creates, CreateClient
<1>3. \A h \in Chan : sock'[h] = "new" => join'[h] = "idle"
  BY <1>2 DEF ReachInv, Creates
<1>4. \A j \in Chan : roomId[j] # None =>
        roomId'[j] = roomId[j] /\ roomPolicy'[j] = roomPolicy[j]
  BY <1>1 DEF SessionInv, TypeOK, Creates, roomVars
<1>5. \A h \in Chan : joinRoom'[h] # None => roomPolicy'[joinRoom'[h]] = TtlBest
  <2>1. \A h \in Chan : joinRoom[h] # None => joinRoom[h] \in Chan /\ roomId[joinRoom[h]] # None
    BY DEF SessionInv, TypeOK, ChannelInv
  <2> QED BY <1>4, <2>1 DEF ReachInv, Creates
<1>6. LiveClientReachable'
  <2> SUFFICES ASSUME NEW j \in Chan, NEW c \in Chan, c \in members'[j],
                      sock'[cChan'[c]] = "open", roomPolicy'[j] = RoomBest,
                      ~ \E l \in Chan \ {j} : roomId'[l] = roomId'[j]
               PROVE  registry'[roomId'[j]] = j
    BY DEF LiveClientReachable
  <2>1. CASE c = ch
    <3>1. j = i
      <4>1. c \notin members[j]
        <5>1. cRoom[ch] = None
          BY DEF SessionInv, ClientInv, Creates
        <5> QED BY <2>1, <5>1, NoneAssumption DEF SessionInv, RoomInv
      <4>2. members'[j] = IF j = i THEN members[j] \cup {ch} ELSE members[j]
        BY DEF SessionInv, TypeOK, Creates, CreateClient
      <4> QED BY <4>1, <4>2
    <3>2. CASE i = registry[want[ch]] /\ UNCHANGED <<registry, roomVars>>
      BY <1>1, <3>1, <3>2, NoneAssumption DEF SessionInv, RoomInv, RegisteredRoomInUse, roomVars
    <3>3. CASE i = joinRoom[ch] /\ UNCHANGED <<registry, roomVars>>
      <4>1. roomPolicy'[j] = TtlBest
        BY <3>1, <3>3, NoneAssumption DEF ReachInv, roomVars
      <4> QED BY <4>1 DEF RoomBest, TtlBest
    <3>4. CASE /\ i = ch
               /\ registry' = [registry EXCEPT ![want[ch]] = ch]
               /\ roomId' = [roomId EXCEPT ![ch] = want[ch]]
      BY <1>1, <3>1, <3>4 DEF SessionInv, TypeOK
    <3> QED BY <3>2, <3>3, <3>4 DEF Creates
  <2>2. CASE c # ch
    <3>1. c \in members[j] /\ cChan'[c] = cChan[c]
      BY <2>2 DEF SessionInv, TypeOK, Creates, CreateClient
    <3>2. roomId[j] \in RoomId /\ roomId[j] # None
      BY <3>1, MemberRoom, NoneAssumption
    <3>3. \A l \in Chan \ {j} : roomId[l] # roomId[j]
      BY <1>4, <3>2
    <3>4. registry[roomId[j]] = j
      BY <1>4, <3>1, <3>2, <3>3 DEF ReachInv, LiveClientReachable, Creates
    <3>5. registry'[roomId[j]] = j
      BY <1>1, <3>2, <3>4, NoneAssumption DEF SessionInv, TypeOK, Creates
    <3> QED BY <1>4, <3>2, <3>5
  <2> QED BY <2>1, <2>2
<1> QED BY <1>3, <1>5, <1>6 DEF ReachInv

\* What a quiet step may do to the channels: a client that is found may change its
\* channel, a new socket may open, another may close.
LEMMA QuietChannels ==
  ASSUME SessionInv, ReachInv, Quiet
  PROVE  /\ \A c \in Chan : Findable(c) \/ cChan'[c] = cChan[c]
         /\ \A ch \in Chan : join'[ch] = "idle" => join[ch] = "idle"
         /\ \A ch \in Chan : join[ch] # "idle" => sock[ch] # "new"
         /\ \A ch \in Chan : sock'[ch] = "new" => join'[ch] = "idle"
         /\ \A ch \in Chan : sock'[ch] = "open" => sock[ch] \in {"new", "open"}
         /\ \A ch \in Chan : sock[ch] = "closed" /\ timers[ch] = 0 =>
              sock'[ch] = "closed" /\ timers'[ch] = 0
<1>0. \A ch \in Chan : join[ch] # "idle" => sock[ch] # "new"
  BY DEF ReachInv
<1>00. /\ sock \in [Chan -> {"new", "open", "closed"}] /\ timers \in [Chan -> 0..2]
       /\ join \in [Chan -> {"idle", "token", "worker", "joined", "refused", "dropped", "rejoined"}]
       /\ cChan \in [Chan -> Chan \cup {None}]
  BY DEF SessionInv, TypeOK
<1>1. ASSUME NEW ch \in Chan, Connect(ch) \/ SocketLost(ch) \/ ReconnectUnknown(ch)
      PROVE  /\ cChan' = cChan
             /\ \A h \in Chan :
                  /\ join'[h] = "idle" => join[h] = "idle"
                  /\ sock'[h] = "new" => join'[h] = "idle"
                  /\ sock'[h] = "open" => sock[h] \in {"new", "open"}
                  /\ sock[h] = "closed" /\ timers[h] = 0 => sock'[h] = "closed" /\ timers'[h] = 0
  BY <1>0, <1>00, <1>1 DEF Connect, SocketLost, ReconnectUnknown, ReachInv, joinVars, clientVars
<1>2. ASSUME NEW ch \in Chan,
             \/ AskForWorker(ch) \/ WorkerTimeout(ch)
             \/ \E r \in RoomId, p \in Policies : SendToken(ch, r, p)
      PROVE  /\ UNCHANGED <<cChan, sock, timers>>
             /\ \A h \in Chan :
                  /\ join'[h] = "idle" => join[h] = "idle"
                  /\ sock'[h] = "new" => join'[h] = "idle"
  BY <1>0, <1>00, <1>2 DEF AskForWorker, WorkerTimeout, SendToken, ReachInv, chanVars, clientVars
<1>3. ASSUME NEW ch \in Chan, NEW c \in Chan, Reconnect(ch, c)
      PROVE  /\ Findable(c)
             /\ \A d \in Chan : d # c => cChan'[d] = cChan[d]
             /\ \A h \in Chan :
                  /\ join'[h] = "idle" => join[h] = "idle"
                  /\ sock'[h] = "new" => join'[h] = "idle"
                  /\ sock'[h] = "open" => sock[h] \in {"new", "open"}
                  /\ sock[h] = "closed" /\ timers[h] = 0 => sock'[h] = "closed" /\ timers'[h] = 0
  <2>1. Findable(c) /\ \A d \in Chan : d # c => cChan'[d] = cChan[d]
    BY <1>3, <1>00 DEF Reconnect
  <2>2. \A h \in Chan : sock'[h] = sock[h] \/ (sock[h] = "open" /\ sock'[h] = "closed")
    BY <1>3, <1>00 DEF Reconnect, SocketsClosing, OpenIn
  <2>3. \A h \in Chan : timers[h] = 0 => timers'[h] = 0
    BY <1>3, <1>00 DEF Reconnect, TimersClosing, TimersAfterClear, DisconnectListeners
  <2>4. \A h \in Chan : join'[h] = IF h = ch THEN "rejoined" ELSE join[h]
    BY <1>3, <1>00 DEF Reconnect
  <2>5. sock[ch] = "open"
    BY <1>3 DEF Reconnect
  <2> QED BY <2>1, <2>2, <2>3, <2>4, <2>5 DEF ReachInv
<1>4. ASSUME UNCHANGED <<sock, timers, join, cChan>>
      PROVE  \A h \in Chan :
               /\ sock'[h] = "new" => join'[h] = "idle"
               /\ cChan'[h] = cChan[h]
  BY <1>4 DEF ReachInv
<1>5. CASE \E a \in Agent : EaReturns(a)
  BY <1>0, <1>4, <1>5 DEF EaReturns, chanVars, joinVars, clientVars
<1>6. CASE UNCHANGED vars
  BY <1>0, <1>4, <1>6 DEF vars, chanVars, joinVars, clientVars
<1>7. ASSUME NEW ch \in Chan, QuietStep(ch)
      PROVE  /\ \A c \in Chan : Findable(c) \/ cChan'[c] = cChan[c]
             /\ \A h \in Chan :
                  /\ join'[h] = "idle" => join[h] = "idle"
                  /\ sock'[h] = "new" => join'[h] = "idle"
                  /\ sock'[h] = "open" => sock[h] \in {"new", "open"}
                  /\ sock[h] = "closed" /\ timers[h] = 0 => sock'[h] = "closed" /\ timers'[h] = 0
  <2>1. CASE Connect(ch) \/ SocketLost(ch) \/ ReconnectUnknown(ch)
    BY <1>1, <2>1
  <2>2. CASE \/ AskForWorker(ch) \/ WorkerTimeout(ch)
             \/ \E r \in RoomId, p \in Policies : SendToken(ch, r, p)
    BY <1>2, <2>2
  <2>3. CASE \E c \in Chan : Reconnect(ch, c)
    BY <1>3, <2>3
  <2> QED BY <1>7, <2>1, <2>2, <2>3 DEF QuietStep
<1> QED BY <1>0, <1>5, <1>6, <1>7 DEF Quiet
\* No quiet step makes a connected client one that cannot be found.
LEMMA QuietKeepsReach ==
  ASSUME SessionInv, ReachInv, Quiet
  PROVE  ReachInv'
<1>1. \A ch \in Chan : sock'[ch] = "new" => join'[ch] = "idle"
  BY QuietChannels
<1>2. UNCHANGED <<registry, roomVars, members, cRoom>>
  BY QuietKeepsRooms
<1>3. \A ch \in Chan : joinRoom'[ch] # None => roomPolicy'[joinRoom'[ch]] = TtlBest
  <2>1. CASE UNCHANGED joinRoom
    BY <1>2, <2>1 DEF ReachInv, roomVars
  <2>2. ASSUME NEW h \in Chan, AskForWorker(h)
        PROVE  \A ch \in Chan : joinRoom'[ch] # None => roomPolicy'[joinRoom'[ch]] = TtlBest
    BY <1>2, <2>2 DEF SessionInv, TypeOK, ReachInv, AskForWorker, roomVars
  <2> QED BY <2>1, <2>2 DEF Quiet, QuietStep, Connect, SocketLost, ReconnectUnknown, WorkerTimeout,
               Reconnect, SendToken, EaReturns, vars, joinVars
<1>4. LiveClientReachable'
  <2> SUFFICES ASSUME NEW i \in Chan, NEW c \in Chan, c \in members[i],
                      sock'[cChan'[c]] = "open", roomPolicy[i] = RoomBest
               PROVE  \/ registry[roomId[i]] = i
                      \/ \E j \in Chan \ {i} : roomId[j] = roomId[i]
    BY <1>2 DEF LiveClientReachable, roomVars
  <2>1. CASE Findable(c)
    <3>1. PICK r \in RoomId : registry[r] # None /\ c \in members[registry[r]]
      BY <2>1 DEF Findable
    <3>2. registry[r] \in Chan /\ roomId[registry[r]] = r
      BY <3>1 DEF SessionInv, TypeOK, RoomInv, RegisteredRoomInUse
    <3>3. cRoom[c] = registry[r] /\ cRoom[c] = i
      BY <3>1, <3>2 DEF SessionInv, RoomInv
    <3> QED BY <3>2, <3>3
  <2>2. CASE cChan'[c] = cChan[c]
    <3>1. cChan[c] \in Chan /\ join[cChan[c]] # "idle"
      BY MemberRoom
    <3>2. sock[cChan[c]] = "open"
      BY <2>2, <3>1, QuietChannels
    <3> QED BY <3>2 DEF ReachInv, LiveClientReachable
  <2> QED BY <2>1, <2>2, QuietChannels
<1> QED BY <1>1, <1>3, <1>4 DEF ReachInv

\* A connected client of a ROOM-BEST room is found by deleteRoom, deleteUser and
\* by its own reconnection, unless a Room was deleted and another has its id.
THEOREM LiveClientsAreReachable == Spec => []LiveClientReachable
<1>1. Init => ReachInv
  BY DEF Init, ReachInv, LiveClientReachable
<1>2. SessionInv /\ ReachInv /\ [Next]_vars => ReachInv'
  BY StepKinds, LeavingKeepsReach, CreatingKeepsReach, QuietKeepsReach
<1>3. ReachInv => LiveClientReachable
  BY DEF ReachInv
<1> QED BY <1>1, <1>2, <1>3, SessionInvariance, PTL DEF Spec
-----------------------------------------------------------------------------
(* The rooms of RoomService.                                               *)

\* The channel of a client that left has ended: no timer of it runs, and no step
\* opens it again.
LEMMA NextKeepsDeparted ==
  ASSUME SessionInv, ReachInv, DepartedInv, [Next]_vars
  PROVE  DepartedInv'
<1>1. \A c \in Departed : c \in Chan /\ cRoom[c] \in Chan /\ cChan[c] \in Chan
  BY DEF SessionInv, TypeOK, ClientInv, Departed
<1>2. ASSUME NEW E \in SUBSET Chan, NEW k \in {1, 2}, Leaves(E, k)
      PROVE  DepartedInv'
  <2> SUFFICES ASSUME NEW c \in Departed'
               PROVE  sock'[cChan'[c]] = "closed" /\ timers'[cChan'[c]] = 0
    BY DEF DepartedInv
  <2>1. c \in Chan /\ cRoom[c] # None /\ cChan'[c] = cChan[c] /\ c \notin members'[cRoom[c]]
    BY <1>2 DEF Leaves, Departed, clientVars
  <2>2. cRoom[c] \in Chan /\ cChan[c] \in Chan
    BY <2>1 DEF SessionInv, TypeOK, ClientInv
  <2>3. CASE c \in Departed
    <3>1. sock[cChan[c]] = "closed" /\ timers[cChan[c]] = 0
      BY <2>3 DEF DepartedInv
    <3> QED BY <1>2, <2>1, <2>2, <3>1 DEF Leaves, Ended
  <2>4. CASE c \notin Departed
    <3>1. c \in Listening(E)
      BY <1>2, <2>1, <2>2, <2>4 DEF Leaves, MembersWithout, Departed
    <3>2. cChan[c] \in E
      BY <2>1, <3>1, ListeningIsCurrent DEF SessionInv
    <3> QED BY <1>2, <2>1, <3>2 DEF Leaves, Ended
  <2> QED BY <2>3, <2>4
<1>3. ASSUME NEW ch \in Chan, NEW i \in Chan, NEW w \in Worker, Creates(ch, i, w)
      PROVE  DepartedInv'
  <2>1. \A j \in Chan : members[j] \subseteq members'[j] /\ ch \in members'[i]
    BY <1>3 DEF SessionInv, TypeOK, Creates, CreateClient
  <2>2. \A c \in Chan : c # ch => cRoom'[c] = cRoom[c] /\ cChan'[c] = cChan[c]
    BY <1>3 DEF SessionInv, TypeOK, Creates, CreateClient
  <2>3. cRoom'[ch] = i
    BY <1>3 DEF SessionInv, TypeOK, Creates, CreateClient
  <2>4. \A c \in Chan : cRoom[c] # None => cRoom[c] \in Chan
    BY DEF SessionInv, TypeOK
  <2>5. \A c \in Departed' : c \in Departed /\ c # ch
    BY <2>1, <2>2, <2>3, <2>4 DEF Departed
  <2>6. UNCHANGED <<sock, timers>>
    BY <1>3 DEF Creates
  <2> QED BY <1>1, <2>2, <2>5, <2>6 DEF DepartedInv
<1>4. ASSUME Quiet
      PROVE  DepartedInv'
  <2>1. Departed' = Departed
    BY <1>4, QuietKeepsRooms DEF Departed
  <2>2. \A c \in Departed : ~Findable(c)
    <3> SUFFICES ASSUME NEW c \in Departed, NEW r \in RoomId, registry[r] # None, c \in members[registry[r]]
                 PROVE  FALSE
      BY DEF Findable
    <3>1. registry[r] \in Chan
      BY DEF SessionInv, TypeOK
    <3> QED BY <3>1, MemberFacts DEF Departed
  <2> QED BY <1>1, <1>4, <2>1, <2>2, QuietChannels DEF DepartedInv
<1> QED BY <1>2, <1>3, <1>4, StepKinds

\* A token brings the policy of the Room that is created for it.
LEMMA NextKeepsPolicy ==
  ASSUME SessionInv, PolicyInv, [Next]_vars
  PROVE  PolicyInv'
<1>1. ASSUME NEW E \in SUBSET Chan, NEW k \in {1, 2}, Leaves(E, k)
      PROVE  PolicyInv'
  BY <1>1 DEF PolicyInv, Leaves, roomVars
<1>2. ASSUME NEW ch \in Chan, NEW i \in Chan, NEW w \in Worker, Creates(ch, i, w)
      PROVE  PolicyInv'
  <2>1. \A h \in Chan : join'[h] = IF h = ch THEN "joined" ELSE join[h]
    BY <1>2 DEF SessionInv, TypeOK, Creates, CreateClient
  <2>2. policy' = policy /\ policy[ch] \in Policies
    BY <1>2 DEF PolicyInv, Creates
  <2>3. \A j \in Chan : roomId'[j] # None => roomPolicy'[j] \in Policies
    BY <1>2, <2>2 DEF SessionInv, TypeOK, PolicyInv, Creates, roomVars
  <2> QED BY <2>1, <2>2, <2>3 DEF PolicyInv
<1>3. ASSUME Quiet
      PROVE  PolicyInv'
  <2>1. UNCHANGED <<roomId, roomPolicy>>
    BY <1>3, QuietKeepsRooms DEF roomVars
  <2>2. \A h \in Chan : join'[h] \in {"token", "worker"} => policy'[h] \in Policies
    <3>1. CASE \E ch \in Chan, r \in RoomId, p \in Policies : SendToken(ch, r, p)
      BY <3>1 DEF SessionInv, TypeOK, PolicyInv, SendToken
    <3>2. ASSUME policy' = policy,
                 \A h \in Chan : join'[h] \in {"token", "worker"} => join[h] \in {"token", "worker"}
          PROVE  \A h \in Chan : join'[h] \in {"token", "worker"} => policy'[h] \in Policies
      BY <3>2 DEF PolicyInv
    <3>3. CASE \E ch \in Chan : \/ Connect(ch) \/ SocketLost(ch) \/ ReconnectUnknown(ch)
                                \/ AskForWorker(ch) \/ WorkerTimeout(ch)
                                \/ \E c \in Chan : Reconnect(ch, c)
      <4>1. policy' = policy
        BY <3>3 DEF Connect, SocketLost, ReconnectUnknown, AskForWorker, WorkerTimeout, Reconnect, joinVars
      <4>2. join \in [Chan -> {"idle", "token", "worker", "joined", "refused", "dropped", "rejoined"}]
        BY DEF SessionInv, TypeOK
      <4>3. \A h \in Chan : join'[h] \in {"token", "worker"} => join[h] \in {"token", "worker"}
        BY <3>3, <4>2 DEF Connect, SocketLost, ReconnectUnknown, AskForWorker, WorkerTimeout,
                          Reconnect, joinVars
      <4> QED BY <3>2, <4>1, <4>3
    <3>4. CASE (\E a \in Agent : EaReturns(a)) \/ UNCHANGED vars
      BY <3>2, <3>4 DEF EaReturns, vars, joinVars
    <3> QED BY <1>3, <3>1, <3>3, <3>4 DEF Quiet, QuietStep
  <2> QED BY <2>1, <2>2 DEF PolicyInv
<1> QED BY <1>1, <1>2, <1>3, StepKinds

\* Nobody on the channels that end has left before.
LEMMA EndingClientsArePresent ==
  ASSUME SessionInv, ServiceInv, NEW E \in SUBSET Chan, Ended(E), NEW c \in Listening(E)
  PROVE  /\ c \in Chan /\ cRoom[c] \in Chan /\ c \in members[cRoom[c]]
         /\ roomId[cRoom[c]] \in RoomId /\ registry[roomId[cRoom[c]]] = cRoom[c]
<1>1. c \in Chan /\ cChan[c] \in E
  BY ListeningIsCurrent DEF SessionInv
<1>2. cRoom[c] # None /\ cRoom[c] \in Chan
  BY <1>1, NoneAssumption DEF SessionInv, TypeOK, ClientInv
<1>3. c \in members[cRoom[c]]
  <2>1. ~(sock[cChan[c]] = "closed" /\ timers[cChan[c]] = 0)
    <3>1. timers[cChan[c]] \in 0..2
      BY <1>1 DEF SessionInv, TypeOK
    <3> QED BY <1>1, <3>1 DEF Ended
  <2> QED BY <1>1, <1>2, <2>1 DEF ServiceInv, DepartedInv, Departed
<1> QED BY <1>1, <1>2, <1>3, MemberRoom DEF ServiceInv
\* With ROOM-BEST rooms that nuve does not delete, a Room with a client stays the
\* one registered under its id.
LEMMA NextKeepsService ==
  ASSUME ~NuveDeletes, Policies \subseteq {RoomBest},
         SessionInv, ReachInv, ServiceInv, [Next]_vars
  PROVE  ServiceInv'
<1>1. DepartedInv' /\ PolicyInv'
  BY NextKeepsDeparted, NextKeepsPolicy DEF ServiceInv
<1> SUFFICES /\ \A i \in Chan : members'[i] # {} => registry'[roomId'[i]] = i
             /\ \A ch \in Chan : joinRoom'[ch] = None
  BY <1>1 DEF ServiceInv
<1>2. ASSUME NEW E \in SUBSET Chan, NEW k \in {1, 2}, Leaves(E, k)
      PROVE  /\ \A i \in Chan : members'[i] # {} => registry'[roomId'[i]] = i
             /\ \A ch \in Chan : joinRoom'[ch] = None
  <2> DEFINE S == Listening(E)
  <2> SUFFICES ASSUME NEW i \in Chan, members'[i] # {}
               PROVE  registry'[roomId'[i]] = i
    BY <1>2 DEF Leaves, ServiceInv
  <2>1. ~(members[i] \subseteq S) /\ registry' = RegistryWithout(S) /\ roomId' = roomId
    BY <1>2 DEF Leaves, MembersWithout, roomVars
  <2>2. roomId[i] \in RoomId /\ registry[roomId[i]] = i
    BY <2>1, MemberRoom DEF ServiceInv
  <2>3. ASSUME NEW d \in S, roomId[cRoom[d]] = roomId[i], members[cRoom[d]] \subseteq S
        PROVE  FALSE
    BY <1>2, <2>1, <2>2, <2>3, EndingClientsArePresent DEF Leaves
  <2> QED BY <2>1, <2>2, <2>3 DEF RegistryWithout
<1>3. ASSUME NEW ch \in Chan, NEW i \in Chan, NEW w \in Worker, Creates(ch, i, w)
      PROVE  /\ \A j \in Chan : members'[j] # {} => registry'[roomId'[j]] = j
             /\ \A h \in Chan : joinRoom'[h] = None
  <2> SUFFICES ASSUME NEW j \in Chan, members'[j] # {}
               PROVE  registry'[roomId'[j]] = j
    BY <1>3 DEF Creates, ServiceInv
  <2>1. roomId[ch] = None /\ want[ch] \in RoomId /\ want[ch] # None
    BY <1>3, NoneAssumption DEF SessionInv, TypeOK, RoomInv, ChannelInv, Creates
  <2>2. \/ i = registry[want[ch]] /\ UNCHANGED <<registry, roomId>>
        \/ /\ i = ch /\ registry[want[ch]] = None
           /\ registry' = [registry EXCEPT ![want[ch]] = ch]
           /\ roomId' = [roomId EXCEPT ![ch] = want[ch]]
    BY <1>3, NoneAssumption DEF Creates, ServiceInv, roomVars
  <2>3. registry \in [RoomId -> Chan \cup {None}] /\ roomId \in [Chan -> RoomId \cup {None}]
    BY DEF SessionInv, TypeOK
  <2>4. CASE j = i
    BY <2>1, <2>2, <2>3, <2>4, NoneAssumption DEF SessionInv, RoomInv, RegisteredRoomInUse
  <2>5. CASE j # i
    <3>1. members'[j] = members[j]
      BY <1>3, <2>5 DEF SessionInv, TypeOK, Creates, CreateClient
    <3>2. PICK c \in members[j] : TRUE
      BY <3>1
    <3>3. roomId[j] \in RoomId /\ registry[roomId[j]] = j
      BY <3>2, MemberRoom DEF ServiceInv
    <3> QED BY <2>1, <2>2, <2>3, <3>3, NoneAssumption
  <2> QED BY <2>4, <2>5
<1>4. ASSUME Quiet
      PROVE  /\ \A i \in Chan : members'[i] # {} => registry'[roomId'[i]] = i
             /\ \A ch \in Chan : joinRoom'[ch] = None
  <2>1. UNCHANGED <<registry, roomId, members>>
    BY <1>4, QuietKeepsRooms DEF roomVars
  <2>2. ASSUME NEW ch \in Chan, AskForWorker(ch)
        PROVE  joinRoom' = joinRoom
    <3>1. registry[want[ch]] = None
      <4> SUFFICES ASSUME registry[want[ch]] # None PROVE FALSE
        OBVIOUS
      <4>1. want[ch] \in RoomId /\ want[ch] # None
        BY <2>2, NoneAssumption DEF SessionInv, TypeOK, ChannelInv, AskForWorker
      <4>2. registry[want[ch]] \in Chan /\ roomId[registry[want[ch]]] # None
        BY <4>1 DEF SessionInv, TypeOK, RoomInv, RegisteredRoomInUse
      <4>3. roomPolicy[registry[want[ch]]] = RoomBest
        BY <4>2 DEF ServiceInv, PolicyInv
      <4> QED BY <2>2, <4>3 DEF AskForWorker, RoomBest, TtlBest
    <3> QED BY <2>2, <3>1 DEF SessionInv, TypeOK, ServiceInv, AskForWorker
  <2>3. joinRoom' = joinRoom
    BY <1>4, <2>2 DEF Quiet, QuietStep, Connect, SocketLost, ReconnectUnknown, WorkerTimeout,
         Reconnect, SendToken, EaReturns, vars, joinVars
  <2> QED BY <2>1, <2>3 DEF ServiceInv
<1> QED BY <1>2, <1>3, <1>4, StepKinds

\* Clients that leave their Rooms depart from RoomService.
LEMMA LeavingImplements ==
  ASSUME ~NuveDeletes, SessionInv, ServiceInv, NEW E \in SUBSET Chan, NEW k \in {1, 2}, Leaves(E, k)
  PROVE  [Service!Next]_(Service!vars)
<1> DEFINE S == Listening(E)
<1>1. S \in SUBSET Chan
  BY ListeningIsCurrent DEF SessionInv
<1>2. \A c \in S : /\ cRoom[c] \in Chan /\ c \in members[cRoom[c]]
                   /\ roomId[cRoom[c]] \in RoomId /\ registry[roomId[cRoom[c]]] = cRoom[c]
  BY EndingClientsArePresent DEF Leaves
<1>3. /\ \A i \in Chan : members'[i] = members[i] \ S
      /\ registry' = RegistryWithout(S)
      /\ cRoom' = cRoom
  BY DEF Leaves, MembersWithout, clientVars
<1>4. ASSUME NEW r \in RoomId
      PROVE  Present'[r] = Present[r] \ S
  <2>1. CASE registry[r] = None
    <3>1. registry'[r] = None
      BY <1>3, <2>1 DEF RegistryWithout
    <3> QED BY <2>1, <3>1 DEF Present
  <2>2. CASE registry[r] # None /\ registry'[r] = registry[r]
    BY <1>3, <2>2 DEF SessionInv, TypeOK, Present
  <2>3. CASE registry[r] # None /\ registry'[r] # registry[r]
    <3>1. PICK d \in S : roomId[cRoom[d]] = r /\ members[cRoom[d]] \subseteq S
      BY <1>3, <2>3 DEF RegistryWithout
    <3>2. registry[r] = cRoom[d] /\ registry'[r] = None
      BY <1>2, <1>3, <3>1 DEF RegistryWithout
    <3> QED BY <2>3, <3>1, <3>2 DEF Present
  <2> QED BY <2>1, <2>2, <2>3
<1>5. Departed' = Departed \cup S
  <2>1. \A c \in Chan : cRoom[c] # None => cRoom[c] \in Chan
    BY DEF SessionInv, TypeOK
  <2>2. \A c \in S : cRoom[c] # None
    BY <1>2, NoneAssumption
  <2> QED BY <1>1, <1>3, <2>1, <2>2 DEF Departed
<1>6. Present' = [r \in RoomId |-> Present[r] \ S]
  BY <1>4 DEF Present
<1>7. CASE S = {}
  <2>1. Present' = Present
    BY <1>6, <1>7 DEF Present
  <2> QED BY <1>5, <1>7, <2>1 DEF Service!vars
<1>8. CASE S # {}
  <2>1. \A c \in S : \E r \in RoomId : c \in Present[r]
    <3> SUFFICES ASSUME NEW c \in S PROVE c \in Present[roomId[cRoom[c]]]
      BY <1>2
    <3> QED BY <1>2, NoneAssumption DEF Present
  <2>2. Service!Depart(S)
    BY <1>5, <1>6, <1>8, <2>1 DEF Service!Depart
  <2> QED BY <1>1, <2>2 DEF Service!Next
<1> QED BY <1>7, <1>8

\* A client that is created enters.
LEMMA CreatingImplements ==
  ASSUME SessionInv, ServiceInv, NEW ch \in Chan, NEW i \in Chan, NEW w \in Worker, Creates(ch, i, w)
  PROVE  \E r \in RoomId : Service!Enter(r, ch)
<1> DEFINE r == want[ch]
<1>1. r \in RoomId /\ r # None /\ cRoom[ch] = None /\ roomId[ch] = None /\ i # None /\ ch # None
  BY NoneAssumption DEF SessionInv, TypeOK, ClientInv, RoomInv, ChannelInv, Creates
<1>2. \A j \in Chan : ch \notin members[j] /\ (members[j] # {} => j # ch)
  BY <1>1, NoneAssumption DEF SessionInv, TypeOK, ClientInv, RoomInv
<1>3. /\ \A j \in Chan : members'[j] = IF j = i THEN members[j] \cup {ch} ELSE members[j]
      /\ \A c \in Chan : cRoom'[c] = IF c = ch THEN i ELSE cRoom[c]
  BY DEF SessionInv, TypeOK, Creates, CreateClient
<1>4. registry \in [RoomId -> Chan \cup {None}] /\ \A c \in Chan : cRoom[c] # None => cRoom[c] \in Chan
  BY DEF SessionInv, TypeOK
<1>5. /\ registry'[r] = i
      /\ \A q \in RoomId : q # r => registry'[q] = registry[q] /\ registry[q] # i
      /\ Present[r] = members[i]
  <2>1. CASE i = registry[r] /\ UNCHANGED registry
    BY <1>1, <2>1 DEF SessionInv, RoomInv, RegisteredRoomInUse, Present
  <2>2. CASE i = ch /\ registry[r] = None /\ registry' = [registry EXCEPT ![r] = ch]
    <3>1. \A q \in RoomId : registry[q] # ch
      BY <1>1, NoneAssumption DEF SessionInv, RoomInv, RegisteredRoomInUse
    <3> QED BY <1>1, <1>2, <1>4, <2>2, <3>1 DEF Present
  <2> QED BY <2>1, <2>2, NoneAssumption DEF Creates, ServiceInv
<1>6. Departed' = Departed
  BY <1>1, <1>2, <1>3, <1>4 DEF Departed
<1>7. ch \notin Departed /\ \A q \in RoomId : ch \notin Present[q]
  BY <1>1, <1>2, <1>4 DEF Departed, Present
<1>8. Present' = [Present EXCEPT ![r] = @ \cup {ch}]
  <2>1. Present'[r] = Present[r] \cup {ch}
    BY <1>1, <1>3, <1>5 DEF Present
  <2>2. ASSUME NEW q \in RoomId, q # r
        PROVE  Present'[q] = Present[q]
    <3>1. registry'[q] = registry[q] /\ registry[q] # i /\ registry[q] \in Chan \cup {None}
      BY <1>4, <1>5, <2>2
    <3>2. registry[q] # None => members'[registry[q]] = members[registry[q]]
      BY <1>3, <3>1
    <3> QED BY <3>1, <3>2 DEF Present
  <2>3. Present' = [q \in RoomId |-> Present'[q]] /\ Present = [q \in RoomId |-> Present[q]]
    BY DEF Present
  <2> HIDE DEF r
  <2> QED BY <1>1, <2>1, <2>2, <2>3
<1> QED BY <1>1, <1>6, <1>7, <1>8 DEF Service!Enter

\* While nuve deletes no room and every room has one EA, the sessions of an EC
\* implement RoomService: a user stays visible under the id of his room until he
\* departs, enters once and does not come back (Room.js, Rooms, Client.js).
THEOREM RoomServiceIsImplemented ==
  ASSUME ~NuveDeletes, Policies \subseteq {RoomBest}
  PROVE  Spec => ImplementsRoomService
<1>1. Init => ReachInv /\ ServiceInv /\ Service!Init
  <2> SUFFICES ASSUME Init PROVE ReachInv /\ ServiceInv /\ Service!Init
    OBVIOUS
  <2>1. ReachInv
    BY DEF Init, ReachInv, LiveClientReachable
  <2>2. Departed = {} /\ Present = [r \in RoomId |-> {}]
    BY DEF Init, Departed, Present
  <2>3. ServiceInv
    BY <2>2 DEF Init, ServiceInv, DepartedInv, PolicyInv
  <2> QED BY <2>1, <2>2, <2>3 DEF Service!Init
<1>2. SessionInv /\ ReachInv /\ ServiceInv /\ [Next]_vars => ReachInv' /\ ServiceInv'
  BY StepKinds, LeavingKeepsReach, CreatingKeepsReach, QuietKeepsReach, NextKeepsService
<1>3. SessionInv /\ ServiceInv /\ [Next]_vars => [Service!Next]_(Service!vars)
  <2> SUFFICES ASSUME SessionInv, ServiceInv, [Next]_vars PROVE [Service!Next]_(Service!vars)
    OBVIOUS
  <2>1. ASSUME Quiet PROVE [Service!Next]_(Service!vars)
    <3>1. Present' = Present /\ Departed' = Departed
      BY <2>1, QuietKeepsRooms DEF Present, Departed
    <3> QED BY <3>1 DEF Service!vars
  <2>2. ASSUME NEW ch \in Chan, NEW i \in Chan, NEW w \in Worker, Creates(ch, i, w)
        PROVE  [Service!Next]_(Service!vars)
    BY <2>2, CreatingImplements DEF Service!Next
  <2> QED BY <2>1, <2>2, StepKinds, LeavingImplements
<1> QED BY <1>1, <1>2, <1>3, SessionInvariance, PTL DEF Spec, ImplementsRoomService, Service!Spec
-----------------------------------------------------------------------------
(* What composing modules need to know of a step.                          *)

\* A client keeps its Room and worker and a Room its id and worker; who left stays away; a
\* channel sends its token once.
LEMMA StepsKeepClients ==
  ASSUME SessionInv, [Next]_vars
  PROVE  /\ \A c \in Chan : cRoom[c] # None => cRoom'[c] = cRoom[c] /\ cWorker'[c] = cWorker[c]
         /\ \A i \in Chan : roomId[i] # None => roomId'[i] = roomId[i] /\ roomWorker'[i] = roomWorker[i]
         /\ \A c \in Chan : cRoom[c] # None /\ c \notin members[cRoom[c]] => c \notin members'[cRoom[c]]
         /\ \A ch \in Chan : join[ch] # "idle" => join'[ch] # "idle" /\ want'[ch] = want[ch]
         /\ \A ch \in Chan : join'[ch] \in {"idle", "token"} => join[ch] \in {"idle", "token"}
<1> DEFINE Kept == /\ \A c \in Chan : cRoom[c] # None => cRoom'[c] = cRoom[c] /\ cWorker'[c] = cWorker[c]
                   /\ \A i \in Chan : roomId[i] # None => roomId'[i] = roomId[i] /\ roomWorker'[i] = roomWorker[i]
                   /\ \A c \in Chan : cRoom[c] # None /\ c \notin members[cRoom[c]] => c \notin members'[cRoom[c]]
                   /\ \A ch \in Chan : join[ch] # "idle" => join'[ch] # "idle" /\ want'[ch] = want[ch]
                   /\ \A ch \in Chan : join'[ch] \in {"idle", "token"} => join[ch] \in {"idle", "token"}
<1>1. ASSUME NEW E \in SUBSET Chan, NEW k \in {1, 2}, Leaves(E, k)
      PROVE  Kept
  <2>1. \A c \in Chan : cRoom[c] # None => cRoom[c] \in Chan
    BY DEF SessionInv, TypeOK
  <2> QED BY <1>1, <2>1 DEF Leaves, MembersWithout, clientVars, roomVars
<1>2. ASSUME NEW ch \in Chan, NEW i \in Chan, NEW w \in Worker, Creates(ch, i, w)
      PROVE  Kept
  <2>1. cRoom[ch] = None /\ roomId[ch] = None
    BY <1>2 DEF SessionInv, ClientInv, RoomInv, Creates
  <2>2. /\ \A c \in Chan : c # ch => cRoom'[c] = cRoom[c] /\ cWorker'[c] = cWorker[c]
        /\ \A j \in Chan : members'[j] \subseteq members[j] \cup {ch}
        /\ \A h \in Chan : join'[h] = IF h = ch THEN "joined" ELSE join[h]
        /\ \A j \in Chan : j # ch => roomId'[j] = roomId[j] /\ roomWorker'[j] = roomWorker[j]
    BY <1>2 DEF SessionInv, TypeOK, Creates, CreateClient, roomVars
  <2>3. \A c \in Chan : cRoom[c] # None => cRoom[c] \in Chan
    BY DEF SessionInv, TypeOK
  <2>4. want' = want
    BY <1>2 DEF Creates
  <2> QED BY <2>1, <2>2, <2>3, <2>4
<1>3. ASSUME Quiet
      PROVE  Kept
  <2>1. UNCHANGED <<cRoom, cWorker, roomId, roomWorker, members>>
    BY <1>3, QuietKeepsRooms DEF roomVars
  <2> DEFINE JoinsOnce ==
        /\ \A ch \in Chan : join[ch] # "idle" => join'[ch] # "idle" /\ want'[ch] = want[ch]
        /\ \A ch \in Chan : join'[ch] \in {"idle", "token"} => join[ch] \in {"idle", "token"}
  <2>2. JoinsOnce
    <3>1. CASE UNCHANGED <<join, want>>
      BY <3>1
    <3>2. join \in [Chan -> {"idle", "token", "worker", "joined", "refused", "dropped", "rejoined"}]
      BY DEF SessionInv, TypeOK
    <3>3. want \in [Chan -> RoomId \cup {None}]
      BY DEF SessionInv, TypeOK
    <3>4. ASSUME NEW ch \in Chan, want' = want,
                 \/ join' = [join EXCEPT ![ch] = "rejoined"]
                 \/ join' = [join EXCEPT ![ch] = "worker"]
                 \/ join' = [join EXCEPT ![ch] = "refused"]
                 \/ join' = [join EXCEPT ![ch] = "dropped"]
          PROVE  JoinsOnce
      BY <3>2, <3>4
    <3>5. ASSUME NEW ch \in Chan, NEW r \in RoomId, NEW p \in Policies, SendToken(ch, r, p)
          PROVE  JoinsOnce
      BY <3>2, <3>3, <3>5 DEF SendToken
    <3>6. ASSUME NEW ch \in Chan, ReconnectUnknown(ch) \/ AskForWorker(ch) \/ WorkerTimeout(ch)
          PROVE  JoinsOnce
      BY <3>4, <3>6 DEF ReconnectUnknown, AskForWorker, WorkerTimeout
    <3>7. ASSUME NEW ch \in Chan, NEW c \in Chan, Reconnect(ch, c)
          PROVE  JoinsOnce
      BY <3>4, <3>7 DEF Reconnect
    <3>8. CASE \E ch \in Chan :
                 \/ ReconnectUnknown(ch) \/ AskForWorker(ch) \/ WorkerTimeout(ch)
                 \/ \E c \in Chan : Reconnect(ch, c)
                 \/ \E r \in RoomId, p \in Policies : SendToken(ch, r, p)
      BY <3>5, <3>6, <3>7, <3>8
    <3> QED BY <1>3, <3>1, <3>8 DEF Quiet, QuietStep, Connect, SocketLost, EaReturns, vars, joinVars
  <2> QED BY <2>1, <2>2
<1> HIDE DEF Kept
<1>4. Kept
  BY <1>1, <1>2, <1>3, StepKinds
<1> QED BY <1>4 DEF Kept
=============================================================================
