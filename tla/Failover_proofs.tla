---------------------------- MODULE Failover_proofs ----------------------------
(***************************************************************************)
(* The rooms of EAs when ECs are given up, for any ECs, EAs, rooms and     *)
(* users: a user in a room of its own EC is not thrown out by what happens *)
(* to others, a room is closed under a user's first request only if        *)
(* somebody left it, and a room of an EC that was given up is closed.      *)
(***************************************************************************)
EXTENDS Failover, TLAPS

USE NoneAssumption, HostAssumption

\* At first there are no rooms and no users.
LEMMA InitEstablishesInv == Init => FailoverInv
  BY DEF Init, Ea!Init, FailoverInv, TypeOK, Ea!TypeOK, RoomInv, BroadcastInv, UserInv,
     AskedInv, EnteringInv, Ea!HostInv, Ea!UsedInv, Ea!HasRoom, GivenUpRoomsClosed, KeptUnlessStranger

\* Steps of nuve, ECs and users that leave the EAs' rooms alone, in which nobody
\* comes to be "ok" or comes back, EC rooms with users stay and given only grows.
LEMMA OutsideKeepsKept ==
  ASSUME UserInv, KeptUnlessStranger, EnteringInv, Ea!HostInv, Ea!UsedInv, TypeOK,
         UNCHANGED <<eaVars, strangers>>, up' \subseteq up, given \subseteq given',
         \A u \in User : place'[u] = "ok" => /\ place[u] = "ok" /\ ticket'[u] = ticket[u]
                                             /\ ecRoom'[ticket[u][1]][ticket[u][2]] = ecRoom[ticket[u][1]][ticket[u][2]],
         \A u \in User : place[u] = "gone" => place'[u] = "gone" /\ ticket'[u] = ticket[u],
         \A u \in User : eaEntering[u] # None => ticket'[u] = ticket[u]
  PROVE  KeptUnlessStranger' /\ EnteringInv' /\ Ea!HostInv' /\ Ea!UsedInv'
<1>1. UNCHANGED <<eaRouter, eaOwner, eaClients, eaEntering, eaAstray, eaUsed, strangers>>
  BY DEF eaVars
<1>2. ASSUME NEW r, SomeoneLeft(r) PROVE SomeoneLeft(r)'
  BY <1>2 DEF SomeoneLeft
<1>3. KeptUnlessStranger'
  <2> SUFFICES ASSUME NEW u \in User \ strangers, place'[u] = "ok", ticket'[u][1] \in up' \ given'
               PROVE  \/ /\ u \in eaClients[AgentOf(u)'][ticket'[u][2]]
                         /\ eaOwner[AgentOf(u)'][ticket'[u][2]] = ticket'[u][1]
                      \/ u \in eaAstray /\ SomeoneLeft(ticket[u][2])'
    BY <1>1 DEF KeptUnlessStranger
  <2>1. AgentOf(u)' = AgentOf(u) /\ ticket'[u] = ticket[u] /\ place[u] = "ok"
    BY DEF AgentOf
  <2>2. SomeoneLeft(ticket[u][2]) => SomeoneLeft(ticket[u][2])'
    <3>1. PICK r : r = ticket[u][2]
      OBVIOUS
    <3> QED BY <1>2, <2>1, <3>1 DEF SomeoneLeft
  <2> QED BY <2>1, <2>2 DEF KeptUnlessStranger
<1>4. EnteringInv'
  <2> SUFFICES ASSUME NEW u \in User \ strangers, eaEntering[u] # None
               PROVE  LET b == HostOf[eaEntering[u]]
                          q == ticket'[u][2]
                      IN  /\ eaRouter[b][q] = eaEntering[u] => eaOwner[b][q] = ticket'[u][1]
                          /\ ticket'[u][1] \notin given' =>
                               eaRouter[b][q] = eaEntering[u] \/ SomeoneLeft(ticket[u][2])'
    BY <1>1 DEF EnteringInv
  <2>1. ticket'[u] = ticket[u]
    OBVIOUS
  <2>2. SomeoneLeft(ticket[u][2]) => SomeoneLeft(ticket[u][2])'
    <3>1. PICK r : r = ticket[u][2]
      OBVIOUS
    <3> QED BY <1>2, <2>1, <3>1 DEF SomeoneLeft
  <2> QED BY <2>1, <2>2 DEF EnteringInv
<1> QED BY <1>1, <1>3, <1>4 DEF Ea!HostInv, Ea!UsedInv, Ea!HasRoom

\* The first requests under way stay those of users who wait or have left.
LEMMA AskedStays ==
  ASSUME AskedInv, UNCHANGED <<asked, eaEntering>>,
         \A u \in User : asked[u] # None \/ eaEntering[u] # None =>
           /\ place'[u] \in {"in", "gone"}
           /\ place'[u] = "in" => place[u] = "in" /\ AgentOf(u)' = AgentOf(u)
  PROVE  AskedInv'
  BY DEF AskedInv

\* A token.
LEMMA GiveTokenKeepsInv ==
  ASSUME FailoverInv, NEW u \in User, NEW r \in RoomId, NEW e \in Ec, GiveToken(u, r, e)
  PROVE  FailoverInv'
<1> USE DEF FailoverInv
<1>1. TypeOK'
  BY DEF TypeOK, Ea!TypeOK, GiveToken, eaVars, ecVars, historyVars
<1>2. RoomInv' /\ BroadcastInv' /\ GivenUpRoomsClosed'
  BY DEF RoomInv, BroadcastInv, GivenUpRoomsClosed, GiveToken, eaVars, historyVars
<1>3. place[u] = "out" /\ place' = place /\ \A v \in User \ {u} : ticket'[v] = ticket[v]
  BY DEF TypeOK, UserInv, GiveToken
<1>4. UserInv'
  BY <1>3 DEF TypeOK, UserInv, GiveToken, ecVars
<1>a. asked[u] = None /\ eaEntering[u] = None
  BY <1>3 DEF AskedInv
<1>5. KeptUnlessStranger' /\ EnteringInv' /\ Ea!HostInv' /\ Ea!UsedInv'
  BY <1>3, <1>a, OutsideKeepsKept DEF TypeOK, GiveToken, ecVars, historyVars
<1>6. AskedInv'
  <2>1. UNCHANGED <<asked, eaEntering, place, ecRoom>>
    BY DEF GiveToken, eaVars, ecVars
  <2> QED BY <1>3, <1>a, <2>1, AskedStays DEF AskedInv, AgentOf
<1> QED BY <1>1, <1>2, <1>4, <1>5, <1>6

\* An EC is given up: every EA is told.
LEMMA GiveUpKeepsInv ==
  ASSUME FailoverInv, NEW e \in Ec, GiveUp(e) \/ Crash(e)
  PROVE  FailoverInv'
<1> USE DEF FailoverInv
<1>1. TypeOK'
  BY DEF TypeOK, Ea!TypeOK, GiveUp, Crash, eaVars, nuveVars, ecVars, userVars, historyVars
<1>2. RoomInv' /\ UserInv'
  BY DEF RoomInv, UserInv, GiveUp, Crash, eaVars, ecVars, userVars
<1>3. BroadcastInv' /\ GivenUpRoomsClosed'
  <2>1. CASE GiveUp(e)
    BY <2>1 DEF TypeOK, BroadcastInv, GivenUpRoomsClosed, GiveUp, eaVars, historyVars
  <2>2. CASE Crash(e)
    BY <2>2 DEF BroadcastInv, GivenUpRoomsClosed, Crash, eaVars, nuveVars, historyVars
  <2> QED BY <2>1, <2>2
<1>4. KeptUnlessStranger' /\ EnteringInv' /\ Ea!HostInv' /\ Ea!UsedInv'
  BY OutsideKeepsKept DEF GiveUp, Crash, nuveVars, ecVars, userVars, historyVars
<1>5. AskedInv'
  BY AskedStays DEF AskedInv, AgentOf, GiveUp, Crash, eaVars, ecVars, userVars
<1> QED BY <1>1, <1>2, <1>3, <1>4, <1>5

\* Users on their way to an EA.
LEMMA UserKeepsInv ==
  ASSUME FailoverInv, NEW u \in User, AskForWorker(u) \/ EnterRoom(u) \/ RequestCaps(u)
  PROVE  FailoverInv'
<1> USE DEF FailoverInv
<1>1. TypeOK'
  <2> USE DEF TypeOK, Ea!TypeOK, eaVars, nuveVars, historyVars
  <2>1. CASE AskForWorker(u)
    <3>1. ticket[u] \in Ec \X RoomId
      BY <2>1 DEF AskForWorker
    <3> QED BY <2>1, <3>1 DEF AskForWorker, userVars
  <2>2. CASE EnterRoom(u)
    BY <2>2 DEF EnterRoom, ecVars
  <2>3. CASE RequestCaps(u)
    <3>1. AgentOf(u) \in Agent
      <4>1. ticket[u] \in Ec \X RoomId /\ ecRoom[ticket[u][1]][ticket[u][2]] # None
        BY <2>3 DEF RequestCaps, UserInv
      <4> QED BY <4>1 DEF AgentOf
    <3> QED BY <2>3, <3>1 DEF RequestCaps, ecVars
  <2> QED BY <2>1, <2>2, <2>3
<1>2. RoomInv' /\ BroadcastInv' /\ GivenUpRoomsClosed'
  BY DEF RoomInv, BroadcastInv, GivenUpRoomsClosed, AskForWorker, EnterRoom, RequestCaps,
     eaVars, nuveVars, historyVars
<1>3. /\ UNCHANGED <<up, ecRoom, ticket, leaving>>
      /\ \A v \in User : place'[v] = place[v]
           \/ /\ v = u /\ place[u] = "out" /\ place'[u] = "in"
              /\ ticket[u] # None /\ ecRoom[ticket[u][1]][ticket[u][2]] # None
  BY DEF TypeOK, UserInv, AskForWorker, EnterRoom, RequestCaps, ecVars, userVars
<1>4. UserInv'
  BY <1>3 DEF UserInv
<1>5. KeptUnlessStranger' /\ EnteringInv' /\ Ea!HostInv' /\ Ea!UsedInv'
  BY <1>3, OutsideKeepsKept DEF AskForWorker, EnterRoom, RequestCaps, nuveVars, historyVars
<1>6. AskedInv'
  <2>1. CASE AskForWorker(u) \/ EnterRoom(u)
    <3>1. UNCHANGED <<asked, eaEntering>>
      BY <2>1 DEF AskForWorker, EnterRoom, eaVars, userVars
    <3> QED BY <1>3, <3>1, AskedStays DEF AskedInv, AgentOf
  <2>2. CASE RequestCaps(u)
    <3>1. UNCHANGED <<eaEntering, place, ecRoom, ticket>> /\ place[u] = "in" /\ eaEntering[u] = None
      BY <2>2 DEF RequestCaps, eaVars, ecVars
    <3>2. asked' = [asked EXCEPT ![u] = AgentOf(u)] /\ asked \in [User -> Agent \cup {None}]
      BY <2>2 DEF RequestCaps, TypeOK
    <3> QED BY <3>1, <3>2 DEF AskedInv, AgentOf
  <2> QED BY <2>1, <2>2
<1> QED BY <1>1, <1>2, <1>4, <1>5, <1>6

\* A user leaves: the EC keeps the rooms of the others.
LEMMA LeaveKeepsInv ==
  ASSUME FailoverInv, NEW u \in User, Leave(u)
  PROVE  FailoverInv'
<1> USE DEF FailoverInv
<1>1. ticket[u] \in Ec \X RoomId /\ place' = [place EXCEPT ![u] = "gone"]
  BY DEF TypeOK, UserInv, Leave
<1>2. TypeOK'
  <2>1. ecRoom' \in [Ec -> [RoomId -> Router \cup {None}]]
    BY <1>1 DEF TypeOK, Leave
  <2> QED BY <1>1, <2>1 DEF TypeOK, Ea!TypeOK, Leave, eaVars, nuveVars, historyVars
<1>3. RoomInv' /\ BroadcastInv' /\ GivenUpRoomsClosed'
  BY DEF RoomInv, BroadcastInv, GivenUpRoomsClosed, Leave, eaVars, nuveVars, historyVars
<1>4. ASSUME NEW v \in User, place'[v] \in {"in", "ok", "error"}
      PROVE  /\ v # u /\ place[v] = place'[v] /\ ticket'[v] = ticket[v]
             /\ ecRoom'[ticket[v][1]][ticket[v][2]] = ecRoom[ticket[v][1]][ticket[v][2]]
  <2>1. v # u /\ place[v] = place'[v] /\ ticket' = ticket
    BY <1>1, <1>4 DEF TypeOK, Leave
  <2>2. ticket[v] \in Ec \X RoomId
    BY <1>4, <2>1 DEF TypeOK, UserInv
  <2>3. CASE ticket[v] = ticket[u]
    <3>1. v \in Users(ticket[u][1], ticket[u][2])
      BY <1>1, <1>4, <2>1, <2>3 DEF Users
    <3> QED BY <2>1, <3>1 DEF Leave
  <2>4. CASE ticket[v] # ticket[u]
    BY <1>1, <2>1, <2>2, <2>4 DEF TypeOK, Leave
  <2> QED BY <2>1, <2>3, <2>4
<1>5. UserInv'
  <2>1. leaving' = [a \in Agent |-> leaving[a] \cup {u}] /\ ticket' = ticket
    BY DEF Leave
  <2> QED BY <1>1, <1>4, <2>1 DEF TypeOK, UserInv
<1>a. \A v \in User : place[v] = "gone" => place'[v] = "gone"
  BY <1>1 DEF TypeOK
<1>b. UNCHANGED <<eaVars, strangers, up, given, ticket, asked, eaEntering>>
  BY DEF Leave, nuveVars, historyVars, eaVars
<1>6. KeptUnlessStranger' /\ EnteringInv' /\ Ea!HostInv' /\ Ea!UsedInv'
  BY <1>4, <1>a, <1>b, OutsideKeepsKept
<1>7. AskedInv'
  <2>1. \A v \in User : place'[v] = "in" => place[v] = "in" /\ AgentOf(v)' = AgentOf(v)
    BY <1>4 DEF AgentOf
  <2>2. \A v \in User : place[v] \in {"in", "gone"} => place'[v] \in {"in", "gone"}
    BY <1>1 DEF TypeOK
  <2> QED BY <1>b, <2>1, <2>2, AskedStays DEF AskedInv
<1> QED BY <1>2, <1>3, <1>5, <1>6, <1>7

\* A worker request is taken: a room that is there is answered with, and one that
\* is made has no user yet.
LEMMA TakeKeepsInv ==
  ASSUME FailoverInv, NEW a \in Agent, NEW e \in Ec, NEW r \in RoomId, TakeRequest(a, e, r)
  PROVE  FailoverInv'
<1> USE DEF FailoverInv
<1>1. \/ /\ eaVars' = eaVars /\ eaRouter[a][r] # None
      \/ \E w \in Router : /\ eaRouter[a][r] = None
                           /\ eaRouter' = [eaRouter EXCEPT ![a][r] = w]
                           /\ eaOwner' = [eaOwner EXCEPT ![a][r] = e]
                           /\ eaUsed' = eaUsed \cup {w}
                           /\ UNCHANGED <<eaClients, eaEntering, eaAstray, eaState>>
                           /\ HostOf[w] = a /\ w \notin eaUsed
  BY DEF TakeRequest, Ea!WorkOnRoom, Ea!WorkOnNewRoom, Ea!HasRoom, Ea!eaVars, eaVars
<1>2. Ea!TypeOK' /\ eaRouter'[a][r] \in Router
  <2>1. CASE eaVars' = eaVars /\ eaRouter[a][r] # None
    BY <2>1 DEF TypeOK, Ea!TypeOK, eaVars
  <2>2. ASSUME NEW w \in Router, eaRouter' = [eaRouter EXCEPT ![a][r] = w],
               eaOwner' = [eaOwner EXCEPT ![a][r] = e], eaUsed' = eaUsed \cup {w},
               UNCHANGED <<eaClients, eaEntering, eaAstray, eaState>>
        PROVE  Ea!TypeOK' /\ eaRouter'[a][r] \in Router
    BY <2>2 DEF TypeOK, Ea!TypeOK
  <2> QED BY <1>1, <2>1, <2>2
<1>3. /\ UNCHANGED <<nuveVars, up, userVars, strangers>>
      /\ ecRoom' = IF e \in up /\ ecRoom[e][r] = None
                     THEN [ecRoom EXCEPT ![e][r] = eaRouter'[a][r]] ELSE ecRoom
      /\ requests' = requests \ {<<e, r>>}
      /\ tardy' = IF eaRouter[a][r] = None /\ e \in given /\ e \notin broadcast[a]
                    THEN tardy \cup {<<a, r>>} ELSE tardy
  BY DEF TakeRequest, Ea!HasRoom
<1>4. TypeOK'
  <2>1. ecRoom' \in [Ec -> [RoomId -> Router \cup {None}]]
    BY <1>2, <1>3 DEF TypeOK
  <2> QED BY <1>2, <1>3, <2>1 DEF TypeOK, nuveVars, userVars
<1>a. /\ UNCHANGED <<eaClients, eaEntering, eaAstray>>
      /\ \A b \in Agent, q \in RoomId :
           \/ eaRouter'[b][q] = eaRouter[b][q] /\ eaOwner'[b][q] = eaOwner[b][q]
           \/ /\ b = a /\ q = r /\ eaRouter[a][r] = None
              /\ eaRouter'[a][r] # None /\ eaOwner'[a][r] = e /\ HostOf[eaRouter'[a][r]] = a
              /\ eaRouter'[a][r] \notin eaUsed /\ eaRouter'[a][r] \in eaUsed'
      /\ eaUsed \subseteq eaUsed'
  <2>1. CASE eaVars' = eaVars
    BY <2>1 DEF eaVars
  <2>2. ASSUME NEW w \in Router, eaRouter[a][r] = None, eaRouter' = [eaRouter EXCEPT ![a][r] = w],
               eaOwner' = [eaOwner EXCEPT ![a][r] = e], HostOf[w] = a, w \notin eaUsed,
               eaUsed' = eaUsed \cup {w},
               NEW b \in Agent, NEW q \in RoomId
        PROVE  \/ eaRouter'[b][q] = eaRouter[b][q] /\ eaOwner'[b][q] = eaOwner[b][q]
               \/ /\ b = a /\ q = r /\ eaRouter[a][r] = None
                  /\ eaRouter'[a][r] # None /\ eaOwner'[a][r] = e /\ HostOf[eaRouter'[a][r]] = a
                  /\ eaRouter'[a][r] \notin eaUsed /\ eaRouter'[a][r] \in eaUsed'
    BY <2>2 DEF TypeOK, Ea!TypeOK
  <2>3. UNCHANGED <<eaClients, eaEntering, eaAstray>> /\ eaUsed \subseteq eaUsed'
    BY <1>1 DEF eaVars
  <2> QED BY <1>1, <2>1, <2>2, <2>3
<1>5. RoomInv' /\ BroadcastInv'
  BY <1>3, <1>a DEF RoomInv, BroadcastInv, nuveVars
<1>6. GivenUpRoomsClosed'
  BY <1>3, <1>a DEF GivenUpRoomsClosed, nuveVars
<1>7. \A v \in User : place[v] \in {"in", "ok", "error"} =>
        /\ ecRoom[ticket[v][1]][ticket[v][2]] # None
        /\ ecRoom'[ticket[v][1]][ticket[v][2]] = ecRoom[ticket[v][1]][ticket[v][2]]
        /\ ticket[v] \in Ec \X RoomId
  BY <1>3 DEF TypeOK, UserInv
<1>8. UserInv'
  BY <1>3, <1>7 DEF UserInv, userVars
<1>b. \A q : SomeoneLeft(q)' <=> SomeoneLeft(q)
  BY <1>3 DEF SomeoneLeft, userVars
<1>9. KeptUnlessStranger'
  <2> SUFFICES ASSUME NEW u \in User \ strangers, place[u] = "ok", ticket[u][1] \in up \ given
               PROVE  \/ /\ u \in eaClients[AgentOf(u)'][ticket[u][2]]
                         /\ eaOwner'[AgentOf(u)'][ticket[u][2]] = ticket[u][1]
                      \/ u \in eaAstray /\ SomeoneLeft(ticket[u][2])
    BY <1>3, <1>a, <1>b DEF KeptUnlessStranger, nuveVars, userVars
  <2>1. AgentOf(u)' = AgentOf(u) /\ AgentOf(u) \in Agent /\ ticket[u] \in Ec \X RoomId
    BY <1>3, <1>7 DEF TypeOK, AgentOf, userVars
  <2>2. CASE /\ u \in eaClients[AgentOf(u)][ticket[u][2]]
             /\ eaOwner[AgentOf(u)][ticket[u][2]] = ticket[u][1]
    <3>1. eaRouter[AgentOf(u)][ticket[u][2]] # None
      BY <2>1, <2>2 DEF RoomInv
    <3> QED BY <1>a, <2>1, <2>2, <3>1
  <2> QED BY <2>2 DEF KeptUnlessStranger
<1>10. EnteringInv'
  <2> SUFFICES ASSUME NEW u \in User \ strangers, eaEntering[u] # None
               PROVE  LET b == HostOf[eaEntering[u]]
                          q == ticket[u][2]
                      IN  /\ eaRouter'[b][q] = eaEntering[u] => eaOwner'[b][q] = ticket[u][1]
                          /\ ticket[u][1] \notin given => eaRouter'[b][q] = eaEntering[u] \/ SomeoneLeft(q)
    BY <1>3, <1>a, <1>b DEF EnteringInv, nuveVars, userVars
  <2>1. eaEntering[u] \in Router /\ eaEntering[u] \in eaUsed
    BY DEF TypeOK, Ea!TypeOK, Ea!UsedInv
  <2>2. HostOf[eaEntering[u]] \in Agent /\ ticket[u] \in Ec \X RoomId
    BY <2>1 DEF TypeOK, AskedInv, UserInv
  <2> QED BY <1>a, <2>1, <2>2 DEF EnteringInv
<1>11. AskedInv' /\ Ea!HostInv' /\ Ea!UsedInv'
  <2>1. \A u \in User : place[u] = "in" => AgentOf(u)' = AgentOf(u)
    BY <1>3, <1>7 DEF AgentOf, userVars
  <2>2. AskedInv'
    BY <1>3, <1>a, <2>1, AskedStays DEF AskedInv, userVars
  <2>3. Ea!HostInv'
    BY <1>a DEF Ea!HostInv, Ea!HasRoom
  <2>4. Ea!UsedInv'
    BY <1>a DEF Ea!UsedInv
  <2> QED BY <2>2, <2>3, <2>4
<1> QED BY <1>4, <1>5, <1>6, <1>8, <1>9, <1>10, <1>11

\* A first request finds the room there is, or none.
LEMMA CapsKeepsInv ==
  ASSUME FailoverInv, NEW u \in User, HandleCaps(u)
  PROVE  FailoverInv'
<1> USE DEF FailoverInv
<1> DEFINE a == asked[u]
           r == ticket[u][2]
<1>1. /\ ticket[u] \in Ec \X RoomId /\ a \in Agent /\ r \in RoomId
      /\ place[u] \in {"in", "gone"} /\ eaEntering[u] = None
      /\ place[u] = "in" => a = AgentOf(u)
  BY DEF TypeOK, UserInv, AskedInv, HandleCaps
<1>2. /\ UNCHANGED <<nuveVars, ecVars, ticket, leaving, tardy,
                     eaRouter, eaOwner, eaClients, eaAstray, eaUsed, eaState>>
      /\ asked' = [asked EXCEPT ![u] = None]
  BY DEF HandleCaps, Ea!FindRoom, eaVars
<1>3. \/ /\ eaRouter[a][r] # None
         /\ eaEntering' = [eaEntering EXCEPT ![u] = eaRouter[a][r]]
         /\ place' = place
         /\ strangers' = IF eaOwner[a][r] # ticket[u][1] THEN strangers \cup {u} ELSE strangers
      \/ /\ place' = IF place[u] = "in" THEN [place EXCEPT ![u] = "error"] ELSE place
         /\ UNCHANGED <<eaEntering, strangers>>
  BY DEF HandleCaps, Answered, Ea!HasRoom, Ea!FindRoom, eaVars
<1>4. /\ eaRouter[a][r] \in Router \cup {None} /\ eaRouter[a][r] \in eaUsed \cup {None}
      /\ eaRouter[a][r] # None => HostOf[eaRouter[a][r]] = a
  BY <1>1 DEF TypeOK, Ea!TypeOK, Ea!HostInv, Ea!UsedInv, Ea!HasRoom
<1> HIDE DEF a, r
<1>5. /\ \A v \in User \ {u} : /\ place'[v] = place[v] /\ asked'[v] = asked[v]
                               /\ eaEntering'[v] = eaEntering[v]
      /\ asked'[u] = None
      /\ strangers \subseteq strangers' /\ strangers' \subseteq User
      /\ \/ /\ eaEntering'[u] = eaRouter[a][r] /\ eaRouter[a][r] # None /\ place'[u] = place[u]
            /\ u \notin strangers' => eaOwner[a][r] = ticket[u][1]
         \/ /\ eaEntering'[u] = None
            /\ \/ place[u] = "in" /\ place'[u] = "error"
               \/ place[u] = "gone" /\ place'[u] = "gone"
            /\ strangers' = strangers
  BY <1>1, <1>2, <1>3 DEF TypeOK, Ea!TypeOK
<1>6. TypeOK'
  <2>1. /\ place' \in [User -> {"out", "in", "ok", "error", "gone"}]
        /\ asked' \in [User -> Agent \cup {None}] /\ strangers' \subseteq User
    BY <1>2, <1>3, <1>5 DEF TypeOK
  <2>2. eaEntering' \in [User -> Router \cup {None}]
    BY <1>3, <1>4 DEF TypeOK, Ea!TypeOK
  <2> QED BY <1>2, <2>1, <2>2 DEF TypeOK, Ea!TypeOK, nuveVars, ecVars
<1>7. RoomInv' /\ BroadcastInv' /\ GivenUpRoomsClosed' /\ Ea!HostInv' /\ Ea!UsedInv'
  <2>1. RoomInv' /\ BroadcastInv' /\ GivenUpRoomsClosed' /\ Ea!HostInv'
    BY <1>2 DEF RoomInv, BroadcastInv, GivenUpRoomsClosed, Ea!HostInv, Ea!HasRoom, nuveVars
  <2>2. Ea!UsedInv'
    BY <1>2, <1>4, <1>5 DEF Ea!UsedInv
  <2> QED BY <2>1, <2>2
<1>8. UserInv'
  BY <1>1, <1>2, <1>5 DEF UserInv, ecVars
<1>9. \A v \in User : AgentOf(v)' = AgentOf(v)
  BY <1>2 DEF AgentOf, ecVars
<1>10. AskedInv'
  BY <1>1, <1>4, <1>5, <1>9 DEF AskedInv
<1>11. ASSUME NEW q, SomeoneLeft(q) PROVE SomeoneLeft(q)'
  <2>1. \A v \in User : place[v] = "gone" => place'[v] = "gone"
    BY <1>1, <1>5
  <2> QED BY <1>2, <1>11, <2>1 DEF SomeoneLeft
<1>12. EnteringInv'
  <2> SUFFICES ASSUME NEW v \in User \ strangers', eaEntering'[v] # None
               PROVE  LET b == HostOf[eaEntering'[v]]
                          q == ticket[v][2]
                      IN  /\ eaRouter[b][q] = eaEntering'[v] => eaOwner[b][q] = ticket[v][1]
                          /\ ticket[v][1] \notin given =>
                               eaRouter[b][q] = eaEntering'[v] \/ SomeoneLeft(ticket[v][2])'
    BY <1>2 DEF EnteringInv, nuveVars
  <2>1. CASE v = u
    BY <1>4, <1>5, <2>1 DEF r
  <2>2. CASE v # u
    <3>1. SomeoneLeft(ticket[v][2]) => SomeoneLeft(ticket[v][2])'
      <4>1. PICK q : q = ticket[v][2]
        OBVIOUS
      <4> QED BY <1>2, <1>11, <4>1 DEF SomeoneLeft
    <3> QED BY <1>5, <2>2, <3>1 DEF EnteringInv
  <2> QED BY <2>1, <2>2
<1>13. KeptUnlessStranger'
  <2> SUFFICES ASSUME NEW v \in User \ strangers', place'[v] = "ok", ticket[v][1] \in up \ given
               PROVE  \/ /\ v \in eaClients[AgentOf(v)][ticket[v][2]]
                         /\ eaOwner[AgentOf(v)][ticket[v][2]] = ticket[v][1]
                      \/ v \in eaAstray /\ SomeoneLeft(ticket[v][2])'
    BY <1>2, <1>9 DEF KeptUnlessStranger, nuveVars, ecVars
  <2>1. v # u /\ place[v] = "ok" /\ v \notin strangers
    BY <1>1, <1>5
  <2>2. SomeoneLeft(ticket[v][2]) => SomeoneLeft(ticket[v][2])'
    <3>1. PICK q : q = ticket[v][2]
      OBVIOUS
    <3> QED BY <1>2, <1>11, <3>1 DEF SomeoneLeft
  <2> QED BY <2>1, <2>2 DEF KeptUnlessStranger
<1> QED BY <1>6, <1>7, <1>8, <1>10, <1>12, <1>13

\* The client goes into the Room that was found, open or closed meanwhile.
LEMMA AnswerCapsKeepsInv ==
  ASSUME FailoverInv, NEW u \in User, AnswerCaps(u)
  PROVE  FailoverInv'
<1> USE DEF FailoverInv
<1> DEFINE a == HostOf[eaEntering[u]]
           r == ticket[u][2]
<1>1. /\ eaEntering[u] \in Router /\ place[u] \in {"in", "gone"} /\ asked[u] = None
      /\ ticket[u] \in Ec \X RoomId /\ a \in Agent /\ r \in RoomId
      /\ place[u] = "in" => a = AgentOf(u)
  <2>1. eaEntering[u] \in Router /\ place[u] \in {"in", "gone"} /\ asked[u] = None
    BY DEF TypeOK, Ea!TypeOK, AskedInv, AnswerCaps
  <2>2. ticket[u] \in Ec \X RoomId
    BY <2>1 DEF TypeOK, UserInv
  <2> QED BY <2>1, <2>2 DEF AskedInv
<1>2. /\ UNCHANGED <<nuveVars, ecVars, ticket, asked, leaving, historyVars,
                     eaRouter, eaOwner, eaUsed, eaState>>
      /\ eaEntering' = [eaEntering EXCEPT ![u] = None]
      /\ place' = IF place[u] = "in" THEN [place EXCEPT ![u] = "ok"] ELSE place
      /\ \/ /\ eaRouter[a][r] = eaEntering[u] /\ eaAstray' = eaAstray
            /\ eaClients' = [eaClients EXCEPT ![a][r] = @ \cup {u}]
         \/ /\ eaRouter[a][r] # eaEntering[u] /\ eaAstray' = eaAstray \cup {u}
            /\ eaClients' = eaClients
  BY DEF AnswerCaps, Answered, Ea!AddUser
<1>3. /\ u \notin strangers /\ ticket[u][1] \notin given =>
           eaRouter[a][r] = eaEntering[u] \/ SomeoneLeft(r)
      /\ u \notin strangers /\ eaRouter[a][r] = eaEntering[u] => eaOwner[a][r] = ticket[u][1]
  BY <1>1 DEF EnteringInv
<1> HIDE DEF a, r
<1>4. /\ \A v \in User \ {u} : place'[v] = place[v] /\ eaEntering'[v] = eaEntering[v]
      /\ eaEntering'[u] = None
      /\ \/ place[u] = "in" /\ place'[u] = "ok"
         \/ place[u] = "gone" /\ place'[u] = "gone"
      /\ place' \in [User -> {"out", "in", "ok", "error", "gone"}]
      /\ eaEntering' \in [User -> Router \cup {None}]
      /\ eaAstray \subseteq eaAstray' /\ eaAstray' \subseteq User
  BY <1>1, <1>2 DEF TypeOK, Ea!TypeOK
<1>5. /\ eaClients' \in [Agent -> [RoomId -> SUBSET User]]
      /\ \A b \in Agent, q \in RoomId : eaClients[b][q] \subseteq eaClients'[b][q]
      /\ \/ u \in eaClients'[a][r] /\ eaRouter[a][r] = eaEntering[u]
         \/ u \in eaAstray' /\ eaRouter[a][r] # eaEntering[u]
  <2>1. eaClients \in [Agent -> [RoomId -> SUBSET User]]
    BY DEF TypeOK, Ea!TypeOK
  <2>2. CASE eaClients' = eaClients /\ eaAstray' = eaAstray \cup {u} /\ eaRouter[a][r] # eaEntering[u]
    BY <2>1, <2>2
  <2>3. CASE eaClients' = [eaClients EXCEPT ![a][r] = @ \cup {u}] /\ eaRouter[a][r] = eaEntering[u]
    <3>1. eaClients' = [eaClients EXCEPT ![a] = [eaClients[a] EXCEPT ![r] = eaClients[a][r] \cup {u}]]
      BY <2>3
    <3>2. eaClients'[a][r] = eaClients[a][r] \cup {u}
      BY <1>1, <2>1, <3>1
    <3>3. \A b \in Agent, q \in RoomId : b # a \/ q # r => eaClients'[b][q] = eaClients[b][q]
      BY <1>1, <2>1, <3>1
    <3>4. eaClients' \in [Agent -> [RoomId -> SUBSET User]]
      BY <1>1, <2>1, <3>1
    <3> QED BY <2>3, <3>2, <3>3, <3>4
  <2> QED BY <1>2, <2>2, <2>3
<1>6. TypeOK'
  BY <1>2, <1>4, <1>5 DEF TypeOK, Ea!TypeOK, nuveVars, ecVars, historyVars
<1>7. RoomInv' /\ BroadcastInv' /\ GivenUpRoomsClosed' /\ Ea!HostInv' /\ Ea!UsedInv'
  <2>1. RoomInv' /\ BroadcastInv' /\ GivenUpRoomsClosed' /\ Ea!HostInv'
    BY <1>2 DEF RoomInv, BroadcastInv, GivenUpRoomsClosed, Ea!HostInv, Ea!HasRoom, nuveVars, historyVars
  <2>2. Ea!UsedInv'
    BY <1>2, <1>4 DEF Ea!UsedInv
  <2> QED BY <2>1, <2>2
<1>8. UserInv'
  BY <1>1, <1>2, <1>4 DEF UserInv, ecVars
<1>9. \A v \in User : AgentOf(v)' = AgentOf(v)
  BY <1>2 DEF AgentOf, ecVars
<1>10. AskedInv'
  BY <1>1, <1>2, <1>4, <1>9 DEF AskedInv
<1>11. \A q : SomeoneLeft(q) <=> SomeoneLeft(q)'
  <2>1. \A v \in User : place[v] = "gone" <=> place'[v] = "gone"
    BY <1>4
  <2> QED BY <1>2, <2>1 DEF SomeoneLeft
<1>12. EnteringInv'
  BY <1>2, <1>4, <1>11 DEF EnteringInv, nuveVars, historyVars
<1>13. KeptUnlessStranger'
  <2> SUFFICES ASSUME NEW v \in User \ strangers, place'[v] = "ok", ticket[v][1] \in up \ given
               PROVE  \/ /\ v \in eaClients'[AgentOf(v)][ticket[v][2]]
                         /\ eaOwner[AgentOf(v)][ticket[v][2]] = ticket[v][1]
                      \/ v \in eaAstray' /\ SomeoneLeft(ticket[v][2])
    BY <1>2, <1>9, <1>11 DEF KeptUnlessStranger, nuveVars, ecVars, historyVars
  <2>1. CASE v = u
    BY <1>1, <1>3, <1>4, <1>5, <2>1 DEF r
  <2>2. CASE v # u
    <3>1. place[v] = "ok"
      BY <1>4, <2>2
    <3>2. ticket[v] \in Ec \X RoomId
      BY <3>1 DEF TypeOK, UserInv
    <3>3. AgentOf(v) \in Agent
      BY <3>1, <3>2 DEF TypeOK, UserInv, AgentOf
    <3> QED BY <1>4, <1>5, <3>1, <3>2, <3>3 DEF KeptUnlessStranger
  <2> QED BY <2>1, <2>2
<1> QED BY <1>6, <1>7, <1>8, <1>10, <1>12, <1>13

\* Rooms change at one EA and no Room moves or comes: what keeps the users there
\* and the requests being handled.
LEMMA ClosingKeepsKept ==
  ASSUME TypeOK, UserInv, AskedInv, KeptUnlessStranger, EnteringInv, Ea!HostInv, Ea!UsedInv,
         UNCHANGED <<up, given, ecRoom, ticket, place, asked, strangers,
                     eaEntering, eaAstray, eaUsed>>,
         \A b \in Agent, q \in RoomId :
           \/ /\ eaRouter'[b][q] = eaRouter[b][q] /\ eaOwner'[b][q] = eaOwner[b][q]
              /\ \A u \in User : place[u] = "ok" /\ u \in eaClients[b][q] => u \in eaClients'[b][q]
           \/ /\ eaRouter'[b][q] = None
              /\ \/ eaOwner[b][q] \in given
                 \/ /\ SomeoneLeft(q)
                    /\ \A u \in User : place[u] = "ok" => u \notin eaClients[b][q]
  PROVE  KeptUnlessStranger' /\ EnteringInv' /\ AskedInv' /\ Ea!HostInv' /\ Ea!UsedInv'
<1>1. \A q : SomeoneLeft(q)' <=> SomeoneLeft(q)
  BY DEF SomeoneLeft
<1>2. KeptUnlessStranger'
  <2> SUFFICES ASSUME NEW u \in User \ strangers, place[u] = "ok", ticket[u][1] \in up \ given
               PROVE  \/ /\ u \in eaClients'[AgentOf(u)][ticket[u][2]]
                         /\ eaOwner'[AgentOf(u)][ticket[u][2]] = ticket[u][1]
                      \/ u \in eaAstray /\ SomeoneLeft(ticket[u][2])
    BY <1>1 DEF KeptUnlessStranger, AgentOf
  <2>1. ticket[u] \in Ec \X RoomId
    BY DEF TypeOK, UserInv
  <2>2. ecRoom[ticket[u][1]][ticket[u][2]] \in Router
    BY <2>1 DEF TypeOK, UserInv
  <2>3. AgentOf(u) \in Agent /\ ticket[u][2] \in RoomId
    BY <2>1, <2>2 DEF AgentOf
  <2> QED BY <2>3 DEF KeptUnlessStranger
<1>3. EnteringInv'
  <2> SUFFICES ASSUME NEW u \in User \ strangers, eaEntering[u] # None
               PROVE  LET b == HostOf[eaEntering[u]]
                          q == ticket[u][2]
                      IN  /\ eaRouter'[b][q] = eaEntering[u] => eaOwner'[b][q] = ticket[u][1]
                          /\ ticket[u][1] \notin given => eaRouter'[b][q] = eaEntering[u] \/ SomeoneLeft(q)
    BY <1>1 DEF EnteringInv
  <2>1. eaEntering[u] \in Router
    BY DEF TypeOK, Ea!TypeOK
  <2>2. HostOf[eaEntering[u]] \in Agent /\ ticket[u] \in Ec \X RoomId
    BY <2>1 DEF TypeOK, AskedInv, UserInv
  <2> QED BY <2>1, <2>2 DEF EnteringInv
<1>4. AskedInv'
  BY DEF AskedInv, AgentOf
<1>5. Ea!HostInv' /\ Ea!UsedInv'
  BY DEF Ea!HostInv, Ea!UsedInv, Ea!HasRoom
<1> QED BY <1>2, <1>3, <1>4, <1>5

\* A user who is gone is deleted: a room with others in it stays.
LEMMA DeleteUserKeepsInv ==
  ASSUME FailoverInv, NEW a \in Agent, NEW v \in User, HandleDeleteUser(a, v)
  PROVE  FailoverInv'
<1> USE DEF FailoverInv
<1> DEFINE r == ticket[v][2]
           empty == eaClients[a][r] \subseteq {v}
<1>1. v \in leaving[a] /\ place[v] = "gone" /\ ticket[v] \in Ec \X RoomId
  BY DEF TypeOK, UserInv, HandleDeleteUser
<1>2. /\ leaving' = [leaving EXCEPT ![a] = @ \ {v}]
      /\ tardy' = {k \in tardy : k[1] # a \/ eaRouter'[a][k[2]] # None}
      /\ UNCHANGED <<nuveVars, ecVars, ticket, place, asked, strangers, eaEntering, eaAstray>>
  BY DEF HandleDeleteUser, Ea!DeleteUser, eaVars
<1>3. \/ eaVars' = eaVars
      \/ /\ empty /\ UNCHANGED <<eaEntering, eaAstray, eaUsed, eaState>>
         /\ eaRouter' = [eaRouter EXCEPT ![a][r] = None]
         /\ eaOwner' = [eaOwner EXCEPT ![a][r] = None]
         /\ eaClients' = [eaClients EXCEPT ![a][r] = {}]
      \/ /\ ~empty /\ UNCHANGED <<eaEntering, eaAstray, eaUsed, eaState, eaRouter, eaOwner>>
         /\ eaClients' = [eaClients EXCEPT ![a][r] = @ \ {v}]
  BY DEF HandleDeleteUser, Ea!DeleteUser, Ea!EmptyWithout, Ea!HasRoom, eaVars
<1>4. /\ Ea!TypeOK'
      /\ \A b \in Agent, q \in RoomId :
           \/ /\ eaRouter'[b][q] = eaRouter[b][q] /\ eaOwner'[b][q] = eaOwner[b][q]
              /\ eaClients'[b][q] = eaClients[b][q]
           \/ /\ b = a /\ q = r /\ empty
              /\ eaRouter'[a][r] = None /\ eaOwner'[a][r] = None
           \/ /\ b = a /\ q = r /\ ~empty /\ eaClients'[a][r] = eaClients[a][r] \ {v}
              /\ eaRouter'[a][r] = eaRouter[a][r] /\ eaOwner'[a][r] = eaOwner[a][r]
  <2> r \in RoomId
    BY <1>1
  <2> Ea!TypeOK
    BY DEF TypeOK
  <2> HIDE DEF FailoverInv, r, empty
  <2>1. CASE eaVars' = eaVars
    BY <2>1 DEF Ea!TypeOK, eaVars
  <2>2. CASE /\ empty /\ UNCHANGED <<eaEntering, eaAstray, eaUsed, eaState>>
             /\ eaRouter' = [eaRouter EXCEPT ![a][r] = None]
             /\ eaOwner' = [eaOwner EXCEPT ![a][r] = None]
             /\ eaClients' = [eaClients EXCEPT ![a][r] = {}]
    <3>1. /\ eaRouter' = [eaRouter EXCEPT ![a] = [eaRouter[a] EXCEPT ![r] = None]]
          /\ eaOwner' = [eaOwner EXCEPT ![a] = [eaOwner[a] EXCEPT ![r] = None]]
          /\ eaClients' = [eaClients EXCEPT ![a] = [eaClients[a] EXCEPT ![r] = {}]]
      BY <2>2
    <3> QED BY <2>2, <3>1 DEF Ea!TypeOK
  <2>3. CASE /\ ~empty /\ UNCHANGED <<eaEntering, eaAstray, eaUsed, eaState, eaRouter, eaOwner>>
             /\ eaClients' = [eaClients EXCEPT ![a][r] = @ \ {v}]
    <3>1. eaClients' = [eaClients EXCEPT ![a] = [eaClients[a] EXCEPT ![r] = eaClients[a][r] \ {v}]]
      BY <2>3
    <3> QED BY <2>3, <3>1 DEF Ea!TypeOK
  <2> QED BY <1>3, <2>1, <2>2, <2>3
<1>5. TypeOK'
  <2>1. leaving' \in [Agent -> SUBSET User] /\ tardy' \subseteq Agent \X RoomId
    BY <1>2 DEF TypeOK
  <2> QED BY <1>2, <1>4, <2>1 DEF TypeOK, nuveVars, ecVars
<1>6. RoomInv' /\ BroadcastInv'
  BY <1>2, <1>4 DEF RoomInv, BroadcastInv, nuveVars
<1>7. GivenUpRoomsClosed'
  <2> SUFFICES ASSUME NEW b \in Agent, NEW q \in RoomId, eaOwner'[b][q] \in given
               PROVE  eaOwner'[b][q] \in broadcast[b] \/ <<b, q>> \in tardy'
    BY <1>2 DEF GivenUpRoomsClosed, nuveVars
  <2>1. None \notin given
    BY DEF TypeOK
  <2>2. eaOwner'[b][q] = eaOwner[b][q] /\ eaRouter'[b][q] = eaRouter[b][q]
    BY <1>4, <2>1
  <2>3. eaRouter'[b][q] # None
    BY <2>1, <2>2 DEF RoomInv
  <2>4. <<b, q>> \in tardy => <<b, q>> \in tardy'
    BY <1>2, <2>3
  <2> QED BY <2>2, <2>4 DEF GivenUpRoomsClosed
<1>8. UserInv'
  <2>1. \A b \in Agent : leaving'[b] \subseteq leaving[b]
    BY <1>2 DEF TypeOK
  <2> QED BY <1>2, <2>1 DEF UserInv, ecVars
<1>9. KeptUnlessStranger' /\ EnteringInv' /\ AskedInv' /\ Ea!HostInv' /\ Ea!UsedInv'
  <2>1. (\A u \in User : place[u] = "ok" => u # v) /\ SomeoneLeft(r) /\ eaUsed' = eaUsed
    BY <1>1, <1>3 DEF SomeoneLeft, eaVars
  <2> HIDE DEF r
  <2>2. ASSUME NEW b \in Agent, NEW q \in RoomId
        PROVE  \/ /\ eaRouter'[b][q] = eaRouter[b][q] /\ eaOwner'[b][q] = eaOwner[b][q]
                  /\ \A u \in User : place[u] = "ok" /\ u \in eaClients[b][q] => u \in eaClients'[b][q]
               \/ /\ eaRouter'[b][q] = None
                  /\ \/ eaOwner[b][q] \in given
                     \/ /\ SomeoneLeft(q)
                        /\ \A u \in User : place[u] = "ok" => u \notin eaClients[b][q]
    BY <1>4, <2>1
  <2> QED BY <1>2, <2>1, <2>2, ClosingKeepsKept DEF nuveVars, ecVars
<1> QED BY <1>5, <1>6, <1>7, <1>8, <1>9

\* handleEcDown closes the rooms made for an EC that was given up.
LEMMA EcDownKeepsInv ==
  ASSUME FailoverInv, NEW a \in Agent, NEW e \in Ec, HandleEcDown(a, e)
  PROVE  FailoverInv'
<1> USE DEF FailoverInv
<1>1. e \in broadcast[a] /\ e \in given
  BY DEF BroadcastInv, HandleEcDown
<1>2. /\ broadcast' = [broadcast EXCEPT ![a] = @ \ {e}]
      /\ UNCHANGED <<given, assigned, ecVars, userVars, historyVars, eaEntering, eaAstray, eaUsed>>
  BY DEF HandleEcDown, Ea!HandleEcDown
<1>3. /\ Ea!TypeOK'
      /\ \A b \in Agent, q \in RoomId :
           \/ /\ b # a \/ eaOwner[a][q] # e
              /\ eaRouter'[b][q] = eaRouter[b][q] /\ eaOwner'[b][q] = eaOwner[b][q]
              /\ eaClients'[b][q] = eaClients[b][q]
           \/ /\ b = a /\ eaOwner[a][q] = e
              /\ eaRouter'[a][q] = None /\ eaOwner'[a][q] = None
  <2> DEFINE down == {q \in RoomId : eaRouter[a][q] # None /\ eaOwner[a][q] = e}
  <2>1. /\ eaRouter' = [eaRouter EXCEPT ![a] = [q \in RoomId |-> IF q \in down THEN None ELSE eaRouter[a][q]]]
        /\ eaOwner' = [eaOwner EXCEPT ![a] = [q \in RoomId |-> IF q \in down THEN None ELSE eaOwner[a][q]]]
        /\ eaClients' = [eaClients EXCEPT ![a] = [q \in RoomId |-> IF q \in down THEN {} ELSE eaClients[a][q]]]
        /\ UNCHANGED <<eaEntering, eaAstray, eaUsed, eaState>>
    BY DEF HandleEcDown, Ea!HandleEcDown, Ea!HasRoom
  <2>2. \A q \in RoomId : q \in down <=> eaOwner[a][q] = e
    BY DEF RoomInv
  <2>3. Ea!TypeOK
    BY DEF TypeOK
  <2> HIDE DEF FailoverInv, down
  <2>4. Ea!TypeOK'
    BY <2>1, <2>3 DEF Ea!TypeOK
  <2>5. ASSUME NEW b \in Agent, NEW q \in RoomId, b = a, eaOwner[a][q] = e
        PROVE  eaRouter'[a][q] = None /\ eaOwner'[a][q] = None
    BY <2>1, <2>2, <2>3, <2>5 DEF Ea!TypeOK
  <2>6. ASSUME NEW b \in Agent, NEW q \in RoomId, b # a \/ eaOwner[a][q] # e
        PROVE  /\ eaRouter'[b][q] = eaRouter[b][q] /\ eaOwner'[b][q] = eaOwner[b][q]
               /\ eaClients'[b][q] = eaClients[b][q]
    BY <2>1, <2>2, <2>3, <2>6 DEF Ea!TypeOK
  <2> QED BY <2>4, <2>5, <2>6
<1>4. TypeOK'
  <2>1. broadcast' \in [Agent -> SUBSET Ec]
    BY <1>2 DEF TypeOK
  <2> QED BY <1>2, <1>3, <2>1 DEF TypeOK, ecVars, userVars, historyVars
<1>5. \A b \in Agent : broadcast'[b] = IF b = a THEN broadcast[a] \ {e} ELSE broadcast[b]
  BY <1>2 DEF TypeOK
<1>6. RoomInv' /\ BroadcastInv' /\ UserInv'
  BY <1>2, <1>3, <1>5 DEF RoomInv, BroadcastInv, UserInv, ecVars, userVars
<1>7. GivenUpRoomsClosed'
  <2>1. None \notin given
    BY DEF TypeOK
  <2> QED BY <1>2, <1>3, <1>5, <2>1 DEF GivenUpRoomsClosed, historyVars
<1>8. KeptUnlessStranger' /\ EnteringInv' /\ AskedInv' /\ Ea!HostInv' /\ Ea!UsedInv'
  BY <1>1, <1>2, <1>3, ClosingKeepsKept DEF ecVars, userVars, historyVars
<1> QED BY <1>4, <1>6, <1>7, <1>8

\* Every step keeps the invariant.
LEMMA NextKeepsInv == FailoverInv /\ [Next]_vars => FailoverInv'
<1> SUFFICES ASSUME FailoverInv, [Next]_vars PROVE FailoverInv'
  OBVIOUS
<1>1. CASE UNCHANGED vars
  <2> USE <1>1 DEF FailoverInv, vars, eaVars, nuveVars, ecVars, userVars, historyVars
  <2>1. TypeOK'
    BY DEF TypeOK, Ea!TypeOK
  <2>2. RoomInv' /\ BroadcastInv' /\ UserInv' /\ GivenUpRoomsClosed'
    BY DEF RoomInv, BroadcastInv, UserInv, GivenUpRoomsClosed
  <2>3. KeptUnlessStranger'
    BY DEF KeptUnlessStranger, AgentOf, SomeoneLeft
  <2>4. AskedInv' /\ EnteringInv'
    BY DEF AskedInv, EnteringInv, AgentOf, SomeoneLeft
  <2>5. Ea!HostInv' /\ Ea!UsedInv'
    BY DEF Ea!HostInv, Ea!UsedInv, Ea!HasRoom
  <2> QED BY <2>1, <2>2, <2>3, <2>4, <2>5
<1>2. ASSUME NEW e \in Ec, GiveUp(e) \/ Crash(e) PROVE FailoverInv'
  BY <1>2, GiveUpKeepsInv
<1>3. ASSUME NEW u \in User, NEW r \in RoomId, NEW e \in Ec, GiveToken(u, r, e) PROVE FailoverInv'
  BY <1>3, GiveTokenKeepsInv
<1>4. ASSUME NEW u \in User, AskForWorker(u) \/ EnterRoom(u) \/ RequestCaps(u) PROVE FailoverInv'
  BY <1>4, UserKeepsInv
<1>5. ASSUME NEW u \in User, HandleCaps(u) \/ AnswerCaps(u) \/ Leave(u) PROVE FailoverInv'
  BY <1>5, CapsKeepsInv, AnswerCapsKeepsInv, LeaveKeepsInv
<1>6. ASSUME NEW a \in Agent, NEW e \in Ec, NEW r \in RoomId, TakeRequest(a, e, r) PROVE FailoverInv'
  BY <1>6, TakeKeepsInv
<1>7. ASSUME NEW a \in Agent, NEW u \in User, HandleDeleteUser(a, u) PROVE FailoverInv'
  BY <1>7, DeleteUserKeepsInv
<1>8. ASSUME NEW a \in Agent, NEW e \in Ec, HandleEcDown(a, e) PROVE FailoverInv'
  BY <1>8, EcDownKeepsInv
<1> QED BY <1>1, <1>2, <1>3, <1>4, <1>5, <1>6, <1>7, <1>8 DEF Next

\* The invariant of every behaviour.
THEOREM FailoverInvariance == Spec => []FailoverInv
<1> QED BY InitEstablishesInv, NextKeepsInv, PTL DEF Spec

\* ECs, EAs and users keep to their types when ECs are given up.
THEOREM TypeCorrect == Spec => []TypeOK
<1>1. FailoverInv => TypeOK
  BY DEF FailoverInv
<1> QED BY <1>1, FailoverInvariance, PTL

\* A user answered 'success' is in a room of its own EC while that EC lives and is
\* not given up, whatever deleteUser and handleEcDown of the EA do between the
\* lookup of the room, the insertion and later; only somebody who left may have
\* closed the room during the request.
THEOREM UsersAreKept == Spec => []KeptUnlessStranger
<1>1. FailoverInv => KeptUnlessStranger
  BY DEF FailoverInv
<1> QED BY <1>1, FailoverInvariance, PTL

\* The rooms of an EC that was given up are about to be closed (handleEcDown),
\* but for those made after the announcement.
THEOREM RoomsAreClosed == Spec => []GivenUpRoomsClosed
<1>1. FailoverInv => GivenUpRoomsClosed
  BY DEF FailoverInv
<1> QED BY <1>1, FailoverInvariance, PTL
=============================================================================
