------------------------------- MODULE Failover -------------------------------
(***************************************************************************)
(* What becomes of the rooms of the ErizoAgents (EAs, module AgentRooms)   *)
(* when nuve gives up an ErizoController (EC): the rooms assigned to it go *)
(* to other ECs, the EAs are told handleEcDown by a broadcast, and the EC  *)
(* that takes a room over asks an EA for it, all at the same time.         *)
(*                                                                         *)
(* How nuve comes to give up an EC is CloudHandler, how an EC brings       *)
(* clients into a room is EcSession and how an EA is chosen AgentRegistry: *)
(* here an EC is given up at any time, alive or not, a worker request may  *)
(* be taken by any EA and its reply is handled at once.                    *)
(***************************************************************************)
EXTENDS Naturals, FiniteSets

CONSTANTS
  Ec,      \* ErizoControllers
  Agent, RoomId, Router, HostOf, User, None

ASSUME NoneAssumption == None \notin Ec \cup Agent \cup Router \cup (Ec \X RoomId)
ASSUME HostAssumption == HostOf \in [Router -> Agent]

VARIABLES
  eaRouter, eaOwner, eaClients, eaEntering, eaAstray, eaUsed, eaState,
  up,        \* EC processes that run
  given,     \* ECs nuve has given up
  assigned,  \* rooms.erizoControllerId
  broadcast, \* handleEcDown an EA has yet to handle
  requests,  \* <<EC, room>>: getMediasoupWork on its way
  ecRoom,    \* the router of the room an EC has
  ticket,    \* <<EC, room>>: the token of a user
  place,     \* progress of a user: "out", "in" its EC, answered "ok" or "error" by its EA, "gone"
  asked,     \* the EA a user's first request is on its way to, or None
  leaving,   \* deleteUser an EA has yet to handle
  strangers, \* history: users let into a room the EA had made for another EC
  tardy      \* history: <<EA, room>> made for an EC after its handleEcDown

Ea == INSTANCE AgentRooms WITH Controller <- Ec

eaVars == <<eaRouter, eaOwner, eaClients, eaEntering, eaAstray, eaUsed, eaState>>
nuveVars == <<given, assigned, broadcast>>
ecVars == <<up, requests, ecRoom>>
userVars == <<ticket, place, asked, leaving>>
historyVars == <<strangers, tardy>>
vars == <<eaVars, nuveVars, ecVars, userVars, historyVars>>

TypeOK ==
  /\ Ea!TypeOK
  /\ up \subseteq Ec
  /\ given \subseteq Ec
  /\ assigned \in [RoomId -> Ec \cup {None}]
  /\ broadcast \in [Agent -> SUBSET Ec]
  /\ requests \subseteq Ec \X RoomId
  /\ ecRoom \in [Ec -> [RoomId -> Router \cup {None}]]
  /\ ticket \in [User -> (Ec \X RoomId) \cup {None}]
  /\ place \in [User -> {"out", "in", "ok", "error", "gone"}]
  /\ asked \in [User -> Agent \cup {None}]
  /\ leaving \in [Agent -> SUBSET User]
  /\ strangers \subseteq User
  /\ tardy \subseteq Agent \X RoomId

Init ==
  /\ Ea!Init
  /\ up = Ec
  /\ given = {}
  /\ assigned = [r \in RoomId |-> None]
  /\ broadcast = [a \in Agent |-> {}]
  /\ requests = {}
  /\ ecRoom = [e \in Ec |-> [r \in RoomId |-> None]]
  /\ ticket = [u \in User |-> None]
  /\ place = [u \in User |-> "out"]
  /\ asked = [u \in User |-> None]
  /\ leaving = [a \in Agent |-> {}]
  /\ strangers = {}
  /\ tardy = {}

-----------------------------------------------------------------------------
(* nuve.                                                                   *)

\* Mutation: the token names its room where its EC should be.
TokenSwapped(u, r, e) ==
  /\ ticket[u] = None
  /\ IF assigned[r] \in Ec \ given THEN e = assigned[r] ELSE e \notin given
  /\ assigned' = [assigned EXCEPT ![r] = e]
  /\ ticket' = [ticket EXCEPT ![u] = <<r, e>>]
  /\ UNCHANGED <<eaVars, given, broadcast, ecVars, place, asked, leaving, historyVars>>

\* A token, for the EC the room is or comes to be assigned to.
GiveToken(u, r, e) ==
  /\ ticket[u] = None
  /\ IF assigned[r] \in Ec \ given THEN e = assigned[r] ELSE e \notin given
  /\ assigned' = [assigned EXCEPT ![r] = e]
  /\ ticket' = [ticket EXCEPT ![u] = <<e, r>>]
  /\ UNCHANGED <<eaVars, given, broadcast, ecVars, place, asked, leaving, historyVars>>

\* Mutation: no EA is told.
GiveUpQuietly(e) ==
  /\ e \notin given
  /\ given' = given \cup {e}
  /\ assigned' = [r \in RoomId |-> IF assigned[r] = e THEN None ELSE assigned[r]]
  /\ UNCHANGED <<eaVars, broadcast, ecVars, userVars, historyVars>>

\* checkKA gives up an EC: its rooms are free and every EA is told.
GiveUp(e) ==
  /\ e \notin given
  /\ given' = given \cup {e}
  /\ assigned' = [r \in RoomId |-> IF assigned[r] = e THEN None ELSE assigned[r]]
  /\ broadcast' = [a \in Agent |-> broadcast[a] \cup {e}]
  /\ UNCHANGED <<eaVars, ecVars, userVars, historyVars>>

-----------------------------------------------------------------------------
(* ECs and their users.                                                    *)

Crash(e) ==
  /\ e \in up
  /\ up' = up \ {e}
  /\ UNCHANGED <<eaVars, nuveVars, requests, ecRoom, userVars, historyVars>>

Users(e, r) == {u \in User : ticket[u] = <<e, r>> /\ place[u] \in {"in", "ok", "error"}}

\* A user comes to its EC, which has no room for it: an EA is asked.
AskForWorker(u) ==
  /\ place[u] = "out" /\ ticket[u] # None
  /\ LET e == ticket[u][1]
         r == ticket[u][2]
     IN
     /\ e \in up
     /\ ecRoom[e][r] = None
     /\ ticket[u] \notin requests
     /\ requests' = requests \cup {ticket[u]}
  /\ UNCHANGED <<eaVars, nuveVars, up, ecRoom, userVars, historyVars>>

\* The EC has the room and the user enters it.
EnterRoom(u) ==
  /\ place[u] = "out" /\ ticket[u] # None
  /\ ticket[u][1] \in up
  /\ ecRoom[ticket[u][1]][ticket[u][2]] # None
  /\ place' = [place EXCEPT ![u] = "in"]
  /\ UNCHANGED <<eaVars, nuveVars, ecVars, ticket, asked, leaving, historyVars>>

\* The EA of a user's room, as its EC has it.
AgentOf(u) == HostOf[ecRoom[ticket[u][1]][ticket[u][2]]]

\* Its first request goes to the EA of the room.
RequestCaps(u) ==
  /\ place[u] = "in" /\ asked[u] = None /\ eaEntering[u] = None
  /\ ticket[u][1] \in up
  /\ asked' = [asked EXCEPT ![u] = AgentOf(u)]
  /\ UNCHANGED <<eaVars, nuveVars, ecVars, ticket, place, leaving, historyVars>>

\* The user leaves: every EA is told, and the EC forgets a room without users.
Leave(u) ==
  /\ place[u] \in {"in", "ok", "error"}
  /\ LET e == ticket[u][1]
         r == ticket[u][2]
     IN
     /\ e \in up
     /\ ecRoom' = IF Users(e, r) = {u} THEN [ecRoom EXCEPT ![e][r] = None] ELSE ecRoom
  /\ place' = [place EXCEPT ![u] = "gone"]
  /\ leaving' = [a \in Agent |-> leaving[a] \cup {u}]
  /\ UNCHANGED <<eaVars, nuveVars, up, requests, ticket, asked, historyVars>>

-----------------------------------------------------------------------------
(* EAs.                                                                    *)

\* An EA takes the request of EC e, which enters the room it is answered.
TakeRequest(a, e, r) ==
  /\ <<e, r>> \in requests
  /\ requests' = requests \ {<<e, r>>}
  /\ Ea!WorkOnRoom(a, r) \/ \E w \in Router : Ea!WorkOnNewRoom(a, r, e, w)
  /\ ecRoom' = IF e \in up /\ ecRoom[e][r] = None
                 THEN [ecRoom EXCEPT ![e][r] = eaRouter'[a][r]]
                 ELSE ecRoom
  /\ tardy' = IF ~Ea!HasRoom(a, r) /\ e \in given /\ e \notin broadcast[a]
                THEN tardy \cup {<<a, r>>} ELSE tardy
  /\ UNCHANGED <<nuveVars, up, userVars, strangers>>

\* The EC has an answer for the user if he is still there.
Answered(u, answer) ==
  place' = IF place[u] = "in" THEN [place EXCEPT ![u] = answer] ELSE place

\* A first request reaches its EA, which has the room, of whatever EC, or not.
HandleCaps(u) ==
  LET a == asked[u]
      r == ticket[u][2]
  IN
  /\ a # None
  /\ asked' = [asked EXCEPT ![u] = None]
  /\ IF Ea!HasRoom(a, r)
       THEN /\ Ea!FindRoom(a, r, u)
            /\ strangers' = IF eaOwner[a][r] # ticket[u][1] THEN strangers \cup {u} ELSE strangers
            /\ UNCHANGED place
       ELSE Answered(u, "error") /\ UNCHANGED <<eaVars, strangers>>
  /\ UNCHANGED <<nuveVars, ecVars, ticket, leaving, tardy>>

\* The client is created in the Room found, and answered 'success' in any case.
AnswerCaps(u) ==
  /\ eaEntering[u] # None
  /\ Ea!AddUser(HostOf[eaEntering[u]], ticket[u][2], u)
  /\ Answered(u, "ok")
  /\ UNCHANGED <<nuveVars, ecVars, ticket, asked, leaving, historyVars>>

HandleDeleteUser(a, u) ==
  LET r == ticket[u][2] IN
  /\ u \in leaving[a]
  /\ leaving' = [leaving EXCEPT ![a] = @ \ {u}]
  /\ IF Ea!HasRoom(a, r) THEN Ea!DeleteUser(a, r, u) ELSE UNCHANGED eaVars
  /\ tardy' = {k \in tardy : k[1] # a \/ eaRouter'[a][k[2]] # None}
  /\ UNCHANGED <<nuveVars, ecVars, ticket, place, asked, strangers>>

HandleEcDown(a, e) ==
  /\ e \in broadcast[a]
  /\ broadcast' = [broadcast EXCEPT ![a] = @ \ {e}]
  /\ Ea!HandleEcDown(a, e)
  /\ UNCHANGED <<given, assigned, ecVars, userVars, historyVars>>

-----------------------------------------------------------------------------
Next ==
  \/ \E e \in Ec : GiveUp(e) \/ Crash(e)
  \/ \E u \in User :
       \/ \E r \in RoomId, e \in Ec : GiveToken(u, r, e)
       \/ AskForWorker(u)
       \/ EnterRoom(u)
       \/ RequestCaps(u)
       \/ HandleCaps(u)
       \/ AnswerCaps(u)
       \/ Leave(u)
  \/ \E a \in Agent :
       \/ \E e \in Ec, r \in RoomId : TakeRequest(a, e, r)
       \/ \E u \in User : HandleDeleteUser(a, u)
       \/ \E e \in Ec : HandleEcDown(a, e)

Spec == Init /\ [][Next]_vars

-----------------------------------------------------------------------------
(* Properties.                                                             *)

\* Some user of room r has left it.
SomeoneLeft(r) == \E v \in User : place[v] = "gone" /\ ticket[v][2] = r

\* A user whose EA found a room of its own EC and answered 'success' is in the
\* room and stays there, and the room tells that EC what happens
\* (erizoControllerId), while the EC lives and is not given up: no handleEcDown
\* and no deleteUser about others takes the place away.  A room that an EC took
\* over from another promises nothing, and somebody who leaves may close the room
\* in the middle of the request.
KeptUnlessStranger ==
  \A u \in User \ strangers : place[u] = "ok" /\ ticket[u][1] \in up \ given =>
    LET a == AgentOf(u)
        r == ticket[u][2]
    IN
    \/ u \in eaClients[a][r] /\ eaOwner[a][r] = ticket[u][1]
    \/ u \in eaAstray /\ SomeoneLeft(r)

\* A room an EA made for an EC that nuve gave up (handleEcDown) is about to be
\* closed, unless the EA made it after the broadcast.
GivenUpRoomsClosed ==
  \A a \in Agent, r \in RoomId :
    eaOwner[a][r] \in given => eaOwner[a][r] \in broadcast[a] \/ <<a, r>> \in tardy

-----------------------------------------------------------------------------
(* The inductive invariant the proofs use.                                 *)

\* An EA's room has a router and an owner, or neither.
RoomInv == \A a \in Agent, r \in RoomId : (eaRouter[a][r] = None) <=> (eaOwner[a][r] = None)

\* Only ECs that were given up are announced.
BroadcastInv == \A a \in Agent : broadcast[a] \subseteq given

\* A user that came has a ticket, and its EC the room as long as it is there;
\* users are deleted when they are gone.
UserInv ==
  \A u \in User :
    /\ place[u] # "out" => ticket[u] # None
    /\ place[u] \in {"in", "ok", "error"} => ecRoom[ticket[u][1]][ticket[u][2]] # None
    /\ \A a \in Agent : u \in leaving[a] => place[u] = "gone"

\* A first request is under way or being handled only for a user that waits for
\* the answer or has left, at the EA the EC chose.
AskedInv ==
  \A u \in User :
    /\ asked[u] # None => /\ place[u] \in {"in", "gone"} /\ eaEntering[u] = None
                          /\ place[u] = "in" => asked[u] = AgentOf(u)
    /\ eaEntering[u] # None => /\ place[u] \in {"in", "gone"}
                               /\ place[u] = "in" => HostOf[eaEntering[u]] = AgentOf(u)

\* The Room a user is being put into was made for its EC, and it is still open
\* unless somebody has left it, the EC was given up or it never was for that EC.
EnteringInv ==
  \A u \in User \ strangers : eaEntering[u] # None =>
    LET a == HostOf[eaEntering[u]]
        r == ticket[u][2]
    IN
    /\ eaRouter[a][r] = eaEntering[u] => eaOwner[a][r] = ticket[u][1]
    /\ ticket[u][1] \notin given => eaRouter[a][r] = eaEntering[u] \/ SomeoneLeft(r)

FailoverInv ==
  /\ TypeOK
  /\ RoomInv
  /\ BroadcastInv
  /\ UserInv
  /\ Ea!HostInv
  /\ Ea!UsedInv
  /\ AskedInv
  /\ EnteringInv
  /\ GivenUpRoomsClosed
  /\ KeptUnlessStranger
=============================================================================
