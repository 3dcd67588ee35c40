-------------------------------- MODULE NuveApi --------------------------------
(***************************************************************************)
(* The REST requests of nuve and the tokens they hand out: authentication  *)
(* (nuveAuthenticator.js, the request side in nuve.py), the requests about *)
(* rooms (roomsResource.js, roomResource.js) with the service document     *)
(* that lists them, the creation of a token (tokensResource.js) and its    *)
(* use by the join of a client (rpcPublic.js, Channel.js).                 *)
(*                                                                         *)
(* One service, whose key all clients know: signatures are right.  A       *)
(* request reads the service document when it is authenticated and works   *)
(* on that copy (req.service); writes to the database are not awaited.     *)
(* Rooms and tokens are named by the request that creates them.            *)
(*                                                                         *)
(* A token request that finds the room in its copy and no document of it   *)
(* ends the process of nuve, which is started again with an empty memory;  *)
(* the database carries out what it was sent.                              *)
(*                                                                         *)
(* Test rooms and test tokens are left out: createRoom never stores        *)
(* service.testRoom, so no request finds one.                              *)
(***************************************************************************)
EXTENDS Naturals, FiniteSets

CONSTANTS
  Request,    \* REST requests
  Client,     \* who sends them
  ClientOf,   \* the client a request is of
  Join,       \* channels that send a token to their EC
  Nonce,      \* values of cnonce
  MaxNow,     \* bound of the clock
  None        \* undefined

ASSUME ClientAssumption == ClientOf \in [Request -> Client]
ASSUME ClockAssumption == MaxNow \in Nat /\ None \notin Request

Op == {"create", "update", "delete", "token"}
Saver == {"update", "delete"}  \* they save the whole copy of the service
Writer == Saver \cup {"create"}

VARIABLES
  now,       \* the clock, the same for all clients
  pc,        \* progress of a request
  op,        \* what it asks for
  room,      \* the room it is about
  stamp,     \* its timestamp and cnonce
  cache,     \* those of the last request that was let in
  copy,      \* req.service.rooms
  service,   \* the rooms in the service document
  roomDocs,  \* the collection of rooms
  removing,  \* rooms whose removal from the collection is on its way
  writes,    \* writes of the service document on their way
  overtaken, \* history: requests that were under way when another was let in
  mixed,     \* history: whether requests ran beside each other that conflict
  tokens,    \* the collection of tokens
  aged,      \* tokens older than three minutes
  old,       \* tokens removeOldTokens is to remove
  join,      \* progress of a join
  with,      \* the token it has
  spent,     \* history: tokens a client was admitted with
  behind     \* history: joins that asked when their token was spent

authVars == <<now, stamp, cache, overtaken>>
requestVars == <<pc, op, room, copy>>
storeVars == <<service, roomDocs, removing, writes, mixed>>
tokenVars == <<tokens, aged, old>>
joinVars == <<join, with, spent, behind>>
vars == <<authVars, requestVars, storeVars, tokenVars, joinVars>>

Stamp == (0..MaxNow) \X Nonce
Write == [by : Request, kind : {"add"}] \cup [by : Request, kind : {"save"}, rooms : SUBSET Request]

TypeOK ==
  /\ now \in 0..MaxNow
  /\ pc \in [Request -> {"idle", "sent", "read", "saving", "assigning", "granting",
                          "ok", "missing", "error", "refused", "dropped"}]
  /\ op \in [Request -> Op \cup {None}]
  /\ room \in [Request -> Request \cup {None}]
  /\ stamp \in [Request -> Stamp \cup {None}]
  /\ cache \in Stamp \cup {None}
  /\ copy \in [Request -> SUBSET Request]
  /\ service \subseteq Request
  /\ roomDocs \subseteq Request
  /\ removing \subseteq Request
  /\ writes \subseteq Write
  /\ overtaken \subseteq Request
  /\ mixed \in BOOLEAN
  /\ tokens \subseteq Request
  /\ aged \subseteq Request
  /\ old \subseteq Request
  /\ join \in [Join -> {"idle", "asked", "found", "sure", "admitted", "refused", "unanswered", "dropped"}]
  /\ with \in [Join -> Request \cup {None}]
  /\ spent \subseteq Request
  /\ behind \subseteq Join

Init ==
  /\ now = 0
  /\ pc = [r \in Request |-> "idle"]
  /\ op = [r \in Request |-> None]
  /\ room = [r \in Request |-> None]
  /\ stamp = [r \in Request |-> None]
  /\ cache = None
  /\ copy = [r \in Request |-> {}]
  /\ service = {} /\ roomDocs = {} /\ removing = {} /\ writes = {}
  /\ overtaken = {} /\ mixed = FALSE
  /\ tokens = {} /\ aged = {} /\ old = {}
  /\ join = [j \in Join |-> "idle"]
  /\ with = [j \in Join |-> None]
  /\ spent = {} /\ behind = {}

-----------------------------------------------------------------------------
(* Clients and authentication.                                             *)

Answered == {r \in Request : pc[r] \in {"ok", "missing", "error", "refused", "dropped"}}
Underway == {r \in Request : pc[r] # "idle"} \ Answered

Tick ==
  /\ now < MaxNow
  /\ now' = now + 1
  /\ UNCHANGED <<stamp, cache, overtaken, requestVars, storeVars, tokenVars, joinVars>>

\* A client waits for the answer to a request before it sends the next, and
\* knows a room from the answer to its creation.
Send(r, o, x, n) ==
  /\ pc[r] = "idle"
  /\ \A q \in Request : ClientOf[q] = ClientOf[r] => q \notin Underway
  /\ IF o = "create" THEN x = None ELSE x # None /\ op[x] = "create" /\ pc[x] = "ok"
  /\ pc' = [pc EXCEPT ![r] = "sent"]
  /\ op' = [op EXCEPT ![r] = o]
  /\ room' = [room EXCEPT ![r] = x]
  /\ stamp' = [stamp EXCEPT ![r] = <<now, n>>]
  /\ UNCHANGED <<now, cache, copy, overtaken, storeVars, tokenVars, joinVars>>

\* Requests that have a copy of the service, or whose write is to come.
Writing == {r \in Request : /\ op[r] \in Writer
                            /\ \/ pc[r] \in {"read", "saving"}
                               \/ \E w \in writes : w.by = r
                               \/ op[r] = "delete" /\ pc[r] = "ok" /\ room[r] \in removing}

\* Requests one of which should not run beside the other.
Conflict(o, p) ==
  \/ {o, p} \subseteq Writer /\ {o, p} \cap Saver # {}
  \/ {o, p} = {"delete", "token"}

Active == Writing \cup {r \in Request : op[r] = "token" /\ pc[r] \in {"read", "assigning"}}

\* authenticate: the service document is read.
ReadService(r) ==
  /\ pc[r] = "sent"
  /\ pc' = [pc EXCEPT ![r] = "read"]
  /\ copy' = [copy EXCEPT ![r] = service]
  /\ mixed' = (mixed \/ \E q \in Active : Conflict(op[q], op[r]))
  /\ UNCHANGED <<op, room, authVars, service, roomDocs, removing, writes, tokenVars, joinVars>>

\* Mutation: a request of the same millisecond is refused.
NotNewer(r) == cache # None /\ stamp[r][1] <= cache[1]

\* checkTimestamp fails.
Outdated(r) ==
  cache # None /\ (stamp[r][1] < cache[1] \/ stamp[r] = cache)

RefuseRequest(r) ==
  /\ pc[r] = "read"
  /\ Outdated(r)
  /\ pc' = [pc EXCEPT ![r] = "refused"]
  /\ UNCHANGED <<op, room, copy, authVars, storeVars, tokenVars, joinVars>>

\* The request is let in.
LetIn(r) ==
  /\ pc[r] = "read"
  /\ ~Outdated(r)
  /\ cache' = stamp[r]
  /\ overtaken' = overtaken \cup (Underway \ {r})
  /\ UNCHANGED <<now, stamp>>

End(r, outcome) == pc' = [pc EXCEPT ![r] = outcome]

-----------------------------------------------------------------------------
(* Requests about rooms.                                                   *)

CreateRoom(r) ==
  /\ op[r] = "create"
  /\ LetIn(r)
  /\ End(r, "saving")
  /\ UNCHANGED <<op, room, copy, storeVars, tokenVars, joinVars>>

\* Mutation: the copy of the service is saved with the room.
RoomSavedWhole(r) ==
  /\ pc[r] = "saving"
  /\ roomDocs' = roomDocs \cup {r}
  /\ writes' = writes \cup {[by |-> r, kind |-> "save", rooms |-> copy[r] \cup {r}]}
  /\ End(r, "ok")
  /\ UNCHANGED <<op, room, copy, authVars, service, removing, mixed, tokenVars, joinVars>>

\* Mutation: updateService is called without the service.
RoomSavedBare(r) ==
  /\ pc[r] = "saving"
  /\ roomDocs' = roomDocs \cup {r}
  /\ writes' = writes \cup {[by |-> r, kind |-> "save"]}
  /\ End(r, "ok")
  /\ UNCHANGED <<op, room, copy, authVars, service, removing, mixed, tokenVars, joinVars>>

\* addRoom calls back: addRoomToService, and the answer.
RoomSaved(r) ==
  /\ pc[r] = "saving"
  /\ roomDocs' = roomDocs \cup {r}
  /\ writes' = writes \cup {[by |-> r, kind |-> "add"]}
  /\ End(r, "ok")
  /\ UNCHANGED <<op, room, copy, authVars, service, removing, mixed, tokenVars, joinVars>>

\* getRoomForService finds no room in the copy.
RoomMissing(r) ==
  /\ op[r] # "create"
  /\ LetIn(r)
  /\ room[r] \notin copy[r]
  /\ End(r, "missing")
  /\ UNCHANGED <<op, room, copy, storeVars, tokenVars, joinVars>>

Save(r, rooms) == writes' = writes \cup {[by |-> r, kind |-> "save", rooms |-> rooms]}

\* updateRoom and patchRoom change a room that is in the copy.
UpdateRoom(r) ==
  /\ op[r] = "update"
  /\ LetIn(r)
  /\ room[r] \in copy[r]
  /\ Save(r, copy[r])
  /\ End(r, "ok")
  /\ UNCHANGED <<op, room, copy, service, roomDocs, removing, mixed, tokenVars, joinVars>>

\* deleteRoom; what the EC of the room is told is in EcSession.
DeleteRoom(r) ==
  /\ op[r] = "delete"
  /\ LetIn(r)
  /\ room[r] \in copy[r]
  /\ removing' = removing \cup {room[r]}
  /\ Save(r, copy[r] \ {room[r]})
  /\ End(r, "ok")
  /\ UNCHANGED <<op, room, copy, service, roomDocs, mixed, tokenVars, joinVars>>

\* A write of the service document takes effect.
WriteService(w) ==
  /\ w \in writes
  /\ writes' = writes \ {w}
  /\ service' = IF w.kind = "add" THEN service \cup {w.by} ELSE w.rooms
  /\ UNCHANGED <<requestVars, authVars, roomDocs, removing, mixed, tokenVars, joinVars>>

RemoveRoom(x) ==
  /\ x \in removing
  /\ removing' = removing \ {x}
  /\ roomDocs' = roomDocs \ {x}
  /\ UNCHANGED <<requestVars, authVars, service, writes, mixed, tokenVars, joinVars>>

-----------------------------------------------------------------------------
(* Tokens.                                                                 *)

CreateToken(r) ==
  /\ op[r] = "token"
  /\ LetIn(r)
  /\ room[r] \in copy[r]
  /\ End(r, "assigning")
  /\ UNCHANGED <<op, room, copy, storeVars, tokenVars, joinVars>>

\* getErizoControllerForRoom has read the room.
RoomRead(r) ==
  /\ pc[r] = "assigning"
  /\ room[r] \in roomDocs
  /\ End(r, "granting")
  /\ UNCHANGED <<op, room, copy, authVars, storeVars, tokenVars, joinVars>>

\* The room has an EC, and the token is saved.
TokenSaved(r) ==
  /\ pc[r] = "granting"
  /\ tokens' = tokens \cup {r}
  /\ End(r, "ok")
  /\ UNCHANGED <<op, room, copy, authVars, storeVars, aged, old, joinVars>>

\* getErizoControllerForRoom found none.
TokenFails(r) ==
  /\ pc[r] = "granting"
  /\ End(r, "error")
  /\ UNCHANGED <<op, room, copy, authVars, storeVars, tokenVars, joinVars>>

\* There is no such room: getErizoControllerForRoom takes the EC of undefined,
\* and what nuve was doing is lost.
NuveStops(r) ==
  /\ pc[r] = "assigning"
  /\ room[r] \notin roomDocs
  /\ pc' = [q \in Request |->
             IF pc[q] \in {"read", "saving", "assigning", "granting"} THEN "dropped" ELSE pc[q]]
  /\ join' = [j \in Join |-> IF join[j] \in {"asked", "found", "sure"} THEN "dropped" ELSE join[j]]
  /\ cache' = None
  /\ roomDocs' = roomDocs \cup {q \in Request : pc[q] = "saving"}
  /\ tokens' = tokens \ {with[j] : j \in {k \in Join : join[k] = "sure"}}
  /\ UNCHANGED <<op, room, copy, now, stamp, overtaken, service, removing, writes, mixed,
                 aged, old, with, spent, behind>>

Age(t) ==
  /\ t \in tokens \ aged
  /\ aged' = aged \cup {t}
  /\ UNCHANGED <<requestVars, authVars, storeVars, tokens, old, joinVars>>

\* Mutation: the age of tokens does not count.
OldTokensAny == tokens

\* What removeOldTokens finds.
OldTokens == tokens \cap aged

\* A channel gets a token and the EC calls deleteToken of nuve.
UseToken(j, t) ==
  /\ join[j] = "idle"
  /\ op[t] = "token" /\ pc[t] = "ok"
  /\ join' = [join EXCEPT ![j] = "asked"]
  /\ with' = [with EXCEPT ![j] = t]
  /\ old' = old \cup OldTokens
  /\ behind' = IF t \in spent THEN behind \cup {j} ELSE behind
  /\ UNCHANGED <<requestVars, authVars, storeVars, tokens, aged, spent>>

\* removeToken of an old token.
RemoveOld(t) ==
  /\ t \in old
  /\ old' = old \ {t}
  /\ tokens' = tokens \ {t}
  /\ UNCHANGED <<requestVars, authVars, storeVars, aged, joinVars>>

JoinStep(j, from, to) == join[j] = from /\ join' = [join EXCEPT ![j] = to]

\* getToken has looked: a token that is not there is an error.
LookUp(j) ==
  /\ IF with[j] \in tokens THEN JoinStep(j, "asked", "found") ELSE JoinStep(j, "asked", "refused")
  /\ UNCHANGED <<requestVars, authVars, storeVars, tokenVars, with, spent, behind>>

\* removeToken looks again (hasToken): if the token is gone it never calls
\* back, and the EC refuses the join when its call times out.
LookAgain(j) ==
  /\ IF with[j] \in tokens THEN JoinStep(j, "found", "sure") ELSE JoinStep(j, "found", "unanswered")
  /\ UNCHANGED <<requestVars, authVars, storeVars, tokenVars, with, spent, behind>>

\* Mutation: the EC is answered before the token is removed.
AdmitFirst(j) ==
  /\ JoinStep(j, "sure", "admitted")
  /\ old' = old \cup {with[j]}
  /\ spent' = spent \cup {with[j]}
  /\ UNCHANGED <<requestVars, authVars, storeVars, tokens, aged, with, behind>>

\* The token is removed and the EC answered: the client is let in.
Admit(j) ==
  /\ JoinStep(j, "sure", "admitted")
  /\ tokens' = tokens \ {with[j]}
  /\ spent' = spent \cup {with[j]}
  /\ UNCHANGED <<requestVars, authVars, storeVars, aged, old, with, behind>>

-----------------------------------------------------------------------------
RequestStep(r) ==
  \/ ReadService(r)
  \/ RefuseRequest(r)
  \/ RoomMissing(r)
  \/ CreateRoom(r)
  \/ RoomSaved(r)
  \/ UpdateRoom(r)
  \/ DeleteRoom(r)
  \/ CreateToken(r)
  \/ RoomRead(r)
  \/ NuveStops(r)
  \/ TokenSaved(r)
  \/ TokenFails(r)

Next ==
  \/ Tick
  \/ \E r \in Request :
       \/ \E o \in Op, x \in Request \cup {None}, n \in Nonce : Send(r, o, x, n)
       \/ RequestStep(r)
  \/ \E w \in writes : WriteService(w)
  \/ \E x \in removing : RemoveRoom(x)
  \/ \E t \in Request : Age(t) \/ RemoveOld(t)
  \/ \E j \in Join :
       \/ \E t \in Request : UseToken(j, t)
       \/ LookUp(j)
       \/ LookAgain(j)
       \/ Admit(j)

Spec == Init /\ [][Next]_vars

-----------------------------------------------------------------------------
(* Properties.                                                             *)

\* A request is refused as outdated (checkTimestamp) only if another was let
\* in while it was under way, or has its timestamp and cnonce: never one of a
\* client on its own that waits for its answers (nuve.py).
OnlyOvertakenRefused ==
  \A r \in Request : pc[r] = "refused" =>
    r \in overtaken \/ \E q \in Request \ {r} : pc[q] # "idle" /\ stamp[q] = stamp[r]

\* The list of rooms in the service document and the collection of rooms are
\* the same once all writes are through, however creations overlap, and no token
\* request ends nuve (getErizoControllerForRoom), unless a request that saves the
\* whole document ran beside another writer or a deletion beside a token request.
StoresAgree ==
  ~mixed =>
    /\ Writing = {} => service = roomDocs
    /\ \A r \in Request : pc[r] = "assigning" => room[r] \in roomDocs

\* A join that asks after another was admitted with its token is not admitted
\* (deleteToken), though two that overlap may both be; and one is left without an
\* answer only if another with its token was faster, or the token too old.
TokenSpentOnce ==
  \A j \in Join :
    /\ j \in behind => join[j] # "admitted"
    /\ join[j] = "unanswered" => with[j] \in spent \cup aged

-----------------------------------------------------------------------------
(* The inductive invariant the proofs use.                                 *)

\* The last request that was let in has its answer or soon will, and no request
\* that was sent since is older than it.
CacheInv ==
  /\ cache # None =>
       /\ cache[1] <= now
       /\ \E q \in Request : pc[q] \notin {"idle", "sent", "read"} /\ stamp[q] = cache
  /\ \A r \in Request :
       pc[r] # "idle" => stamp[r] \in Stamp /\ stamp[r][1] <= now /\ op[r] \in Op
  /\ \A r \in Request \ overtaken :
       pc[r] \in {"sent", "read"} /\ cache # None => cache[1] <= stamp[r][1]

\* A token is created once: spent or removed for its age it does not come back,
\* and a join that found its token has lost it for one of these reasons.
TokenInv ==
  /\ \A t \in tokens \cup spent \cup aged : pc[t] = "ok"
  /\ tokens \cap spent = {}
  /\ old \subseteq aged
  /\ \A j \in Join :
       /\ join[j] # "idle" => with[j] \in Request
       /\ join[j] \in {"found", "sure"} => with[j] \in tokens \cup spent \cup aged
       /\ j \in behind => join[j] \in {"asked", "refused", "dropped"} /\ with[j] \in spent

\* Who has issued the writes and removals on their way and what they write; a
\* request is about a room that was made, and a room whose removal is through is
\* not made again.
Saved(r) == IF op[r] = "delete" THEN copy[r] \ {room[r]} ELSE copy[r]

WriterInv ==
  /\ \A r \in Request :
       /\ pc[r] = "saving" => op[r] = "create"
       /\ pc[r] \in {"assigning", "granting"} => op[r] = "token"
  /\ \A w \in writes :
       /\ pc[w.by] = "ok"
       /\ IF w.kind = "add" THEN op[w.by] = "create" ELSE op[w.by] \in Saver /\ w.rooms = Saved(w.by)
  /\ \A x \in removing : \E r \in Request : op[r] = "delete" /\ pc[r] = "ok" /\ room[r] = x
  /\ \A r \in Request : pc[r] # "idle" /\ op[r] # "create" =>
       room[r] \in Request /\ op[room[r]] = "create" /\ pc[room[r]] = "ok"
  /\ \A r \in Request : op[r] = "delete" /\ pc[r] = "ok" => room[r] \notin roomDocs \ removing

AddedBy == {r \in Request : \E w \in writes : w.by = r /\ w.kind = "add"}

\* As long as nothing that conflicts overlaps: the list lacks the rooms whose
\* addition is on its way; or one request saves the list, which with the rooms
\* is as it was when that request read it or as it leaves it.
StoreInv ==
  ~mixed =>
    /\ \A r, q \in Active : r # q => ~Conflict(op[r], op[q])
    /\ (\A r \in Writing : op[r] = "create") => service \cup AddedBy = roomDocs
    /\ \A r \in Writing : op[r] \in Saver =>
         /\ service = IF pc[r] = "read" \/ \E w \in writes : w.by = r THEN copy[r] ELSE Saved(r)
         /\ roomDocs = IF pc[r] = "ok" /\ room[r] \notin removing THEN Saved(r) ELSE copy[r]
    /\ \A r \in Request : op[r] = "token" =>
         /\ pc[r] = "read" => copy[r] \subseteq roomDocs
         /\ pc[r] = "assigning" => room[r] \in roomDocs

ApiInv ==
  /\ TypeOK
  /\ CacheInv
  /\ TokenInv
  /\ OnlyOvertakenRefused
  /\ TokenSpentOnce
=============================================================================
