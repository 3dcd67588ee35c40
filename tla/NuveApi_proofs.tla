---------------------------- MODULE NuveApi_proofs ----------------------------
(***************************************************************************)
(* Requests and tokens of nuve, for any clients, requests and joins: only  *)
(* a request that was overtaken is refused as outdated, a token that was   *)
(* spent admits nobody who asks after that, and the two places a room is   *)
(* stored in agree unless requests that conflict overlapped.               *)
(***************************************************************************)
EXTENDS NuveApi, TLAPS

USE ClientAssumption, ClockAssumption

\* Nothing was asked at first.
LEMMA InitEstablishesInv == Init => ApiInv
<1> SUFFICES ASSUME Init PROVE ApiInv
  OBVIOUS
<1>1. TypeOK
  <2>1. now \in 0..MaxNow
    BY DEF Init
  <2>2. /\ pc \in [Request -> {"idle"}]
        /\ op \in [Request -> {None}]
        /\ room \in [Request -> {None}]
        /\ stamp \in [Request -> {None}]
        /\ copy \in [Request -> {{}}]
    BY DEF Init
  <2>3. /\ join \in [Join -> {"idle"}]
        /\ with \in [Join -> {None}]
    BY DEF Init
  <2> QED BY <2>1, <2>2, <2>3 DEF Init, TypeOK
<1>2. CacheInv /\ OnlyOvertakenRefused
  BY DEF Init, CacheInv, OnlyOvertakenRefused
<1>3. TokenInv /\ TokenSpentOnce
  BY DEF Init, TokenInv, TokenSpentOnce
<1> QED BY <1>1, <1>2, <1>3 DEF ApiInv

\* Steps that leave the requests and what they are compared with alone.
LEMMA CacheFrame ==
  ASSUME CacheInv, OnlyOvertakenRefused, UNCHANGED <<stamp, cache, overtaken, requestVars>>,
         now' = now \/ now' = now + 1, now \in 0..MaxNow, cache \in Stamp \cup {None}
  PROVE  CacheInv' /\ OnlyOvertakenRefused'
<1>1. cache # None => cache[1] \in Nat /\ (cache[1] <= now => cache[1] <= now')
  BY DEF Stamp
<1>2. \A r \in Request : pc[r] # "idle" => stamp[r][1] \in Nat
  BY DEF CacheInv, Stamp
<1>3. CacheInv'
  BY <1>1, <1>2 DEF CacheInv, requestVars
<1>4. OnlyOvertakenRefused'
  BY DEF OnlyOvertakenRefused, requestVars
<1> QED BY <1>3, <1>4

\* Steps that leave the tokens and the joins alone, and no answer behind.
LEMMA TokenFrame ==
  ASSUME TokenInv, TokenSpentOnce, UNCHANGED <<tokenVars, joinVars>>,
         \A t \in Request : pc[t] = "ok" => pc'[t] = "ok", TypeOK
  PROVE  TokenInv' /\ TokenSpentOnce'
<1>1. TokenInv'
  BY DEF TokenInv, TypeOK, tokenVars, joinVars
<1>2. TokenSpentOnce'
  BY DEF TokenSpentOnce, tokenVars, joinVars
<1> QED BY <1>1, <1>2

\* The clock.
LEMMA TickKeepsInv == ASSUME ApiInv, Tick PROVE ApiInv'
<1>1. TypeOK'
  BY DEF ApiInv, TypeOK, Tick, requestVars, storeVars, tokenVars, joinVars
<1>2. CacheInv' /\ OnlyOvertakenRefused'
  BY CacheFrame DEF ApiInv, TypeOK, Tick
<1>3. TokenInv' /\ TokenSpentOnce'
  BY TokenFrame DEF ApiInv, Tick, requestVars
<1> QED BY <1>1, <1>2, <1>3 DEF ApiInv

\* A new request is as late as the clock, so not before the cache.
LEMMA SendKeepsInv ==
  ASSUME ApiInv, NEW r \in Request, NEW o \in Op, NEW x \in Request \cup {None}, NEW n \in Nonce,
         Send(r, o, x, n)
  PROVE  ApiInv'
<1>1. TypeOK'
  BY DEF ApiInv, TypeOK, Send, Stamp, storeVars, tokenVars, joinVars
<1>2. /\ pc[r] = "idle" /\ pc' = [pc EXCEPT ![r] = "sent"]
      /\ op' = [op EXCEPT ![r] = o] /\ stamp' = [stamp EXCEPT ![r] = <<now, n>>]
      /\ UNCHANGED <<now, cache, overtaken, storeVars, tokenVars, joinVars>>
  BY DEF Send
<1>3. CacheInv'
  <2>1. cache' # None => /\ cache'[1] <= now'
                         /\ \E q \in Request : pc'[q] \notin {"idle", "sent", "read"} /\ stamp'[q] = cache'
    BY <1>2 DEF ApiInv, TypeOK, CacheInv
  <2>2. ASSUME NEW q \in Request, pc'[q] # "idle"
        PROVE  stamp'[q] \in Stamp /\ stamp'[q][1] <= now' /\ op'[q] \in Op
    <3>1. CASE q = r
      BY <1>2, <3>1 DEF ApiInv, TypeOK, Stamp
    <3>2. CASE q # r
      BY <1>2, <2>2, <3>2 DEF ApiInv, TypeOK, CacheInv
    <3> QED BY <3>1, <3>2
  <2>3. ASSUME NEW q \in Request \ overtaken', pc'[q] \in {"sent", "read"}, cache' # None
        PROVE  cache'[1] <= stamp'[q][1]
    <3>1. CASE q = r
      BY <1>2, <2>1, <2>3, <3>1 DEF ApiInv, TypeOK
    <3>2. CASE q # r
      BY <1>2, <2>3, <3>2 DEF ApiInv, TypeOK, CacheInv
    <3> QED BY <3>1, <3>2
  <2> QED BY <2>1, <2>2, <2>3 DEF CacheInv
<1>4. OnlyOvertakenRefused'
  <2> SUFFICES ASSUME NEW q \in Request, pc'[q] = "refused"
               PROVE  q \in overtaken' \/ \E p \in Request \ {q} : pc'[p] # "idle" /\ stamp'[p] = stamp'[q]
    BY DEF OnlyOvertakenRefused
  <2>1. q # r /\ pc[q] = "refused"
    BY <1>2 DEF ApiInv, TypeOK
  <2>2. CASE q \in overtaken
    BY <1>2, <2>2
  <2>3. ASSUME NEW p \in Request \ {q}, pc[p] # "idle", stamp[p] = stamp[q]
        PROVE  \E u \in Request \ {q} : pc'[u] # "idle" /\ stamp'[u] = stamp'[q]
    BY <1>2, <2>1, <2>3 DEF ApiInv, TypeOK, CacheInv
  <2> QED BY <2>1, <2>2, <2>3 DEF ApiInv, OnlyOvertakenRefused
<1>5. TokenInv' /\ TokenSpentOnce'
  BY <1>2, TokenFrame DEF ApiInv, TypeOK
<1> QED BY <1>1, <1>3, <1>4, <1>5 DEF ApiInv

\* A request that is let in outdates only those under way with it.
LEMMA LetInKeepsCache ==
  ASSUME TypeOK, CacheInv, OnlyOvertakenRefused, NEW r \in Request, LetIn(r), op' = op,
         NEW out \in {"saving", "assigning", "ok", "missing"}, End(r, out)
  PROVE  CacheInv' /\ OnlyOvertakenRefused'
<1>1. /\ pc[r] = "read" /\ pc' = [pc EXCEPT ![r] = out]
      /\ cache' = stamp[r] /\ UNCHANGED <<now, stamp>>
      /\ overtaken' = overtaken \cup (Underway \ {r})
  BY DEF LetIn, End
<1>2. pc'[r] = out /\ \A q \in Request \ {r} : pc'[q] = pc[q]
  BY <1>1 DEF TypeOK
<1>3. \A q \in Request : pc[q] \in {"sent", "read"} /\ q # r => q \in overtaken'
  BY <1>1 DEF Underway, Answered
<1>4. CacheInv'
  <2>1. cache'[1] <= now' /\ pc'[r] \notin {"idle", "sent", "read"} /\ stamp'[r] = cache'
    BY <1>1, <1>2 DEF CacheInv
  <2>2. \A q \in Request \ overtaken' : pc'[q] \notin {"sent", "read"}
    BY <1>2, <1>3
  <2>3. \A q \in Request : pc'[q] # "idle" => stamp'[q] \in Stamp /\ stamp'[q][1] <= now' /\ op'[q] \in Op
    BY <1>1, <1>2 DEF CacheInv
  <2> QED BY <2>1, <2>2, <2>3 DEF CacheInv
<1>5. OnlyOvertakenRefused'
  BY <1>1, <1>2 DEF OnlyOvertakenRefused
<1> QED BY <1>4, <1>5

\* So does one that goes on or is answered leave the others as they are.
LEMMA ProgressKeepsCache ==
  ASSUME TypeOK, CacheInv, OnlyOvertakenRefused, NEW r \in Request, UNCHANGED <<op, authVars>>,
         pc[r] \in {"saving", "assigning", "granting"}, NEW out \in {"granting", "ok", "error"}, End(r, out)
  PROVE  CacheInv' /\ OnlyOvertakenRefused'
<1>1. pc'[r] = out /\ \A q \in Request \ {r} : pc'[q] = pc[q]
  BY DEF TypeOK, End
<1>2. CacheInv'
  BY <1>1 DEF CacheInv, authVars
<1>3. OnlyOvertakenRefused'
  BY <1>1 DEF OnlyOvertakenRefused, authVars
<1> QED BY <1>2, <1>3

\* authenticate reads the service.
LEMMA ReadKeepsInv == ASSUME ApiInv, NEW r \in Request, ReadService(r) PROVE ApiInv'
<1>1. TypeOK'
  <2>1. mixed' \in BOOLEAN
    BY DEF ApiInv, TypeOK, ReadService
  <2>2. /\ pc' \in [Request -> {"idle", "sent", "read", "saving", "assigning", "granting",
                           "ok", "missing", "error", "refused", "dropped"}]
        /\ copy' \in [Request -> SUBSET Request]
    BY DEF ApiInv, TypeOK, ReadService
  <2> QED BY <2>1, <2>2 DEF ApiInv, TypeOK, ReadService, authVars, tokenVars, joinVars
<1>2. /\ pc[r] = "sent" /\ pc'[r] = "read" /\ \A q \in Request \ {r} : pc'[q] = pc[q]
      /\ UNCHANGED <<op, authVars, tokenVars, joinVars>>
  BY DEF ApiInv, TypeOK, ReadService
<1>3. CacheInv'
  BY <1>2 DEF ApiInv, CacheInv, authVars
<1>4. OnlyOvertakenRefused'
  BY <1>2 DEF ApiInv, OnlyOvertakenRefused, authVars
<1>5. TokenInv' /\ TokenSpentOnce'
  BY <1>2, TokenFrame DEF ApiInv
<1> QED BY <1>1, <1>3, <1>4, <1>5 DEF ApiInv

\* An outdated request was overtaken, or has a double.
LEMMA RefuseKeepsInv == ASSUME ApiInv, NEW r \in Request, RefuseRequest(r) PROVE ApiInv'
<1>1. TypeOK'
  BY DEF ApiInv, TypeOK, RefuseRequest, authVars, storeVars, tokenVars, joinVars
<1>2. /\ pc[r] = "read" /\ pc'[r] = "refused" /\ \A q \in Request \ {r} : pc'[q] = pc[q]
      /\ UNCHANGED <<op, authVars, tokenVars, joinVars>>
  BY DEF ApiInv, TypeOK, RefuseRequest
<1>3. CacheInv'
  BY <1>2 DEF ApiInv, CacheInv, authVars
<1>4. r \in overtaken \/ \E q \in Request \ {r} : pc[q] # "idle" /\ stamp[q] = stamp[r]
  <2>1. cache # None /\ (stamp[r][1] < cache[1] \/ stamp[r] = cache)
    BY DEF RefuseRequest, Outdated
  <2>2. cache[1] \in Nat /\ stamp[r][1] \in Nat
    BY <1>2, <2>1 DEF ApiInv, TypeOK, CacheInv, Stamp
  <2>3. r \in overtaken \/ stamp[r] = cache
    BY <1>2, <2>1, <2>2 DEF ApiInv, CacheInv
  <2>4. PICK q \in Request : pc[q] \notin {"idle", "sent", "read"} /\ stamp[q] = cache
    BY <2>1 DEF ApiInv, CacheInv
  <2> QED BY <1>2, <2>3, <2>4
<1>5. OnlyOvertakenRefused'
  BY <1>2, <1>4 DEF ApiInv, OnlyOvertakenRefused, authVars
<1>6. TokenInv' /\ TokenSpentOnce'
  BY <1>2, TokenFrame DEF ApiInv
<1> QED BY <1>1, <1>3, <1>5, <1>6 DEF ApiInv

\* Who is let in leaves a cache and a list of who was overtaken.
LEMMA LetInType ==
  ASSUME ApiInv, NEW r \in Request, LetIn(r)
  PROVE  /\ cache' \in Stamp \cup {None} /\ overtaken' \subseteq Request
         /\ now' \in 0..MaxNow /\ stamp' \in [Request -> Stamp \cup {None}]
         /\ room[r] \in Request \cup {None} /\ copy[r] \subseteq Request
  BY DEF ApiInv, TypeOK, LetIn, Underway

\* A copy of the service, changed or not, can be written.
LEMMA SavedWrites ==
  ASSUME ApiInv, NEW r \in Request, NEW S \in SUBSET Request, Save(r, S)
  PROVE  writes' \subseteq Write
<1>1. [by |-> r, kind |-> "save", rooms |-> S] \in Write
  BY DEF Write
<1> QED BY <1>1 DEF ApiInv, TypeOK, Save

\* No room, no effect.
LEMMA MissingKeepsInv == ASSUME ApiInv, NEW r \in Request, RoomMissing(r) PROVE ApiInv'
<1>1. TypeOK'
  BY LetInType DEF ApiInv, TypeOK, RoomMissing, End, storeVars, tokenVars, joinVars
<1>2. /\ LetIn(r) /\ End(r, "missing") /\ op' = op /\ UNCHANGED <<tokenVars, joinVars>>
      /\ pc[r] = "read"
  BY DEF RoomMissing, LetIn
<1>3. CacheInv' /\ OnlyOvertakenRefused'
  BY <1>2, LetInKeepsCache DEF ApiInv
<1>4. \A t \in Request : pc[t] = "ok" => pc'[t] = "ok"
  BY <1>2 DEF ApiInv, TypeOK, End
<1>5. TokenInv' /\ TokenSpentOnce'
  BY <1>2, <1>4, TokenFrame DEF ApiInv
<1> QED BY <1>1, <1>3, <1>5 DEF ApiInv

\* createRoom is let in.
LEMMA CreateRoomKeepsInv == ASSUME ApiInv, NEW r \in Request, CreateRoom(r) PROVE ApiInv'
<1>1. TypeOK'
  BY LetInType DEF ApiInv, TypeOK, CreateRoom, End, storeVars, tokenVars, joinVars
<1>2. /\ LetIn(r) /\ End(r, "saving") /\ op' = op /\ UNCHANGED <<tokenVars, joinVars>>
      /\ pc[r] = "read"
  BY DEF CreateRoom, LetIn
<1>3. CacheInv' /\ OnlyOvertakenRefused'
  BY <1>2, LetInKeepsCache DEF ApiInv
<1>4. \A t \in Request : pc[t] = "ok" => pc'[t] = "ok"
  BY <1>2 DEF ApiInv, TypeOK, End
<1>5. TokenInv' /\ TokenSpentOnce'
  BY <1>2, <1>4, TokenFrame DEF ApiInv
<1> QED BY <1>1, <1>3, <1>5 DEF ApiInv

\* updateRoom and patchRoom save the copy.
LEMMA UpdateKeepsInv == ASSUME ApiInv, NEW r \in Request, UpdateRoom(r) PROVE ApiInv'
<1>1. TypeOK'
  <2>1. writes' \subseteq Write
    BY LetInType, SavedWrites DEF UpdateRoom
  <2> QED BY <2>1, LetInType DEF ApiInv, TypeOK, UpdateRoom, End, tokenVars, joinVars
<1>2. /\ LetIn(r) /\ End(r, "ok") /\ op' = op /\ UNCHANGED <<tokenVars, joinVars>>
      /\ pc[r] = "read"
  BY DEF UpdateRoom, LetIn
<1>3. CacheInv' /\ OnlyOvertakenRefused'
  BY <1>2, LetInKeepsCache DEF ApiInv
<1>4. \A t \in Request : pc[t] = "ok" => pc'[t] = "ok"
  BY <1>2 DEF ApiInv, TypeOK, End
<1>5. TokenInv' /\ TokenSpentOnce'
  BY <1>2, <1>4, TokenFrame DEF ApiInv
<1> QED BY <1>1, <1>3, <1>5 DEF ApiInv

\* deleteRoom saves the copy without the room.
LEMMA DeleteKeepsInv == ASSUME ApiInv, NEW r \in Request, DeleteRoom(r) PROVE ApiInv'
<1>1. TypeOK'
  <2>1. writes' \subseteq Write
    BY LetInType, SavedWrites DEF DeleteRoom
  <2>2. removing' \subseteq Request
    BY LetInType DEF ApiInv, TypeOK, DeleteRoom
  <2> QED BY <2>1, <2>2, LetInType DEF ApiInv, TypeOK, DeleteRoom, End, tokenVars, joinVars
<1>2. /\ LetIn(r) /\ End(r, "ok") /\ op' = op /\ UNCHANGED <<tokenVars, joinVars>>
      /\ pc[r] = "read"
  BY DEF DeleteRoom, LetIn
<1>3. CacheInv' /\ OnlyOvertakenRefused'
  BY <1>2, LetInKeepsCache DEF ApiInv
<1>4. \A t \in Request : pc[t] = "ok" => pc'[t] = "ok"
  BY <1>2 DEF ApiInv, TypeOK, End
<1>5. TokenInv' /\ TokenSpentOnce'
  BY <1>2, <1>4, TokenFrame DEF ApiInv
<1> QED BY <1>1, <1>3, <1>5 DEF ApiInv

\* createToken is let in.
LEMMA CreateTokenKeepsInv == ASSUME ApiInv, NEW r \in Request, CreateToken(r) PROVE ApiInv'
<1>1. TypeOK'
  BY LetInType DEF ApiInv, TypeOK, CreateToken, End, storeVars, tokenVars, joinVars
<1>2. /\ LetIn(r) /\ End(r, "assigning") /\ op' = op /\ UNCHANGED <<tokenVars, joinVars>>
      /\ pc[r] = "read"
  BY DEF CreateToken, LetIn
<1>3. CacheInv' /\ OnlyOvertakenRefused'
  BY <1>2, LetInKeepsCache DEF ApiInv
<1>4. \A t \in Request : pc[t] = "ok" => pc'[t] = "ok"
  BY <1>2 DEF ApiInv, TypeOK, End
<1>5. TokenInv' /\ TokenSpentOnce'
  BY <1>2, <1>4, TokenFrame DEF ApiInv
<1> QED BY <1>1, <1>3, <1>5 DEF ApiInv

\* A room is there: the list of rooms is to be written.
LEMMA RoomSavedKeepsInv == ASSUME ApiInv, NEW r \in Request, RoomSaved(r) PROVE ApiInv'
<1>1. TypeOK'
  <2>1. [by |-> r, kind |-> "add"] \in Write
    BY DEF Write
  <2>2. writes' \subseteq Write /\ roomDocs' \subseteq Request
    BY <2>1 DEF ApiInv, TypeOK, RoomSaved
  <2> QED BY <2>2 DEF ApiInv, TypeOK, RoomSaved, End, authVars, tokenVars, joinVars
<1>2. CacheInv' /\ OnlyOvertakenRefused'
  BY ProgressKeepsCache DEF ApiInv, RoomSaved
<1>3. \A t \in Request : pc[t] = "ok" => pc'[t] = "ok"
  BY DEF ApiInv, TypeOK, RoomSaved, End
<1>4. TokenInv' /\ TokenSpentOnce'
  BY <1>3, TokenFrame DEF ApiInv, RoomSaved
<1> QED BY <1>1, <1>2, <1>4 DEF ApiInv

\* The room is there.
LEMMA RoomReadKeepsInv == ASSUME ApiInv, NEW r \in Request, RoomRead(r) PROVE ApiInv'
<1>1. TypeOK'
  BY DEF ApiInv, TypeOK, RoomRead, End, authVars, storeVars, tokenVars, joinVars
<1>2. CacheInv' /\ OnlyOvertakenRefused'
  BY ProgressKeepsCache DEF ApiInv, RoomRead
<1>3. \A t \in Request : pc[t] = "ok" => pc'[t] = "ok"
  BY DEF ApiInv, TypeOK, RoomRead, End
<1>4. TokenInv' /\ TokenSpentOnce'
  BY <1>3, TokenFrame DEF ApiInv, RoomRead
<1> QED BY <1>1, <1>2, <1>4 DEF ApiInv

\* The room is not, and nuve starts anew: nobody is refused or admitted by that,
\* and a token whose removal was under way is gone.
LEMMA StopKeepsInv == ASSUME ApiInv, NEW r \in Request, NuveStops(r) PROVE ApiInv'
<1>1. /\ \A q \in Request :
           \/ pc'[q] = pc[q] /\ pc[q] \notin {"read", "saving", "assigning", "granting"}
           \/ pc'[q] = "dropped" /\ pc[q] \in {"read", "saving", "assigning", "granting"}
      /\ \A j \in Join :
           \/ join'[j] = join[j] /\ join[j] \notin {"asked", "found", "sure"}
           \/ join'[j] = "dropped" /\ join[j] \in {"asked", "found", "sure"}
      /\ cache' = None /\ tokens' \subseteq tokens
      /\ UNCHANGED <<op, now, stamp, overtaken, aged, old, with, spent, behind>>
  BY DEF NuveStops
<1>2. TypeOK'
  <2>1. pc' \in [Request -> {"idle", "sent", "read", "saving", "assigning", "granting",
                             "ok", "missing", "error", "refused", "dropped"}]
    BY DEF ApiInv, TypeOK, NuveStops
  <2>2. join' \in [Join -> {"idle", "asked", "found", "sure", "admitted", "refused", "unanswered", "dropped"}]
    BY DEF ApiInv, TypeOK, NuveStops
  <2>3. roomDocs' \subseteq Request
    BY DEF ApiInv, TypeOK, NuveStops
  <2> QED BY <1>1, <2>1, <2>2, <2>3 DEF ApiInv, TypeOK, NuveStops
<1>3. CacheInv'
  BY <1>1 DEF ApiInv, CacheInv
<1>4. OnlyOvertakenRefused'
  BY <1>1 DEF ApiInv, OnlyOvertakenRefused
<1>5. TokenInv'
  <2>1. /\ \A t \in tokens' \cup spent' \cup aged' : pc'[t] = "ok"
        /\ tokens' \cap spent' = {} /\ old' \subseteq aged'
    BY <1>1 DEF ApiInv, TypeOK, TokenInv
  <2>2. ASSUME NEW j \in Join
        PROVE  /\ join'[j] # "idle" => with'[j] \in Request
               /\ join'[j] \in {"found", "sure"} => with'[j] \in tokens' \cup spent' \cup aged'
               /\ j \in behind' => join'[j] \in {"asked", "refused", "dropped"} /\ with'[j] \in spent'
    BY <1>1 DEF ApiInv, TypeOK, TokenInv
  <2> QED BY <2>1, <2>2 DEF TokenInv
<1>6. TokenSpentOnce'
  BY <1>1 DEF ApiInv, TokenSpentOnce
<1> QED BY <1>2, <1>3, <1>4, <1>5, <1>6 DEF ApiInv

\* A room without an EC: no token.
LEMMA TokenFailsKeepsInv == ASSUME ApiInv, NEW r \in Request, TokenFails(r) PROVE ApiInv'
<1>1. TypeOK'
  BY DEF ApiInv, TypeOK, TokenFails, End, authVars, storeVars, tokenVars, joinVars
<1>2. CacheInv' /\ OnlyOvertakenRefused'
  BY ProgressKeepsCache DEF ApiInv, TokenFails
<1>3. \A t \in Request : pc[t] = "ok" => pc'[t] = "ok"
  BY DEF ApiInv, TypeOK, TokenFails, End
<1>4. TokenInv' /\ TokenSpentOnce'
  BY <1>3, TokenFrame DEF ApiInv, TokenFails
<1> QED BY <1>1, <1>2, <1>4 DEF ApiInv

\* Writes of the database do not touch requests, tokens and joins.
LEMMA StoreKeepsInv ==
  ASSUME ApiInv, (\E w \in writes : WriteService(w)) \/ (\E x \in removing : RemoveRoom(x))
  PROVE  ApiInv'
<1>1. UNCHANGED <<requestVars, authVars, mixed, tokenVars, joinVars>>
  BY DEF WriteService, RemoveRoom
<1>2. TypeOK'
  <2>1. ASSUME NEW w \in writes, WriteService(w) PROVE TypeOK'
    <3>1. w \in Write
      BY DEF ApiInv, TypeOK
    <3>2. w.by \in Request /\ (w.kind # "add" => w.rooms \subseteq Request)
      BY <3>1 DEF Write
    <3>3. writes' \subseteq Write /\ service' \subseteq Request
      BY <2>1, <3>2 DEF ApiInv, TypeOK, WriteService
    <3> QED BY <1>1, <2>1, <3>3
         DEF ApiInv, TypeOK, WriteService, requestVars, authVars, tokenVars, joinVars
  <2>2. ASSUME NEW x \in removing, RemoveRoom(x) PROVE TypeOK'
    BY <1>1, <2>2 DEF ApiInv, TypeOK, RemoveRoom, requestVars, authVars, tokenVars, joinVars
  <2> QED BY <2>1, <2>2
<1>3. CacheInv' /\ OnlyOvertakenRefused'
  BY <1>1, CacheFrame DEF ApiInv, TypeOK, authVars
<1>4. TokenInv' /\ TokenSpentOnce'
  BY <1>1, TokenFrame DEF ApiInv, requestVars
<1> QED BY <1>2, <1>3, <1>4 DEF ApiInv

\* A token is saved once: it has not been spent.
LEMMA TokenSavedKeepsInv == ASSUME ApiInv, NEW r \in Request, TokenSaved(r) PROVE ApiInv'
<1>1. TypeOK'
  BY DEF ApiInv, TypeOK, TokenSaved, End, authVars, storeVars, joinVars
<1>2. CacheInv' /\ OnlyOvertakenRefused'
  BY ProgressKeepsCache DEF ApiInv, TokenSaved
<1>3. /\ \A t \in Request : pc[t] = "ok" => pc'[t] = "ok"
      /\ pc'[r] = "ok" /\ pc[r] = "granting" /\ tokens' = tokens \cup {r}
      /\ UNCHANGED <<aged, old, joinVars>>
  BY DEF ApiInv, TypeOK, TokenSaved, End
<1>4. r \notin spent
  BY <1>3 DEF ApiInv, TokenInv
<1>5. TokenInv'
  BY <1>3, <1>4 DEF ApiInv, TokenInv, TypeOK, joinVars
<1>6. TokenSpentOnce'
  BY <1>3 DEF ApiInv, TokenSpentOnce, joinVars
<1> QED BY <1>1, <1>2, <1>5, <1>6 DEF ApiInv

\* Tokens grow old.
LEMMA AgeKeepsInv ==
  ASSUME ApiInv, NEW t \in Request, Age(t)
  PROVE  ApiInv'
<1>1. TypeOK'
  BY DEF ApiInv, TypeOK, Age, joinVars, requestVars, authVars, storeVars, tokenVars
<1>2. CacheInv' /\ OnlyOvertakenRefused'
  BY CacheFrame DEF ApiInv, TypeOK, Age, joinVars, authVars
<1>3. TokenInv'
  BY DEF ApiInv, TokenInv, Age, requestVars, joinVars
<1>4. TokenSpentOnce'
  BY DEF ApiInv, TokenSpentOnce, Age, joinVars
<1> QED BY <1>1, <1>2, <1>3, <1>4 DEF ApiInv

\* An old token is removed for its age.
LEMMA RemoveOldKeepsInv ==
  ASSUME ApiInv, NEW t \in Request, RemoveOld(t)
  PROVE  ApiInv'
<1>1. TypeOK'
  BY DEF ApiInv, TypeOK, RemoveOld, joinVars, requestVars, authVars, storeVars, tokenVars
<1>2. CacheInv' /\ OnlyOvertakenRefused'
  BY CacheFrame DEF ApiInv, TypeOK, RemoveOld, joinVars, authVars
<1>3. TokenInv'
  BY DEF ApiInv, TokenInv, RemoveOld, requestVars, joinVars
<1>4. TokenSpentOnce'
  BY DEF ApiInv, TokenSpentOnce, RemoveOld, joinVars
<1> QED BY <1>1, <1>2, <1>3, <1>4 DEF ApiInv

\* A join that asks with a spent token is behind.
LEMMA UseKeepsInv ==
  ASSUME ApiInv, NEW j \in Join, NEW t \in Request, UseToken(j, t)
  PROVE  ApiInv'
<1>1. TypeOK'
  BY DEF ApiInv, TypeOK, UseToken, OldTokens, requestVars, authVars, storeVars
<1>2. CacheInv' /\ OnlyOvertakenRefused'
  BY CacheFrame DEF ApiInv, TypeOK, UseToken, authVars
<1>3. /\ join[j] = "idle" /\ join'[j] = "asked" /\ with'[j] = t
      /\ \A k \in Join \ {j} : join'[k] = join[k] /\ with'[k] = with[k]
      /\ UNCHANGED <<tokens, aged, spent, pc>> /\ old' = old \cup (tokens \cap aged)
      /\ behind' = IF t \in spent THEN behind \cup {j} ELSE behind
  BY DEF ApiInv, TypeOK, UseToken, OldTokens, requestVars
<1>4. j \notin behind
  BY <1>3 DEF ApiInv, TokenInv
<1>5. TokenInv'
  BY <1>3, <1>4 DEF ApiInv, TokenInv
<1>6. TokenSpentOnce'
  BY <1>3 DEF ApiInv, TokenSpentOnce
<1> QED BY <1>1, <1>2, <1>5, <1>6 DEF ApiInv

\* A step of a join from one state to the next.
LEMMA JoinStepType ==
  ASSUME TypeOK, NEW j \in Join,
         NEW from \in {"asked", "found", "sure"}, NEW to \in {"found", "sure", "admitted", "refused", "unanswered"},
         JoinStep(j, from, to)
  PROVE  /\ join' \in [Join -> {"idle", "asked", "found", "sure", "admitted", "refused", "unanswered", "dropped"}]
         /\ join[j] = from /\ join'[j] = to /\ \A k \in Join \ {j} : join'[k] = join[k]
  BY DEF TypeOK, JoinStep

\* Who is behind does not find its token.
LEMMA LookUpKeepsInv ==
  ASSUME ApiInv, NEW j \in Join, LookUp(j)
  PROVE  ApiInv'
<1>1. PICK to \in {"found", "refused"} :
         JoinStep(j, "asked", to) /\ (to = "found" <=> with[j] \in tokens)
  BY DEF LookUp
<1>2. /\ join' \in [Join -> {"idle", "asked", "found", "sure", "admitted", "refused", "unanswered", "dropped"}]
      /\ join[j] = "asked" /\ join'[j] = to /\ \A k \in Join \ {j} : join'[k] = join[k]
      /\ UNCHANGED <<requestVars, authVars, storeVars, tokenVars, with, spent, behind>>
  BY <1>1, JoinStepType DEF ApiInv, LookUp
<1>3. TypeOK'
  BY <1>2 DEF ApiInv, TypeOK, requestVars, authVars, storeVars, tokenVars
<1>4. CacheInv' /\ OnlyOvertakenRefused'
  BY <1>2, CacheFrame DEF ApiInv, TypeOK, authVars
<1>5. TokenInv'
  BY <1>1, <1>2 DEF ApiInv, TokenInv, tokenVars, requestVars
<1>6. TokenSpentOnce'
  BY <1>1, <1>2 DEF ApiInv, TokenSpentOnce, tokenVars
<1> QED BY <1>3, <1>4, <1>5, <1>6 DEF ApiInv

\* Between the two looks the token went to another, or was too old.
LEMMA LookAgainKeepsInv ==
  ASSUME ApiInv, NEW j \in Join, LookAgain(j)
  PROVE  ApiInv'
<1>1. PICK to \in {"sure", "unanswered"} :
         JoinStep(j, "found", to) /\ (to = "sure" <=> with[j] \in tokens)
  BY DEF LookAgain
<1>2. /\ join' \in [Join -> {"idle", "asked", "found", "sure", "admitted", "refused", "unanswered", "dropped"}]
      /\ join[j] = "found" /\ join'[j] = to /\ \A k \in Join \ {j} : join'[k] = join[k]
      /\ UNCHANGED <<requestVars, authVars, storeVars, tokenVars, with, spent, behind>>
  BY <1>1, JoinStepType DEF ApiInv, LookAgain
<1>3. TypeOK'
  BY <1>2 DEF ApiInv, TypeOK, requestVars, authVars, storeVars, tokenVars
<1>4. CacheInv' /\ OnlyOvertakenRefused'
  BY <1>2, CacheFrame DEF ApiInv, TypeOK, authVars
<1>5. TokenInv'
  BY <1>1, <1>2 DEF ApiInv, TokenInv, tokenVars, requestVars
<1>6. TokenSpentOnce'
  BY <1>1, <1>2 DEF ApiInv, TokenInv, TokenSpentOnce, tokenVars
<1> QED BY <1>3, <1>4, <1>5, <1>6 DEF ApiInv

\* Who is admitted spends the token.
LEMMA AdmitKeepsInv ==
  ASSUME ApiInv, NEW j \in Join, Admit(j)
  PROVE  ApiInv'
<1>1. /\ join' \in [Join -> {"idle", "asked", "found", "sure", "admitted", "refused", "unanswered", "dropped"}]
      /\ join[j] = "sure" /\ join'[j] = "admitted" /\ \A k \in Join \ {j} : join'[k] = join[k]
      /\ UNCHANGED <<requestVars, authVars, storeVars, aged, old, with, behind>>
      /\ tokens' = tokens \ {with[j]} /\ spent' = spent \cup {with[j]}
  BY JoinStepType DEF ApiInv, Admit
<1>2. with[j] \in Request /\ with[j] \in tokens \cup spent \cup aged
  BY <1>1 DEF ApiInv, TokenInv
<1>3. TypeOK'
  BY <1>1, <1>2 DEF ApiInv, TypeOK, requestVars, authVars, storeVars
<1>4. CacheInv' /\ OnlyOvertakenRefused'
  BY <1>1, CacheFrame DEF ApiInv, TypeOK, authVars
<1>5. TokenInv'
  BY <1>1, <1>2 DEF ApiInv, TokenInv, requestVars
<1>6. TokenSpentOnce'
  BY <1>1 DEF ApiInv, TokenInv, TokenSpentOnce
<1> QED BY <1>3, <1>4, <1>5, <1>6 DEF ApiInv

\* Every step keeps the invariant.
LEMMA NextKeepsInv == ApiInv /\ [Next]_vars => ApiInv'
<1> SUFFICES ASSUME ApiInv, [Next]_vars PROVE ApiInv'
  OBVIOUS
<1>1. CASE UNCHANGED vars
  <2> USE <1>1 DEF vars, authVars, requestVars, storeVars, tokenVars, joinVars
  <2>1. TypeOK'
    BY DEF ApiInv, TypeOK
  <2>2. CacheInv' /\ OnlyOvertakenRefused'
    BY DEF ApiInv, CacheInv, OnlyOvertakenRefused
  <2>3. TokenInv' /\ TokenSpentOnce'
    BY DEF ApiInv, TokenInv, TokenSpentOnce
  <2> QED BY <2>1, <2>2, <2>3 DEF ApiInv
<1>2. CASE Tick
  BY <1>2, TickKeepsInv
<1>3. ASSUME NEW r \in Request, NEW o \in Op, NEW x \in Request \cup {None}, NEW n \in Nonce, Send(r, o, x, n)
      PROVE  ApiInv'
  BY <1>3, SendKeepsInv
<1>4. ASSUME NEW r \in Request, RequestStep(r) PROVE ApiInv'
  BY <1>4, ReadKeepsInv, RefuseKeepsInv, MissingKeepsInv, CreateRoomKeepsInv, RoomSavedKeepsInv,
     UpdateKeepsInv, DeleteKeepsInv, CreateTokenKeepsInv, RoomReadKeepsInv, StopKeepsInv,
     TokenSavedKeepsInv, TokenFailsKeepsInv
     DEF RequestStep
<1>5. CASE (\E w \in writes : WriteService(w)) \/ (\E x \in removing : RemoveRoom(x))
  BY <1>5, StoreKeepsInv
<1>6. ASSUME NEW t \in Request, Age(t) \/ RemoveOld(t) PROVE ApiInv'
  BY <1>6, AgeKeepsInv, RemoveOldKeepsInv
<1>7. ASSUME NEW j \in Join, NEW t \in Request, UseToken(j, t) PROVE ApiInv'
  BY <1>7, UseKeepsInv
<1>8. ASSUME NEW j \in Join, LookUp(j) \/ LookAgain(j) \/ Admit(j) PROVE ApiInv'
  BY <1>8, LookUpKeepsInv, LookAgainKeepsInv, AdmitKeepsInv
<1> QED BY <1>1, <1>2, <1>3, <1>4, <1>5, <1>6, <1>7, <1>8 DEF Next

\* The invariant of every behaviour.
THEOREM ApiInvariance == Spec => []ApiInv
<1> QED BY InitEstablishesInv, NextKeepsInv, PTL DEF Spec

\* Requests, documents and tokens of nuve keep to their types.
THEOREM TypeCorrect == Spec => []TypeOK
<1>1. ApiInv => TypeOK
  BY DEF ApiInv
<1> QED BY <1>1, ApiInvariance, PTL

\* No request is refused as outdated but one that was overtaken or has a double
\* (checkTimestamp in nuveAuthenticator.js).
THEOREM RefusedWereOvertaken == Spec => []OnlyOvertakenRefused
<1>1. ApiInv => OnlyOvertakenRefused
  BY DEF ApiInv
<1> QED BY <1>1, ApiInvariance, PTL

\* A spent token admits nobody who asks later, and a join without an answer lost
\* its token to another or to its age (deleteToken in nuve's rpcPublic.js).
THEOREM TokensAreSpentOnce == Spec => []TokenSpentOnce
<1>1. ApiInv => TokenSpentOnce
  BY DEF ApiInv
<1> QED BY <1>1, ApiInvariance, PTL

-----------------------------------------------------------------------------
(* The list of rooms and the collection of rooms.                          *)

StoreFacts == WriterInv /\ StoreInv

\* Nothing was written at first.
LEMMA InitEstablishesStores == Init => StoreFacts
<1> SUFFICES ASSUME Init PROVE StoreFacts
  OBVIOUS
<1>1. Active = {} /\ Writing = {} /\ AddedBy = {}
  BY DEF Init, Active, Writing, AddedBy
<1>2. WriterInv
  BY DEF Init, WriterInv
<1>3. StoreInv
  BY <1>1 DEF Init, StoreInv
<1> QED BY <1>2, <1>3 DEF StoreFacts

\* Whoever adds a room is a writer that creates.
LEMMA AddersWrite ==
  ASSUME TypeOK, WriterInv
  PROVE  AddedBy \subseteq {r \in Writing : op[r] = "create"}
<1> SUFFICES ASSUME NEW r \in Request, NEW w \in writes, w.by = r, w.kind = "add"
             PROVE  r \in Writing /\ op[r] = "create"
  BY DEF AddedBy
<1>1. op[r] = "create"
  BY DEF WriterInv
<1> QED BY <1>1 DEF Writing, Writer

\* What conflicts, spelled out.
LEMMA ConflictCases ==
  ASSUME NEW o \in Op, NEW p \in Op
  PROVE  Conflict(o, p) <=> \/ o \in Saver /\ p \in Writer
                            \/ p \in Saver /\ o \in Writer
                            \/ o = "delete" /\ p = "token"
                            \/ o = "token" /\ p = "delete"
<1>1. {o, p} \subseteq Writer <=> o \in Writer /\ p \in Writer
  OBVIOUS
<1>2. {o, p} \cap Saver # {} <=> o \in Saver \/ p \in Saver
  <2>1. o \in Saver \/ p \in Saver => {o, p} \cap Saver # {}
    OBVIOUS
  <2> QED BY <2>1
<1>3. {o, p} = {"delete", "token"} <=> (o = "delete" /\ p = "token") \/ (o = "token" /\ p = "delete")
  <2>1. ASSUME {o, p} = {"delete", "token"}
        PROVE  (o = "delete" /\ p = "token") \/ (o = "token" /\ p = "delete")
    <3>1. o \in {"delete", "token"} /\ p \in {"delete", "token"}
      BY <2>1
    <3>2. "delete" \in {o, p} /\ "token" \in {o, p}
      BY <2>1
    <3> QED BY <3>1, <3>2
  <2> QED BY <2>1
<1>4. \A x \in Saver : x \in Writer
  BY DEF Writer
<1> QED BY <1>1, <1>2, <1>3, <1>4 DEF Conflict

\* A saver that writes is the only writer, as long as nothing conflicts.
LEMMA SaverAlone ==
  ASSUME TypeOK, StoreInv, ~mixed, NEW s \in Writing, op[s] \in Saver
  PROVE  /\ Writing = {s}
         /\ op[s] = "delete" => \A q \in Request : op[q] = "token" => pc[q] \notin {"read", "assigning"}
<1>1. s \in Active /\ Writing \subseteq Active
  BY DEF Active
<1>2. \A q \in Active \ {s} : ~Conflict(op[q], op[s])
  BY <1>1 DEF StoreInv
<1>3. op[s] \in Op
  BY DEF Op, Saver
<1>4. ASSUME NEW q \in Writing, q # s PROVE FALSE
  <2>1. op[q] \in Writer /\ q \in Request
    BY <1>4 DEF Writing
  <2>2. op[q] \in Op
    BY <2>1 DEF Op, Writer, Saver
  <2> QED BY <1>1, <1>2, <1>3, <1>4, <2>1, <2>2, ConflictCases
<1>5. ASSUME op[s] = "delete", NEW q \in Request, op[q] = "token", pc[q] \in {"read", "assigning"}
      PROVE  FALSE
  <2>1. q \in Active /\ q # s
    BY <1>5 DEF Active
  <2> QED BY <1>2, <1>3, <1>5, <2>1, ConflictCases DEF Op
<1> QED BY <1>4, <1>5

\* Steps of nobody who writes.
LEMMA StoreFrame ==
  ASSUME TypeOK, StoreFacts, UNCHANGED <<requestVars, storeVars>>
  PROVE  StoreFacts'
<1> USE DEF requestVars, storeVars
<1>1. Writing' = Writing /\ Active' = Active /\ AddedBy' = AddedBy /\ \A r \in Request : Saved(r)' = Saved(r)
  BY DEF Writing, Active, AddedBy, Saved
<1>2. WriterInv'
  BY DEF StoreFacts, WriterInv, Saved
<1>3. StoreInv'
  BY <1>1 DEF StoreFacts, StoreInv, Writing
<1> QED BY <1>2, <1>3 DEF StoreFacts

\* A request that was sent writes nothing yet.
LEMMA SendKeepsStores ==
  ASSUME TypeOK, StoreFacts, NEW r \in Request, NEW o \in Op, NEW x \in Request \cup {None},
         NEW n \in Nonce, Send(r, o, x, n)
  PROVE  StoreFacts'
<1>1. /\ pc[r] = "idle" /\ pc'[r] = "sent" /\ op'[r] = o /\ room'[r] = x
      /\ \A q \in Request \ {r} : pc'[q] = pc[q] /\ op'[q] = op[q] /\ room'[q] = room[q]
      /\ o # "create" => x \in Request /\ op[x] = "create" /\ pc[x] = "ok"
      /\ UNCHANGED <<copy, storeVars>>
  BY DEF Send, TypeOK
<1>2. \A w \in writes : w.by \in Request \ {r}
  BY <1>1 DEF TypeOK, Write, StoreFacts, WriterInv
<1>3. Writing' = Writing /\ Active' = Active /\ AddedBy' = AddedBy /\ r \notin Active
  BY <1>1, <1>2 DEF Writing, Active, AddedBy, storeVars
<1>4. WriterInv'
  BY <1>1, <1>2 DEF StoreFacts, WriterInv, Saved, storeVars
<1>5. StoreInv'
  BY <1>1, <1>3 DEF StoreFacts, StoreInv, Saved, storeVars, Writing, Active
<1> QED BY <1>4, <1>5 DEF StoreFacts

\* A copy of the service is as good as the service: if it is to be saved, nobody
\* writes; if it is for a token, nobody deletes.
LEMMA ReadKeepsStores ==
  ASSUME TypeOK, CacheInv, StoreFacts, NEW r \in Request, ReadService(r)
  PROVE  StoreFacts'
<1>1. /\ pc[r] = "sent" /\ pc'[r] = "read" /\ copy'[r] = service
      /\ \A q \in Request \ {r} : pc'[q] = pc[q] /\ copy'[q] = copy[q]
      /\ UNCHANGED <<op, room, service, roomDocs, removing, writes>>
      /\ ~mixed' => ~mixed /\ \A q \in Active : ~Conflict(op[q], op[r])
      /\ op[r] \in Op
  BY DEF ReadService, TypeOK, CacheInv
<1>2. \A w \in writes : w.by \in Request \ {r}
  BY <1>1 DEF TypeOK, Write, StoreFacts, WriterInv
<1>3. AddedBy' = AddedBy
  BY <1>1 DEF AddedBy
<1>4. /\ Writing' = IF op[r] \in Writer THEN Writing \cup {r} ELSE Writing
      /\ Active' = IF op[r] \in Writer \cup {"token"} THEN Active \cup {r} ELSE Active
      /\ r \notin Active
  BY <1>1, <1>2 DEF Writing, Active
<1>5. WriterInv'
  BY <1>1, <1>2 DEF StoreFacts, WriterInv, Saved
<1>6. ASSUME ~mixed' PROVE StoreInv'
  <2>1. ~mixed /\ \A q \in Active : ~Conflict(op[q], op[r])
    BY <1>1, <1>6
  <2>2. \A p \in Active : op[p] \in Op
    BY DEF Active, Writing, Op, Writer, Saver
  <2>3. \A p, q \in Active' : p # q => ~Conflict(op'[p], op'[q])
    <3> SUFFICES ASSUME NEW p \in Active', NEW q \in Active', p # q PROVE ~Conflict(op[p], op[q])
      BY <1>1
    <3>1. CASE p \in Active /\ q \in Active
      BY <2>1, <3>1 DEF StoreFacts, StoreInv
    <3>2. CASE p \in Active /\ q = r
      BY <2>1, <3>2
    <3>3. CASE q \in Active /\ p = r
      BY <1>1, <2>1, <2>2, <3>3, ConflictCases
    <3> QED BY <1>4, <3>1, <3>2, <3>3
  <2>4. (\A q \in Writing' : op'[q] = "create") => service' \cup AddedBy' = roomDocs'
    BY <1>1, <1>3, <1>4, <2>1 DEF StoreFacts, StoreInv, Writer
  <2>5. ASSUME NEW q \in Writing', op'[q] \in Saver
        PROVE  /\ service' = IF pc'[q] = "read" \/ \E w \in writes' : w.by = q THEN copy'[q] ELSE Saved(q)'
               /\ roomDocs' = IF pc'[q] = "ok" /\ room'[q] \notin removing' THEN Saved(q)' ELSE copy'[q]
    <3>1. CASE q # r
      BY <1>1, <1>4, <2>1, <2>5, <3>1 DEF StoreFacts, StoreInv, Saved, Writing
    <3>2. CASE q = r
      <4>1. ASSUME NEW p \in Writing PROVE FALSE
        <5>1. p \in Active /\ op[p] \in Writer /\ op[p] \in Op
          BY <2>2 DEF Active, Writing
        <5> QED BY <1>1, <2>1, <2>5, <3>2, <5>1, ConflictCases
      <4>2. service \cup AddedBy = roomDocs /\ AddedBy = {}
        BY <2>1, <4>1, AddersWrite DEF StoreFacts, StoreInv
      <4> QED BY <1>1, <3>2, <4>2
    <3> QED BY <3>1, <3>2
  <2>6. ASSUME NEW q \in Request, op'[q] = "token"
        PROVE  /\ pc'[q] = "read" => copy'[q] \subseteq roomDocs'
               /\ pc'[q] = "assigning" => room'[q] \in roomDocs'
    <3>1. CASE q # r
      BY <1>1, <2>1, <2>6, <3>1 DEF StoreFacts, StoreInv
    <3>2. CASE q = r /\ \A p \in Writing : op[p] = "create"
      BY <1>1, <2>1, <3>2 DEF StoreFacts, StoreInv
    <3>3. ASSUME q = r, NEW p \in Writing, op[p] # "create"
          PROVE  service \subseteq roomDocs
      <4>1. p \in Active /\ op[p] \in Saver
        BY <3>3 DEF Active, Writing, Writer
      <4>2. op[p] = "update"
        BY <1>1, <2>1, <2>2, <2>6, <3>3, <4>1, ConflictCases DEF Saver
      <4> QED BY <2>1, <4>1, <4>2 DEF StoreFacts, StoreInv, Saved
    <3> QED BY <1>1, <3>1, <3>2, <3>3
  <2> QED BY <2>3, <2>4, <2>5, <2>6 DEF StoreInv
<1> QED BY <1>5, <1>6 DEF StoreFacts, StoreInv

\* A request that writes nothing ends.
LEMMA EndingKeepsStores ==
  ASSUME TypeOK, StoreFacts, NEW r \in Request, pc[r] = "read", NEW out \in {"refused", "missing"},
         End(r, out), UNCHANGED <<op, room, copy, storeVars>>
  PROVE  StoreFacts'
<1>1. pc'[r] = out /\ \A q \in Request \ {r} : pc'[q] = pc[q]
  BY DEF TypeOK, End
<1>2. \A w \in writes : w.by \in Request \ {r}
  BY DEF TypeOK, Write, StoreFacts, WriterInv
<1>3. Writing' = Writing \ {r} /\ Active' = Active \ {r} /\ AddedBy' = AddedBy
  BY <1>1, <1>2 DEF Writing, Active, AddedBy, storeVars
<1>4. WriterInv'
  BY <1>1, <1>2 DEF StoreFacts, WriterInv, Saved, storeVars
<1>5. ASSUME ~mixed PROVE StoreInv'
  <2>1. (\A q \in Writing' : op'[q] = "create") => service' \cup AddedBy' = roomDocs'
    <3>1. CASE op[r] \in Saver
      <4>1. r \in Writing
        BY <3>1 DEF Writing, Writer
      <4>2. Writing = {r}
        BY <1>5, <3>1, <4>1, SaverAlone DEF StoreFacts
      <4>3. AddedBy = {}
        BY <3>1, <4>2, AddersWrite DEF StoreFacts, Saver
      <4> QED BY <1>3, <1>5, <3>1, <4>1, <4>3 DEF StoreFacts, StoreInv, storeVars
    <3>2. CASE op[r] \notin Saver
      BY <1>3, <1>5, <3>2 DEF StoreFacts, StoreInv, storeVars, Writing, Writer
    <3> QED BY <3>1, <3>2
  <2>2. \A q \in Writing' : op'[q] \in Saver =>
          /\ service' = IF pc'[q] = "read" \/ \E w \in writes' : w.by = q THEN copy'[q] ELSE Saved(q)'
          /\ roomDocs' = IF pc'[q] = "ok" /\ room'[q] \notin removing' THEN Saved(q)' ELSE copy'[q]
    BY <1>1, <1>3, <1>5 DEF StoreFacts, StoreInv, Saved, storeVars, Writing
  <2> QED BY <1>1, <1>3, <1>5, <2>1, <2>2 DEF StoreFacts, StoreInv, storeVars
<1> QED BY <1>4, <1>5 DEF StoreFacts, StoreInv, storeVars

\* A creation that was let in is a writer as before.
LEMMA CreateRoomKeepsStores == ASSUME TypeOK, StoreFacts, NEW r \in Request, CreateRoom(r) PROVE StoreFacts'
<1>1. /\ pc[r] = "read" /\ pc'[r] = "saving" /\ op[r] = "create"
      /\ \A q \in Request \ {r} : pc'[q] = pc[q]
      /\ UNCHANGED <<op, room, copy, storeVars>>
  BY DEF CreateRoom, LetIn, End, TypeOK
<1>2. \A w \in writes : w.by \in Request \ {r}
  BY <1>1 DEF TypeOK, Write, StoreFacts, WriterInv
<1>3. Writing' = Writing /\ Active' = Active /\ AddedBy' = AddedBy
  BY <1>1 DEF Writing, Active, AddedBy, storeVars
<1>4. WriterInv'
  BY <1>1, <1>2 DEF StoreFacts, WriterInv, Saved, storeVars
<1>5. StoreInv'
  BY <1>1, <1>3 DEF StoreFacts, StoreInv, Saved, storeVars, Writing, Saver
<1> QED BY <1>4, <1>5 DEF StoreFacts

\* Steps of a token request that is in its room.
LEMMA TokenStepKeepsStores ==
  ASSUME TypeOK, StoreFacts, NEW r \in Request, op[r] = "token",
         NEW out \in {"assigning", "granting", "ok", "error"}, End(r, out),
         pc[r] \in {"read", "assigning", "granting"},
         pc[r] # "read" => out \in {"granting", "ok", "error"},
         out = "assigning" => room[r] \in copy[r],
         UNCHANGED <<op, room, copy, storeVars>>
  PROVE  StoreFacts'
<1>1. pc'[r] = out /\ \A q \in Request \ {r} : pc'[q] = pc[q]
  BY DEF TypeOK, End
<1>2. \A w \in writes : w.by \in Request \ {r}
  BY DEF TypeOK, Write, StoreFacts, WriterInv
<1>3. Writing' = Writing /\ Active' \subseteq Active /\ AddedBy' = AddedBy /\ r \notin Writing
  BY <1>1, <1>2 DEF Writing, Active, AddedBy, storeVars, Writer, Saver
<1>4. WriterInv'
  BY <1>1, <1>2 DEF StoreFacts, WriterInv, Saved, storeVars
<1>5. StoreInv'
  <2> SUFFICES ASSUME ~mixed PROVE StoreInv'
    BY DEF StoreInv, storeVars
  <2>1. \A q \in Writing' : op'[q] \in Saver =>
          /\ service' = IF pc'[q] = "read" \/ \E w \in writes' : w.by = q THEN copy'[q] ELSE Saved(q)'
          /\ roomDocs' = IF pc'[q] = "ok" /\ room'[q] \notin removing' THEN Saved(q)' ELSE copy'[q]
    BY <1>1, <1>3 DEF StoreFacts, StoreInv, Saved, storeVars, Writing
  <2>2. \A q \in Request : op'[q] = "token" =>
          /\ pc'[q] = "read" => copy'[q] \subseteq roomDocs'
          /\ pc'[q] = "assigning" => room'[q] \in roomDocs'
    BY <1>1 DEF StoreFacts, StoreInv, storeVars
  <2> QED BY <1>3, <2>1, <2>2 DEF StoreFacts, StoreInv, storeVars
<1> QED BY <1>4, <1>5 DEF StoreFacts

\* A room is there, and its addition to the list on its way; nobody saves the list.
LEMMA RoomSavedKeepsStores == ASSUME TypeOK, StoreFacts, NEW r \in Request, RoomSaved(r) PROVE StoreFacts'
<1>1. /\ pc[r] = "saving" /\ pc'[r] = "ok" /\ op[r] = "create"
      /\ \A q \in Request \ {r} : pc'[q] = pc[q]
      /\ roomDocs' = roomDocs \cup {r}
      /\ UNCHANGED <<op, room, copy, service, removing, mixed>>
  BY DEF RoomSaved, End, TypeOK, StoreFacts, WriterInv
<1>0. PICK v : v.by = r /\ v.kind = "add" /\ writes' = writes \cup {v}
  BY DEF RoomSaved
<1>2. \A w \in writes : w.by \in Request \ {r}
  BY <1>1 DEF TypeOK, Write, StoreFacts, WriterInv
<1>3. Writing' = Writing /\ Active' = Active /\ AddedBy' = AddedBy \cup {r} /\ r \in Writing
  <2>1. \A q \in Request : (\E w \in writes' : w.by = q) <=> q = r \/ \E w \in writes : w.by = q
    BY <1>0
  <2>2. Writing' = Writing /\ r \in Writing
    BY <1>1, <2>1 DEF Writing, Writer
  <2>3. AddedBy' = AddedBy \cup {r}
    BY <1>0 DEF AddedBy
  <2>4. Active' = Active
    BY <1>1, <2>2 DEF Active
  <2> QED BY <2>2, <2>3, <2>4
<1>4. WriterInv'
  BY <1>1, <1>0, <1>2 DEF StoreFacts, WriterInv, Saved
<1>5. ASSUME ~mixed PROVE StoreInv'
  <2>1. \A q \in Writing : op[q] \notin Saver
    BY <1>1, <1>3, <1>5, SaverAlone DEF StoreFacts, Saver
  <2> QED BY <1>1, <1>3, <1>5, <2>1 DEF StoreFacts, StoreInv, Writing, Writer
<1> QED BY <1>1, <1>4, <1>5 DEF StoreFacts, StoreInv

\* An update issues what it has read.
LEMMA UpdateKeepsStores == ASSUME TypeOK, StoreFacts, NEW r \in Request, UpdateRoom(r) PROVE StoreFacts'
<1>1. /\ pc[r] = "read" /\ pc'[r] = "ok" /\ op[r] = "update"
      /\ \A q \in Request \ {r} : pc'[q] = pc[q]
      /\ UNCHANGED <<op, room, copy, service, roomDocs, removing, mixed>>
  BY DEF UpdateRoom, LetIn, Save, End, TypeOK
<1>0. PICK v : v.by = r /\ v.kind = "save" /\ v.rooms = Saved(r) /\ writes' = writes \cup {v}
  BY <1>1 DEF UpdateRoom, Save, Saved
<1>2. \A w \in writes : w.by \in Request \ {r}
  BY <1>1 DEF TypeOK, Write, StoreFacts, WriterInv
<1>3. Writing' = Writing /\ Active' = Active /\ AddedBy' = AddedBy /\ r \in Writing
  <2>1. \A q \in Request : (\E w \in writes' : w.by = q) <=> q = r \/ \E w \in writes : w.by = q
    BY <1>0
  <2>2. Writing' = Writing /\ r \in Writing
    BY <1>1, <2>1 DEF Writing, Writer, Saver
  <2>3. AddedBy' = AddedBy
    BY <1>0 DEF AddedBy
  <2>4. Active' = Active
    BY <1>1, <2>2 DEF Active
  <2> QED BY <2>2, <2>3, <2>4
<1>4. WriterInv'
  <2>1. ASSUME NEW w \in writes'
        PROVE  /\ pc'[w.by] = "ok"
               /\ IF w.kind = "add" THEN op'[w.by] = "create" ELSE op'[w.by] \in Saver /\ w.rooms = Saved(w.by)'
    <3>1. CASE w \in writes
      <4>1. /\ w.by \in Request \ {r} /\ pc[w.by] = "ok"
            /\ IF w.kind = "add" THEN op[w.by] = "create" ELSE op[w.by] \in Saver /\ w.rooms = Saved(w.by)
        BY <1>2, <3>1 DEF StoreFacts, WriterInv
      <4>2. Saved(w.by)' = Saved(w.by) /\ op' = op /\ pc'[w.by] = pc[w.by]
        BY <1>1, <4>1 DEF Saved
      <4> QED BY <4>1, <4>2
    <3>2. CASE w = v
      BY <1>0, <1>1, <3>2 DEF Saved, Saver
    <3> QED BY <1>0, <3>1, <3>2
  <2>2. \A q \in Request :
          /\ pc'[q] = "saving" => op'[q] = "create"
          /\ pc'[q] \in {"assigning", "granting"} => op'[q] = "token"
          /\ pc'[q] # "idle" /\ op'[q] # "create" =>
               room'[q] \in Request /\ op'[room'[q]] = "create" /\ pc'[room'[q]] = "ok"
          /\ op'[q] = "delete" /\ pc'[q] = "ok" => room'[q] \notin roomDocs' \ removing'
    BY <1>1 DEF StoreFacts, WriterInv
  <2>3. \A x \in removing' : \E q \in Request : op'[q] = "delete" /\ pc'[q] = "ok" /\ room'[q] = x
    BY <1>1 DEF StoreFacts, WriterInv
  <2> QED BY <2>1, <2>2, <2>3 DEF WriterInv
<1>5. ASSUME ~mixed PROVE StoreInv'
  <2>1. Writing = {r}
    BY <1>1, <1>3, <1>5, SaverAlone DEF StoreFacts, Saver
  <2>2. service = copy[r] /\ roomDocs = copy[r]
    BY <1>1, <1>3, <1>5 DEF StoreFacts, StoreInv, Saver
  <2> QED BY <1>0, <1>1, <1>3, <1>5, <2>1, <2>2 DEF StoreFacts, StoreInv, Saved
<1> QED BY <1>1, <1>4, <1>5 DEF StoreFacts, StoreInv

\* A deletion issues what it has read without the room, and its removal.
LEMMA DeleteKeepsStores == ASSUME TypeOK, StoreFacts, NEW r \in Request, DeleteRoom(r) PROVE StoreFacts'
<1>1. /\ pc[r] = "read" /\ pc'[r] = "ok" /\ op[r] = "delete" /\ room[r] \in copy[r]
      /\ \A q \in Request \ {r} : pc'[q] = pc[q]
      /\ removing' = removing \cup {room[r]}
      /\ UNCHANGED <<op, room, copy, service, roomDocs, mixed>>
  BY DEF DeleteRoom, LetIn, Save, End, TypeOK
<1>0. PICK v : v.by = r /\ v.kind = "save" /\ v.rooms = Saved(r) /\ writes' = writes \cup {v}
  BY <1>1 DEF DeleteRoom, Save, Saved
<1>2. \A w \in writes : w.by \in Request \ {r}
  BY <1>1 DEF TypeOK, Write, StoreFacts, WriterInv
<1>3. AddedBy' = AddedBy /\ r \in Writing
  BY <1>0, <1>1 DEF Writing, AddedBy, Writer, Saver
<1>4. WriterInv'
  <2>1. ASSUME NEW w \in writes'
        PROVE  /\ pc'[w.by] = "ok"
               /\ IF w.kind = "add" THEN op'[w.by] = "create" ELSE op'[w.by] \in Saver /\ w.rooms = Saved(w.by)'
    <3>1. CASE w \in writes
      <4>1. /\ w.by \in Request \ {r} /\ pc[w.by] = "ok"
            /\ IF w.kind = "add" THEN op[w.by] = "create" ELSE op[w.by] \in Saver /\ w.rooms = Saved(w.by)
        BY <1>2, <3>1 DEF StoreFacts, WriterInv
      <4>2. Saved(w.by)' = Saved(w.by) /\ op' = op /\ pc'[w.by] = pc[w.by]
        BY <1>1, <4>1 DEF Saved
      <4> QED BY <4>1, <4>2
    <3>2. CASE w = v
      BY <1>0, <1>1, <3>2 DEF Saved, Saver
    <3> QED BY <1>0, <3>1, <3>2
  <2>2. \A q \in Request :
          /\ pc'[q] = "saving" => op'[q] = "create"
          /\ pc'[q] \in {"assigning", "granting"} => op'[q] = "token"
          /\ pc'[q] # "idle" /\ op'[q] # "create" =>
               room'[q] \in Request /\ op'[room'[q]] = "create" /\ pc'[room'[q]] = "ok"
          /\ op'[q] = "delete" /\ pc'[q] = "ok" => room'[q] \notin roomDocs' \ removing'
    BY <1>1 DEF StoreFacts, WriterInv
  <2>3. \A x \in removing' : \E q \in Request : op'[q] = "delete" /\ pc'[q] = "ok" /\ room'[q] = x
    BY <1>1 DEF StoreFacts, WriterInv
  <2> QED BY <2>1, <2>2, <2>3 DEF WriterInv
<1>5. ASSUME ~mixed PROVE StoreInv'
  <2>1. Writing = {r} /\ \A q \in Request : op[q] = "token" => pc[q] \notin {"read", "assigning"}
    BY <1>1, <1>3, <1>5, SaverAlone DEF StoreFacts, Saver
  <2>2. service = copy[r] /\ roomDocs = copy[r]
    BY <1>1, <1>3, <1>5 DEF StoreFacts, StoreInv, Saver
  <2>3. \A q \in Request : op[q] = "delete" /\ pc[q] = "ok" => room[q] # room[r]
    <3> SUFFICES ASSUME NEW q \in Request, op[q] = "delete", pc[q] = "ok", room[q] = room[r] PROVE FALSE
      OBVIOUS
    <3>1. room[q] \in removing
      BY <1>1, <2>2 DEF StoreFacts, WriterInv
    <3>2. q \in Writing
      BY <3>1 DEF Writing, Writer, Saver
    <3> QED BY <1>1, <2>1, <3>2
  <2>4. Writing' = {r} /\ Active' = {r}
    <3>1. \A q \in Request \ {r} : q \notin Writing'
      BY <1>0, <1>1, <2>1, <2>3 DEF Writing
    <3>2. r \in Writing'
      BY <1>0, <1>1 DEF Writing, Writer, Saver
    <3>3. Writing' \subseteq Request
      BY DEF Writing
    <3> QED BY <1>1, <2>1, <3>1, <3>2, <3>3 DEF Active
  <2>5. service' = copy'[r] /\ roomDocs' = copy'[r] /\ room'[r] \in removing' /\ \E w \in writes' : w.by = r
    BY <1>0, <1>1, <2>2
  <2> QED BY <1>1, <1>3, <1>5, <2>1, <2>4, <2>5 DEF StoreInv, Saver
<1> QED BY <1>1, <1>4, <1>5 DEF StoreFacts, StoreInv

\* A write takes effect: a room comes to the list, or the saver has saved it.
LEMMA WriteKeepsStores ==
  ASSUME TypeOK, CacheInv, StoreFacts, NEW w \in writes, WriteService(w)
  PROVE  StoreFacts'
<1>1. /\ writes' = writes \ {w}
      /\ service' = IF w.kind = "add" THEN service \cup {w.by} ELSE w.rooms
      /\ UNCHANGED <<pc, op, room, copy, roomDocs, removing, mixed>>
  BY DEF WriteService, requestVars
<1>2. w.by \in Request /\ pc[w.by] = "ok"
  BY DEF TypeOK, Write, StoreFacts, WriterInv
<1>3. WriterInv'
  BY <1>1 DEF StoreFacts, WriterInv, Saved
<1>4. /\ Writing' \subseteq Writing /\ Writing \ {w.by} \subseteq Writing'
      /\ Active' \subseteq Active
      /\ AddedBy' \subseteq AddedBy /\ AddedBy \ {w.by} \subseteq AddedBy'
  BY <1>1 DEF Writing, Active, AddedBy
<1>5. op[w.by] \in Writer => w.by \in Writing
  BY <1>2 DEF Writing
<1>6. ASSUME ~mixed, w.kind = "add" PROVE StoreInv'
  <2>1. op[w.by] = "create" /\ w.by \in AddedBy
    BY <1>2, <1>6 DEF StoreFacts, WriterInv, AddedBy
  <2>2. \A q \in Writing : op[q] \notin Saver
    BY <1>2, <1>5, <1>6, <2>1, SaverAlone DEF StoreFacts, Saver, Writer
  <2>3. \A q \in Writing : op[q] = "create"
    BY <2>2 DEF Writing, Writer
  <2>4. service' \cup AddedBy' = roomDocs'
    BY <1>1, <1>4, <1>6, <2>1, <2>3 DEF StoreFacts, StoreInv
  <2> QED BY <1>1, <1>4, <1>6, <2>2, <2>4 DEF StoreFacts, StoreInv
<1>7. ASSUME ~mixed, w.kind # "add" PROVE StoreInv'
  <2> DEFINE r == w.by
  <2>1. op[r] \in Saver /\ w.rooms = Saved(r) /\ r \in Writing
    BY <1>5, <1>7 DEF StoreFacts, WriterInv, Writer
  <2>2. Writing = {r}
    BY <1>7, <2>1, SaverAlone DEF StoreFacts
  <2>3. AddedBy = {} /\ AddedBy' = {}
    BY <1>4, <2>1, <2>2, AddersWrite DEF StoreFacts, Saver
  <2>4. \A u \in writes' : u.by # r
    <3> SUFFICES ASSUME NEW u \in writes, u # w, u.by = r PROVE FALSE
      BY <1>1
    <3>1. u.kind # "add" /\ u.rooms = Saved(r)
      BY <2>1 DEF StoreFacts, WriterInv, Saver
    <3>2. /\ w \in [by : Request, kind : {"save"}, rooms : SUBSET Request]
          /\ u \in [by : Request, kind : {"save"}, rooms : SUBSET Request]
      BY <1>7, <3>1 DEF TypeOK, Write
    <3>3. w = [by |-> w.by, kind |-> w.kind, rooms |-> w.rooms] /\ u = [by |-> u.by, kind |-> u.kind, rooms |-> u.rooms]
      BY <3>2
    <3> QED BY <2>1, <3>1, <3>2, <3>3
  <2>5. service' = Saved(r) /\ Saved(r)' = Saved(r) /\ pc'[r] # "read"
    BY <1>1, <1>2, <1>7, <2>1 DEF Saved
  <2>6. roomDocs = IF room[r] \notin removing THEN Saved(r) ELSE copy[r]
    BY <1>2, <1>7, <2>1 DEF StoreFacts, StoreInv
  <2>7. r \notin Writing' => roomDocs = Saved(r)
    BY <1>1, <1>2, <2>1, <2>6 DEF Writing, Writer, Saver, Saved
  <2>8. (\A q \in Writing' : op'[q] = "create") => service' \cup AddedBy' = roomDocs'
    BY <1>1, <2>1, <2>3, <2>5, <2>7 DEF Saver
  <2>9. \A q \in Writing' : op'[q] \in Saver =>
          /\ service' = IF pc'[q] = "read" \/ \E u \in writes' : u.by = q THEN copy'[q] ELSE Saved(q)'
          /\ roomDocs' = IF pc'[q] = "ok" /\ room'[q] \notin removing' THEN Saved(q)' ELSE copy'[q]
    BY <1>1, <1>2, <1>4, <2>2, <2>4, <2>5, <2>6
  <2> QED BY <1>1, <1>4, <1>7, <2>8, <2>9 DEF StoreFacts, StoreInv
<1> QED BY <1>1, <1>3, <1>6, <1>7 DEF StoreFacts, StoreInv

\* A room is removed: its deletion is the only writer, and no token is asked for.
LEMMA RemoveKeepsStores ==
  ASSUME TypeOK, StoreFacts, NEW x \in removing, RemoveRoom(x)
  PROVE  StoreFacts'
<1>1. /\ removing' = removing \ {x} /\ roomDocs' = roomDocs \ {x}
      /\ UNCHANGED <<pc, op, room, copy, service, writes, mixed>>
  BY DEF RemoveRoom, requestVars
<1>2. PICK r \in Request : op[r] = "delete" /\ pc[r] = "ok" /\ room[r] = x
  BY DEF StoreFacts, WriterInv
<1>3. WriterInv'
  BY <1>1 DEF StoreFacts, WriterInv, Saved
<1>4. r \in Writing
  BY <1>2 DEF Writing, Writer, Saver
<1>5. Writing' \subseteq Writing /\ Active' \subseteq Active /\ AddedBy' = AddedBy
  BY <1>1 DEF Writing, Active, AddedBy
<1>6. ASSUME ~mixed PROVE StoreInv'
  <2>1. Writing = {r} /\ \A q \in Request : op[q] = "token" => pc[q] \notin {"read", "assigning"}
    BY <1>2, <1>4, <1>6, SaverAlone DEF StoreFacts, Saver
  <2>2. /\ service = IF \E w \in writes : w.by = r THEN copy[r] ELSE Saved(r)
        /\ roomDocs = copy[r]
    BY <1>2, <1>4, <1>6 DEF StoreFacts, StoreInv, Saver
  <2>3. roomDocs' = Saved(r) /\ Saved(r)' = Saved(r) /\ room[r] \notin removing'
    BY <1>1, <1>2, <2>2 DEF Saved
  <2>4. AddedBy = {}
    BY <1>2, <2>1, AddersWrite DEF StoreFacts
  <2>5. r \notin Writing' => ~ \E w \in writes : w.by = r
    BY <1>1, <1>2 DEF Writing, Writer, Saver
  <2>6. (\A q \in Writing' : op'[q] = "create") => service' \cup AddedBy' = roomDocs'
    BY <1>1, <1>2, <1>5, <2>2, <2>3, <2>4, <2>5
  <2>7. \A q \in Writing' : op'[q] \in Saver =>
          /\ service' = IF pc'[q] = "read" \/ \E w \in writes' : w.by = q THEN copy'[q] ELSE Saved(q)'
          /\ roomDocs' = IF pc'[q] = "ok" /\ room'[q] \notin removing' THEN Saved(q)' ELSE copy'[q]
    BY <1>1, <1>2, <1>5, <2>1, <2>2, <2>3
  <2> QED BY <1>1, <1>5, <1>6, <2>1, <2>6, <2>7 DEF StoreFacts, StoreInv
<1> QED BY <1>1, <1>3, <1>6 DEF StoreFacts, StoreInv

\* nuve stops only if something conflicted.
LEMMA StopKeepsStores == ASSUME TypeOK, StoreFacts, NEW r \in Request, NuveStops(r) PROVE StoreFacts'
<1>1. mixed
  BY DEF NuveStops, StoreFacts, WriterInv, StoreInv
<1>2. /\ \A q \in Request :
           \/ pc'[q] = pc[q] /\ pc[q] \notin {"read", "saving", "assigning", "granting"}
           \/ pc'[q] = "dropped" /\ pc[q] \in {"read", "saving", "assigning", "granting"}
      /\ roomDocs' = roomDocs \cup {q \in Request : pc[q] = "saving"}
      /\ UNCHANGED <<op, room, copy, removing, writes, mixed>>
  BY DEF NuveStops
<1>3. \A w \in writes : w.by \in Request
  BY DEF TypeOK, Write
<1>4. WriterInv'
  <2>1. \A q \in Request :
          /\ pc'[q] = "saving" => op'[q] = "create"
          /\ pc'[q] \in {"assigning", "granting"} => op'[q] = "token"
          /\ pc'[q] # "idle" /\ op'[q] # "create" =>
               room'[q] \in Request /\ op'[room'[q]] = "create" /\ pc'[room'[q]] = "ok"
          /\ op'[q] = "delete" /\ pc'[q] = "ok" => room'[q] \notin roomDocs' \ removing'
    BY <1>2 DEF StoreFacts, WriterInv
  <2>2. ASSUME NEW w \in writes'
        PROVE  /\ pc'[w.by] = "ok"
               /\ IF w.kind = "add" THEN op'[w.by] = "create" ELSE op'[w.by] \in Saver /\ w.rooms = Saved(w.by)'
    <3>1. /\ w.by \in Request /\ pc[w.by] = "ok"
          /\ IF w.kind = "add" THEN op[w.by] = "create" ELSE op[w.by] \in Saver /\ w.rooms = Saved(w.by)
      BY <1>2, <1>3 DEF StoreFacts, WriterInv
    <3>2. Saved(w.by)' = Saved(w.by) /\ op' = op
      BY <1>2 DEF Saved
    <3>3. pc'[w.by] = "ok"
      BY <1>2, <3>1
    <3> QED BY <3>1, <3>2, <3>3
  <2>3. \A x \in removing' : \E q \in Request : op'[q] = "delete" /\ pc'[q] = "ok" /\ room'[q] = x
    BY <1>2 DEF StoreFacts, WriterInv
  <2> QED BY <2>1, <2>2, <2>3 DEF WriterInv
<1> QED BY <1>1, <1>2, <1>4 DEF StoreFacts, StoreInv

\* Every step keeps the stores together.
LEMMA NextKeepsStores == ApiInv /\ StoreFacts /\ [Next]_vars => StoreFacts'
<1> SUFFICES ASSUME ApiInv, StoreFacts, [Next]_vars PROVE StoreFacts'
  OBVIOUS
<1>0. TypeOK /\ CacheInv
  BY DEF ApiInv
<1>1. CASE UNCHANGED <<requestVars, storeVars>>
  BY <1>0, <1>1, StoreFrame
<1>2. ASSUME NEW r \in Request, NEW o \in Op, NEW x \in Request \cup {None}, NEW n \in Nonce, Send(r, o, x, n)
      PROVE  StoreFacts'
  BY <1>0, <1>2, SendKeepsStores
<1>3. ASSUME NEW r \in Request, RefuseRequest(r) \/ RoomMissing(r) PROVE StoreFacts'
  <2>1. CASE RefuseRequest(r)
    BY <1>0, <2>1, EndingKeepsStores DEF RefuseRequest, End
  <2>2. CASE RoomMissing(r)
    BY <1>0, <2>2, EndingKeepsStores DEF RoomMissing, LetIn
  <2> QED BY <1>3, <2>1, <2>2
<1>4. ASSUME NEW r \in Request, CreateToken(r) \/ RoomRead(r) \/ TokenSaved(r) \/ TokenFails(r)
      PROVE  StoreFacts'
  <2>1. CASE CreateToken(r)
    BY <1>0, <2>1, TokenStepKeepsStores DEF CreateToken, LetIn
  <2>2. CASE RoomRead(r)
    BY <1>0, <2>2, TokenStepKeepsStores DEF RoomRead, StoreFacts, WriterInv
  <2>3. CASE TokenSaved(r)
    BY <1>0, <2>3, TokenStepKeepsStores DEF TokenSaved, StoreFacts, WriterInv
  <2>4. CASE TokenFails(r)
    BY <1>0, <2>4, TokenStepKeepsStores DEF TokenFails, StoreFacts, WriterInv
  <2> QED BY <1>4, <2>1, <2>2, <2>3, <2>4
<1>5. ASSUME NEW r \in Request, RequestStep(r) PROVE StoreFacts'
  BY <1>0, <1>3, <1>4, <1>5, ReadKeepsStores, CreateRoomKeepsStores, RoomSavedKeepsStores,
     UpdateKeepsStores, DeleteKeepsStores, StopKeepsStores DEF RequestStep
<1>6. CASE (\E w \in writes : WriteService(w)) \/ (\E x \in removing : RemoveRoom(x))
  BY <1>0, <1>6, WriteKeepsStores, RemoveKeepsStores
<1>7. ASSUME Tick \/ (\E t \in Request : Age(t) \/ RemoveOld(t))
             \/ \E j \in Join : (\E t \in Request : UseToken(j, t)) \/ LookUp(j) \/ LookAgain(j) \/ Admit(j)
      PROVE  UNCHANGED <<requestVars, storeVars>>
  BY <1>7 DEF Tick, Age, RemoveOld, UseToken, LookUp, LookAgain, Admit
<1>8. CASE UNCHANGED vars
  BY <1>1, <1>8 DEF vars
<1> QED BY <1>1, <1>2, <1>5, <1>6, <1>7, <1>8 DEF Next

\* The list of rooms in the service document and the collection of rooms agree
\* once all writes are through, and no token request ends nuve
\* (getErizoControllerForRoom), unless requests that conflict overlapped.
THEOREM StoresStayTogether == Spec => []StoresAgree
<1>1. ApiInv /\ StoreFacts => StoresAgree
  <2> SUFFICES ASSUME ApiInv, StoreFacts, ~mixed PROVE StoresAgree
    BY DEF StoresAgree
  <2>1. Writing = {} => AddedBy = {}
    BY AddersWrite DEF ApiInv, StoreFacts
  <2>2. Writing = {} => service = roomDocs
    BY <2>1 DEF StoreFacts, StoreInv
  <2>3. \A r \in Request : pc[r] = "assigning" => room[r] \in roomDocs
    BY DEF StoreFacts, StoreInv, WriterInv
  <2> QED BY <2>2, <2>3 DEF StoresAgree
<1> QED BY <1>1, InitEstablishesStores, NextKeepsStores, ApiInvariance, PTL DEF Spec
=============================================================================
