----------------------------- MODULE CloudHandler -----------------------------
(***************************************************************************)
(* nuve's cloudHandler.js with the registries it keeps in MongoDB: which   *)
(* ErizoControllers (ECs) are known, how alive they are, and the EC each   *)
(* room is assigned to; and the part of the ECs that reports to it.        *)
(*                                                                         *)
(* A database call is asynchronous: it takes effect some time after it was *)
(* issued, in any order with other calls (the driver uses several          *)
(* connections).  A read and its callback, which only issues further       *)
(* calls, are one action.                                                  *)
(*                                                                         *)
(* An EC registers once, under a fresh id; one that is no longer known     *)
(* does not register again.  Rooms exist all the time.                     *)
(***************************************************************************)
EXTENDS Integers, FiniteSets

CONSTANTS
  Ec,           \* ids of ErizoControllers
  Room,         \* rooms
  Request,      \* requests for a token
  Silent,       \* ECs that may end, or be cut off from nuve
  Loads,        \* the states that the load of an EC puts it in
  Drainable,    \* ECs that may receive SIGTERM
  RoomsEdited,  \* whether rooms are updated or patched through REST
  ExitOnNuveCheckFail,  \* configuration of the ECs, false by default
  MaxKA,        \* bound: MAX_KA_COUNT (10 in the code)
  MaxAttempts,  \* bound: TOTAL_ATTEMPTS_EC_READY (20 in the code)
  None          \* undefined

ASSUME BoundAssumption == MaxKA \in Nat /\ MaxAttempts \in Nat
ASSUME NoneAssumption == None \notin Ec \cup Room /\ "timeout" \notin Ec
ASSUME WriterAssumption == Ec \cap Request = {}
ASSUME EnvironmentAssumption ==
  /\ Silent \subseteq Ec
  /\ Drainable \subseteq Ec
  /\ Loads \in [Ec -> SUBSET (0..2)]
  /\ RoomsEdited \in BOOLEAN
  /\ ExitOnNuveCheckFail \in BOOLEAN

VARIABLES
  process,    \* the EC processes: "new", "up", "orphan" (unknown to nuve), "down"
  myState,    \* myState of an EC
  draining,   \* ECs that received SIGTERM
  known,      \* erizoControllers: ids in the collection
  keepAlive,  \* erizoControllers.keepAlive
  ecState,    \* erizoControllers.state: 0 not available, 1 warning, 2 available
  assigned,   \* rooms.erizoControllerId
  removals,   \* removeErizoController calls on their way
  lookups,    \* getRooms calls of unassignErizoController on their way
  erasing,    \* <<cause, room>>: updateRoom calls without erizoControllerId
  declaredDown, \* ECs of which the EAs were told handleEcDown
  pc,         \* progress of a token request
  roomOf,     \* the room a token is requested for
  found,      \* the EC id read from the room
  queue,      \* the EC the policy takes from the queue that was read
  attempts,   \* ticks of the request's interval
  evals,      \* assignErizoControllerToRoom calls on their way
  answers,    \* what the request's callback was given
  erased      \* history: rooms for which an erasing write was issued

ecVars == <<process, myState, draining>>
registryVars == <<known, keepAlive, ecState>>
sweepVars == <<removals, lookups, declaredDown>>
roomVars == <<assigned, erasing, erased>>
requestVars == <<pc, roomOf, found, queue, attempts, evals, answers>>
vars == <<ecVars, registryVars, sweepVars, roomVars, requestVars>>

TypeOK ==
  /\ process \in [Ec -> {"new", "up", "orphan", "down"}]
  /\ myState \in [Ec -> 0..2]
  /\ draining \subseteq Ec
  /\ known \subseteq Ec
  /\ keepAlive \in [Ec -> 0..(MaxKA + 1)]
  /\ ecState \in [Ec -> 0..2]
  /\ assigned \in [Room -> Ec \cup {None}]
  /\ removals \subseteq Ec
  /\ lookups \subseteq Ec
  /\ erasing \subseteq (Request \cup Ec) \X Room
  /\ declaredDown \subseteq Ec
  /\ pc \in [Request -> {"idle", "room", "ec", "queue", "ticking", "done"}]
  /\ roomOf \in [Request -> Room \cup {None}]
  /\ found \in [Request -> Ec \cup {None}]
  /\ queue \in [Request -> Ec \cup {None}]
  /\ attempts \in [Request -> 0..(MaxAttempts + 2)]
  /\ evals \in [Request -> 0..(MaxAttempts + 2)]
  /\ answers \in [Request -> SUBSET (Ec \cup {None, "timeout"})]
  /\ erased \subseteq Room

Init ==
  /\ process = [e \in Ec |-> "new"]
  /\ myState = [e \in Ec |-> 2]
  /\ draining = {}
  /\ known = {}
  /\ keepAlive = [e \in Ec |-> 0]
  /\ ecState = [e \in Ec |-> 2]
  /\ assigned = [r \in Room |-> None]
  /\ removals = {}
  /\ lookups = {}
  /\ erasing = {}
  /\ declaredDown = {}
  /\ pc = [q \in Request |-> "idle"]
  /\ roomOf = [q \in Request |-> None]
  /\ found = [q \in Request |-> None]
  /\ queue = [q \in Request |-> None]
  /\ attempts = [q \in Request |-> 0]
  /\ evals = [q \in Request |-> 0]
  /\ answers = [q \in Request |-> {}]
  /\ erased = {}

-----------------------------------------------------------------------------
(* ErizoControllers.                                                       *)

\* addNewErizoController.  If the reply is lost the EC tries again under
\* another id, and this one stays behind with no process: Register and Die.
Register(e) ==
  /\ process[e] = "new"
  /\ process' = [process EXCEPT ![e] = "up"]
  /\ known' = known \cup {e}
  /\ UNCHANGED <<myState, draining, keepAlive, ecState, sweepVars, roomVars, requestVars>>

Die(e) ==
  /\ e \in Silent
  /\ process[e] \in {"up", "orphan"}
  /\ process' = [process EXCEPT ![e] = "down"]
  /\ UNCHANGED <<myState, draining, registryVars, sweepVars, roomVars, requestVars>>

\* A keepalive of a known EC resets its counter.
KeepAlive(e) ==
  /\ process[e] = "up"
  /\ e \in known
  /\ keepAlive' = [keepAlive EXCEPT ![e] = 0]
  /\ UNCHANGED <<ecVars, known, ecState, sweepVars, roomVars, requestVars>>

\* A keepalive of an unknown EC is answered 'whoareyou': it sends no more of
\* them, and goes on unless it is configured to exit.
WhoAreYou(e) ==
  /\ process[e] = "up"
  /\ e \notin known
  /\ process' = [process EXCEPT ![e] = IF ExitOnNuveCheckFail THEN "down" ELSE "orphan"]
  /\ UNCHANGED <<myState, draining, registryVars, sweepVars, roomVars, requestVars>>

\* setInfo: a state reported by an EC that nuve does not know is lost.
Report(e, s) == ecState' = IF e \in known THEN [ecState EXCEPT ![e] = s] ELSE ecState

\* updateMyState, called when rooms come and go, reports a state that differs
\* from the last one it has computed.
UpdateMyState(e, s) ==
  /\ process[e] \in {"up", "orphan"}
  /\ s \in Loads[e] \ {myState[e]}
  /\ myState' = [myState EXCEPT ![e] = s]
  /\ Report(e, s)
  /\ UNCHANGED <<process, draining, known, keepAlive, sweepVars, roomVars, requestVars>>

\* SIGTERM reports state 0 once and leaves myState alone.
Sigterm(e) ==
  /\ e \in Drainable
  /\ process[e] \in {"up", "orphan"}
  /\ draining' = draining \cup {e}
  /\ Report(e, 0)
  /\ UNCHANGED <<process, myState, known, keepAlive, sweepVars, roomVars, requestVars>>

-----------------------------------------------------------------------------
(* The sweep.                                                              *)

\* Mutation: no EC is ever too old.
NothingStale == {}

Stale == {e \in known : keepAlive[e] > MaxKA}

\* Mutation: the rooms of a silent EC are unassigned, and the EC stays.
CheckKAKeepsEc ==
  /\ Stale \subseteq Silent
  /\ lookups' = lookups \cup Stale
  /\ declaredDown' = declaredDown \cup Stale
  /\ keepAlive' = [e \in Ec |-> IF e \in known \ Stale THEN keepAlive[e] + 1 ELSE keepAlive[e]]
  /\ UNCHANGED <<ecVars, known, ecState, removals, roomVars, requestVars>>

\* checkKA: ECs that were silent too long are removed, their rooms looked up
\* and the EAs told; the others are counted up.  ECs that may not be silent
\* send their keepalives in time.
CheckKA ==
  /\ Stale \subseteq Silent
  /\ removals' = removals \cup Stale
  /\ lookups' = lookups \cup Stale
  /\ declaredDown' = declaredDown \cup Stale
  /\ keepAlive' = [e \in Ec |-> IF e \in known \ Stale THEN keepAlive[e] + 1 ELSE keepAlive[e]]
  /\ UNCHANGED <<ecVars, known, ecState, roomVars, requestVars>>

RemoveErizoController(e) ==
  /\ e \in removals
  /\ removals' = removals \ {e}
  /\ known' = known \ {e}
  /\ keepAlive' = [keepAlive EXCEPT ![e] = 0]
  /\ ecState' = [ecState EXCEPT ![e] = 2]
  /\ UNCHANGED <<ecVars, lookups, declaredDown, roomVars, requestVars>>

\* Writes are issued that erase the EC of the rooms R, for a cause.
EraseLater(cause, R) ==
  /\ erasing' = erasing \cup ({cause} \X R)
  /\ erased' = erased \cup R

\* unassignErizoController reads the rooms and writes back those of the EC.
UnassignErizoController(e) ==
  /\ e \in lookups
  /\ lookups' = lookups \ {e}
  /\ EraseLater(e, {r \in Room : assigned[r] = e})
  /\ UNCHANGED <<ecVars, registryVars, removals, declaredDown, assigned, requestVars>>

\* Such a write takes effect, whatever the room is assigned to by then.
Erase(cause, r) ==
  /\ <<cause, r>> \in erasing
  /\ erasing' = erasing \ {<<cause, r>>}
  /\ assigned' = [assigned EXCEPT ![r] = None]
  /\ UNCHANGED <<ecVars, registryVars, sweepVars, erased, requestVars>>

\* updateRoom and patchRoom of the REST interface write the copy of the room
\* in the service document, which was made before an EC was assigned.
EditRoom(r) ==
  /\ RoomsEdited
  /\ assigned' = [assigned EXCEPT ![r] = None]
  /\ erased' = erased \cup {r}
  /\ UNCHANGED <<ecVars, registryVars, sweepVars, erasing, requestVars>>

-----------------------------------------------------------------------------
(* getErizoControllerForRoom.                                              *)

Answer(q, a) == answers' = [answers EXCEPT ![q] = @ \cup {a}]

Start(q, r) ==
  /\ pc[q] = "idle"
  /\ pc' = [pc EXCEPT ![q] = "room"]
  /\ roomOf' = [roomOf EXCEPT ![q] = r]
  /\ UNCHANGED <<ecVars, registryVars, sweepVars, roomVars, found, queue, attempts, evals, answers>>

GetRoom(q) ==
  LET e == assigned[roomOf[q]] IN
  /\ pc[q] = "room"
  /\ found' = [found EXCEPT ![q] = e]
  /\ pc' = [pc EXCEPT ![q] = IF e = None THEN "queue" ELSE "ec"]
  /\ UNCHANGED <<ecVars, registryVars, sweepVars, roomVars, roomOf, queue, attempts, evals, answers>>

AnswerAssigned(q) ==
  /\ pc[q] = "ec"
  /\ found[q] \in known
  /\ Answer(q, found[q])
  /\ found' = [found EXCEPT ![q] = None]
  /\ pc' = [pc EXCEPT ![q] = "done"]
  /\ UNCHANGED <<ecVars, registryVars, sweepVars, roomVars, roomOf, queue, attempts, evals>>

\* The room's EC is gone: its id is erased and the request starts again.
AssignmentGone(q) ==
  /\ pc[q] = "ec"
  /\ found[q] \notin known
  /\ EraseLater(q, {roomOf[q]})
  /\ found' = [found EXCEPT ![q] = None]
  /\ pc' = [pc EXCEPT ![q] = "room"]
  /\ UNCHANGED <<ecVars, registryVars, sweepVars, assigned, roomOf, queue, attempts, evals, answers>>

\* The known ECs in the best state there is: available, else in warning, else
\* not available.
Best == {e \in known : \A f \in known : ecState[f] <= ecState[e]}

\* getEcQueue; the policy takes one of the best.
GetEcQueue(q) ==
  /\ pc[q] = "queue"
  /\ IF known = {} THEN queue' = [queue EXCEPT ![q] = None]
                   ELSE \E e \in Best : queue' = [queue EXCEPT ![q] = e]
  /\ pc' = [pc EXCEPT ![q] = "ticking"]
  /\ UNCHANGED <<ecVars, registryVars, sweepVars, roomVars, roomOf, found, attempts, evals, answers>>

\* Mutation: an interval without an EC goes on for ever.
TickForever(q) ==
  /\ pc[q] = "ticking"
  /\ attempts[q] <= MaxAttempts
  /\ evals' = IF queue[q] = None THEN evals ELSE [evals EXCEPT ![q] = @ + 1]
  /\ attempts' = [attempts EXCEPT ![q] = @ + 1]
  /\ UNCHANGED <<ecVars, registryVars, sweepVars, roomVars, pc, roomOf, found, queue, answers>>

\* The interval of a request: assign the EC, if there is one; give up in the end.
Tick(q) ==
  /\ pc[q] = "ticking"
  /\ evals' = IF queue[q] = None THEN evals ELSE [evals EXCEPT ![q] = @ + 1]
  /\ attempts' = [attempts EXCEPT ![q] = @ + 1]
  /\ IF attempts[q] > MaxAttempts
       THEN Answer(q, "timeout") /\ pc' = [pc EXCEPT ![q] = "done"]
       ELSE UNCHANGED <<answers, pc>>
  /\ UNCHANGED <<ecVars, registryVars, sweepVars, roomVars, roomOf, found, queue>>

\* Mutation: the room is assigned without a look at its EC.
ChooseAlways(r, e) == IF e \in known THEN e ELSE None

\* The EC of room r once EC e has been proposed: its own, if it is known.
Choose(r, e) ==
  IF assigned[r] \in known THEN assigned[r]
  ELSE IF e \in known THEN e ELSE None

\* assignErizoControllerToRoom, which runs inside the database, and its
\* callback.  The room keeps a lost EC if the proposed one is lost, too.
AssignErizoController(q) ==
  LET r == roomOf[q]
      e == Choose(r, queue[q])
  IN
  /\ evals[q] > 0
  /\ evals' = [evals EXCEPT ![q] = @ - 1]
  /\ assigned' = IF e = None THEN assigned ELSE [assigned EXCEPT ![r] = e]
  /\ Answer(q, e)
  /\ pc' = [pc EXCEPT ![q] = "done"]
  /\ UNCHANGED <<ecVars, registryVars, sweepVars, erasing, erased, roomOf, found, queue, attempts>>

-----------------------------------------------------------------------------
RequestStep(q) ==
  \/ GetRoom(q)
  \/ AnswerAssigned(q)
  \/ AssignmentGone(q)
  \/ GetEcQueue(q)
  \/ Tick(q)

EcStep(e) ==
  \/ Register(e)
  \/ Die(e)
  \/ KeepAlive(e)
  \/ WhoAreYou(e)
  \/ \E s \in 0..2 : UpdateMyState(e, s)
  \/ Sigterm(e)

Next ==
  \/ \E e \in Ec : EcStep(e) \/ RemoveErizoController(e) \/ UnassignErizoController(e)
  \/ CheckKA
  \/ \E cause \in Ec \cup Request, r \in Room : Erase(cause, r)
  \/ \E r \in Room : EditRoom(r)
  \/ \E q \in Request :
       \/ \E r \in Room : Start(q, r)
       \/ RequestStep(q)
       \/ AssignErizoController(q)

Spec == Init /\ [][Next]_vars

\* Intervals fire and the database executes what was issued.
Fairness ==
  /\ WF_vars(CheckKA)
  /\ \A e \in Ec \ Silent : WF_vars(KeepAlive(e))
  /\ \A e \in Ec : WF_vars(RemoveErizoController(e))
  /\ \A cause \in Ec \cup Request, r \in Room : WF_vars(Erase(cause, r))
  /\ \A q \in Request : WF_vars(RequestStep(q))

FairSpec == Spec /\ Fairness

-----------------------------------------------------------------------------
(* Properties.                                                             *)

\* The ECs that users of a room were sent to.
EcsOf(r) == Ec \cap UNION {answers[q] : q \in {p \in Request : roomOf[p] = r}}

\* Two known ECs have users of a room only if a write erased its assignment:
\* requests that race for a room without an EC agree on one
\* (assignErizoControllerToRoom), whatever queues they have read.
OneEcUnlessErased ==
  \A r \in Room : r \notin erased => Cardinality(EcsOf(r) \cap known) <= 1

\* A request for a token ends, even if the room's EC is lost meanwhile, or
\* there is none (getErizoControllerForRoom).
RequestEnds == \A q \in Request : pc[q] = "room" ~> pc[q] = "done"

\* A dead EC does not stay in the registry (checkKA).
DeadEcForgotten == \A e \in Ec : process[e] = "down" ~> e \notin known

-----------------------------------------------------------------------------
(* The inductive invariant the proofs use.                                 *)

\* An id that was not given out yet is nowhere.
FreshInv ==
  \A e \in Ec : process[e] = "new" =>
    /\ e \notin known
    /\ \A r \in Room : assigned[r] # e
    /\ \A q \in Request : found[q] # e /\ queue[q] # e /\ e \notin answers[q]

\* A request has a room once it has begun, is answered later, and makes as
\* many calls as its interval has ticks.
RequestInv ==
  \A q \in Request :
    /\ pc[q] = "idle" => answers[q] = {} /\ attempts[q] = 0 /\ found[q] = None
    /\ pc[q] # "idle" => roomOf[q] # None
    /\ evals[q] <= attempts[q]
    /\ pc[q] \in {"room", "ec", "queue"} => attempts[q] = 0
    /\ pc[q] = "ticking" => attempts[q] <= MaxAttempts + 1

\* What a room without erasing writes was assigned to, a request has found, or
\* a request was answered, is its EC still if it is known.
AssignedInv ==
  \A r \in Room : r \notin erased =>
    /\ \A cause \in Ec \cup Request : <<cause, r>> \notin erasing
    /\ \A q \in Request : roomOf[q] = r =>
         \A e \in known : e = found[q] \/ e \in answers[q] => assigned[r] = e

CloudInv ==
  /\ TypeOK
  /\ FreshInv
  /\ RequestInv
  /\ AssignedInv

-----------------------------------------------------------------------------
(* What a document says of this code, and it does not do.                  *)

\* An EC that received SIGTERM is chosen for no new room as long as there is
\* another one.
NoNewRoomWhenDraining ==
  [][\A q \in Request : pc[q] = "queue" /\ queue'[q] \in draining => known \subseteq draining]_vars
=============================================================================
