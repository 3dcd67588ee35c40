-------------------------- MODULE CloudHandler_proofs --------------------------
(***************************************************************************)
(* The assignment of rooms to ErizoControllers: requests for tokens of one *)
(* room agree on its EC, for any number of rooms, requests and ECs that    *)
(* come, fall silent and are swept, as long as no write erases the         *)
(* assignment.                                                             *)
(***************************************************************************)
EXTENDS CloudHandler, FiniteSetTheorems, TLAPS

USE BoundAssumption, NoneAssumption, WriterAssumption, EnvironmentAssumption

\* Nothing is known or assigned at first.
LEMMA InitEstablishesInv == Init => CloudInv
  BY DEF Init, CloudInv, TypeOK, FreshInv, RequestInv, AssignedInv

\* A fresh id is nowhere, so no room is assigned to it (addNewErizoController).
LEMMA RegisterKeepsInv ==
  ASSUME CloudInv, NEW e \in Ec, Register(e)
  PROVE  CloudInv'
<1>1. TypeOK'
  BY DEF CloudInv, TypeOK, RequestInv, Register, ecVars, registryVars, sweepVars, roomVars, requestVars
<1>2. FreshInv'
  BY DEF CloudInv, TypeOK, FreshInv, RequestInv, Register, ecVars, registryVars, sweepVars, roomVars, requestVars
<1>3. RequestInv'
  BY DEF CloudInv, TypeOK, RequestInv, Register, ecVars, registryVars, sweepVars, roomVars, requestVars
<1>4. AssignedInv'
  BY DEF CloudInv, TypeOK, FreshInv, RequestInv, AssignedInv, Register, ecVars, registryVars, sweepVars, roomVars, requestVars
<1> QED BY <1>1, <1>2, <1>3, <1>4 DEF CloudInv

\* nuve does not see an EC end.
LEMMA DieKeepsInv ==
  ASSUME CloudInv, NEW e \in Ec, Die(e)
  PROVE  CloudInv'
<1>1. TypeOK'
  BY DEF CloudInv, TypeOK, RequestInv, Die, ecVars, registryVars, sweepVars, roomVars, requestVars
<1>2. FreshInv'
  BY DEF CloudInv, TypeOK, FreshInv, RequestInv, Die, ecVars, registryVars, sweepVars, roomVars, requestVars
<1>3. RequestInv'
  BY DEF CloudInv, TypeOK, RequestInv, Die, ecVars, registryVars, sweepVars, roomVars, requestVars
<1>4. AssignedInv'
  BY DEF CloudInv, TypeOK, FreshInv, RequestInv, AssignedInv, Die, ecVars, registryVars, sweepVars, roomVars, requestVars
<1> QED BY <1>1, <1>2, <1>3, <1>4 DEF CloudInv

\* A keepalive resets a counter.
LEMMA KeepAliveKeepsInv ==
  ASSUME CloudInv, NEW e \in Ec, KeepAlive(e)
  PROVE  CloudInv'
<1>1. TypeOK'
  BY DEF CloudInv, TypeOK, RequestInv, KeepAlive, ecVars, registryVars, sweepVars, roomVars, requestVars
<1>2. FreshInv'
  BY DEF CloudInv, TypeOK, FreshInv, RequestInv, KeepAlive, ecVars, registryVars, sweepVars, roomVars, requestVars
<1>3. RequestInv'
  BY DEF CloudInv, TypeOK, RequestInv, KeepAlive, ecVars, registryVars, sweepVars, roomVars, requestVars
<1>4. AssignedInv'
  BY DEF CloudInv, TypeOK, FreshInv, RequestInv, AssignedInv, KeepAlive, ecVars, registryVars, sweepVars, roomVars, requestVars
<1> QED BY <1>1, <1>2, <1>3, <1>4 DEF CloudInv

\* An orphaned EC is not known any more.
LEMMA WhoAreYouKeepsInv ==
  ASSUME CloudInv, NEW e \in Ec, WhoAreYou(e)
  PROVE  CloudInv'
<1>1. TypeOK'
  BY DEF CloudInv, TypeOK, RequestInv, WhoAreYou, ecVars, registryVars, sweepVars, roomVars, requestVars
<1>2. FreshInv'
  BY DEF CloudInv, TypeOK, FreshInv, RequestInv, WhoAreYou, ecVars, registryVars, sweepVars, roomVars, requestVars
<1>3. RequestInv'
  BY DEF CloudInv, TypeOK, RequestInv, WhoAreYou, ecVars, registryVars, sweepVars, roomVars, requestVars
<1>4. AssignedInv'
  BY DEF CloudInv, TypeOK, FreshInv, RequestInv, AssignedInv, WhoAreYou, ecVars, registryVars, sweepVars, roomVars, requestVars
<1> QED BY <1>1, <1>2, <1>3, <1>4 DEF CloudInv

\* A report of the load touches no room.
LEMMA UpdateMyStateKeepsInv ==
  ASSUME CloudInv, NEW e \in Ec, NEW s \in 0..2, UpdateMyState(e, s)
  PROVE  CloudInv'
<1>1. TypeOK'
  BY DEF CloudInv, TypeOK, RequestInv, UpdateMyState, Report, ecVars, registryVars, sweepVars, roomVars, requestVars
<1>2. FreshInv'
  BY DEF CloudInv, TypeOK, FreshInv, RequestInv, UpdateMyState, Report, ecVars, registryVars, sweepVars, roomVars, requestVars
<1>3. RequestInv'
  BY DEF CloudInv, TypeOK, RequestInv, UpdateMyState, Report, ecVars, registryVars, sweepVars, roomVars, requestVars
<1>4. AssignedInv'
  BY DEF CloudInv, TypeOK, FreshInv, RequestInv, AssignedInv, UpdateMyState, Report, ecVars, registryVars, sweepVars, roomVars, requestVars
<1> QED BY <1>1, <1>2, <1>3, <1>4 DEF CloudInv

\* A report of a shutdown touches no room.
LEMMA SigtermKeepsInv ==
  ASSUME CloudInv, NEW e \in Ec, Sigterm(e)
  PROVE  CloudInv'
<1>1. TypeOK'
  BY DEF CloudInv, TypeOK, RequestInv, Sigterm, Report, ecVars, registryVars, sweepVars, roomVars, requestVars
<1>2. FreshInv'
  BY DEF CloudInv, TypeOK, FreshInv, RequestInv, Sigterm, Report, ecVars, registryVars, sweepVars, roomVars, requestVars
<1>3. RequestInv'
  BY DEF CloudInv, TypeOK, RequestInv, Sigterm, Report, ecVars, registryVars, sweepVars, roomVars, requestVars
<1>4. AssignedInv'
  BY DEF CloudInv, TypeOK, FreshInv, RequestInv, AssignedInv, Sigterm, Report, ecVars, registryVars, sweepVars, roomVars, requestVars
<1> QED BY <1>1, <1>2, <1>3, <1>4 DEF CloudInv

\* The sweep counts up to one more than the maximum, and only issues removals.
LEMMA CheckKAKeepsInv ==
  ASSUME CloudInv, CheckKA
  PROVE  CloudInv'
<1>1. TypeOK'
  BY DEF CloudInv, TypeOK, RequestInv, CheckKA, Stale, ecVars, registryVars, sweepVars, roomVars, requestVars
<1>2. FreshInv'
  BY DEF CloudInv, TypeOK, FreshInv, RequestInv, CheckKA, Stale, ecVars, registryVars, sweepVars, roomVars, requestVars
<1>3. RequestInv'
  BY DEF CloudInv, TypeOK, RequestInv, CheckKA, Stale, ecVars, registryVars, sweepVars, roomVars, requestVars
<1>4. AssignedInv'
  BY DEF CloudInv, TypeOK, FreshInv, RequestInv, AssignedInv, CheckKA, Stale, ecVars, registryVars, sweepVars, roomVars, requestVars
<1> QED BY <1>1, <1>2, <1>3, <1>4 DEF CloudInv

\* A removed EC concerns no room: the invariant speaks of known ones.
LEMMA RemoveErizoControllerKeepsInv ==
  ASSUME CloudInv, NEW e \in Ec, RemoveErizoController(e)
  PROVE  CloudInv'
<1>1. TypeOK'
  BY DEF CloudInv, TypeOK, RequestInv, RemoveErizoController, ecVars, registryVars, sweepVars, roomVars, requestVars
<1>2. FreshInv'
  BY DEF CloudInv, TypeOK, FreshInv, RequestInv, RemoveErizoController, ecVars, registryVars, sweepVars, roomVars, requestVars
<1>3. RequestInv'
  BY DEF CloudInv, TypeOK, RequestInv, RemoveErizoController, ecVars, registryVars, sweepVars, roomVars, requestVars
<1>4. AssignedInv'
  BY DEF CloudInv, TypeOK, FreshInv, RequestInv, AssignedInv, RemoveErizoController, ecVars, registryVars, sweepVars, roomVars, requestVars
<1> QED BY <1>1, <1>2, <1>3, <1>4 DEF CloudInv

\* Rooms that will be erased count as erased from now on.
LEMMA UnassignErizoControllerKeepsInv ==
  ASSUME CloudInv, NEW e \in Ec, UnassignErizoController(e)
  PROVE  CloudInv'
<1>1. TypeOK'
  BY DEF CloudInv, TypeOK, RequestInv, UnassignErizoController, EraseLater, ecVars, registryVars, sweepVars, roomVars, requestVars
<1>2. FreshInv'
  BY DEF CloudInv, TypeOK, FreshInv, RequestInv, UnassignErizoController, EraseLater, ecVars, registryVars, sweepVars, roomVars, requestVars
<1>3. RequestInv'
  BY DEF CloudInv, TypeOK, RequestInv, UnassignErizoController, EraseLater, ecVars, registryVars, sweepVars, roomVars, requestVars
<1>4. AssignedInv'
  BY DEF CloudInv, TypeOK, FreshInv, RequestInv, AssignedInv, UnassignErizoController, EraseLater, ecVars, registryVars, sweepVars, roomVars, requestVars
<1> QED BY <1>1, <1>2, <1>3, <1>4 DEF CloudInv

\* Only rooms that count as erased are.
LEMMA EraseKeepsInv ==
  ASSUME CloudInv, NEW cause \in Ec \cup Request, NEW r \in Room, Erase(cause, r)
  PROVE  CloudInv'
<1>1. TypeOK'
  BY DEF CloudInv, TypeOK, RequestInv, Erase, ecVars, registryVars, sweepVars, roomVars, requestVars
<1>2. FreshInv'
  BY DEF CloudInv, TypeOK, FreshInv, RequestInv, Erase, ecVars, registryVars, sweepVars, roomVars, requestVars
<1>3. RequestInv'
  BY DEF CloudInv, TypeOK, RequestInv, Erase, ecVars, registryVars, sweepVars, roomVars, requestVars
<1>4. AssignedInv'
  BY DEF CloudInv, TypeOK, FreshInv, RequestInv, AssignedInv, Erase, ecVars, registryVars, sweepVars, roomVars, requestVars
<1> QED BY <1>1, <1>2, <1>3, <1>4 DEF CloudInv

\* An edited room counts as erased.
LEMMA EditRoomKeepsInv ==
  ASSUME CloudInv, NEW r \in Room, EditRoom(r)
  PROVE  CloudInv'
<1>1. TypeOK'
  BY DEF CloudInv, TypeOK, RequestInv, EditRoom, ecVars, registryVars, sweepVars, roomVars, requestVars
<1>2. FreshInv'
  BY DEF CloudInv, TypeOK, FreshInv, RequestInv, EditRoom, ecVars, registryVars, sweepVars, roomVars, requestVars
<1>3. RequestInv'
  BY DEF CloudInv, TypeOK, RequestInv, EditRoom, ecVars, registryVars, sweepVars, roomVars, requestVars
<1>4. AssignedInv'
  BY DEF CloudInv, TypeOK, FreshInv, RequestInv, AssignedInv, EditRoom, ecVars, registryVars, sweepVars, roomVars, requestVars
<1> QED BY <1>1, <1>2, <1>3, <1>4 DEF CloudInv

\* A request begins without answers.
LEMMA StartKeepsInv ==
  ASSUME CloudInv, NEW q \in Request, NEW r \in Room, Start(q, r)
  PROVE  CloudInv'
<1>1. TypeOK'
  BY DEF CloudInv, TypeOK, RequestInv, Start, ecVars, registryVars, sweepVars, roomVars, requestVars
<1>2. FreshInv'
  BY DEF CloudInv, TypeOK, FreshInv, RequestInv, Start, ecVars, registryVars, sweepVars, roomVars, requestVars
<1>3. RequestInv'
  BY DEF CloudInv, TypeOK, RequestInv, Start, ecVars, registryVars, sweepVars, roomVars, requestVars
<1>4. AssignedInv'
  BY DEF CloudInv, TypeOK, FreshInv, RequestInv, AssignedInv, Start, ecVars, registryVars, sweepVars, roomVars, requestVars
<1> QED BY <1>1, <1>2, <1>3, <1>4 DEF CloudInv

\* What a request finds is what the room is assigned to.
LEMMA GetRoomKeepsInv ==
  ASSUME CloudInv, NEW q \in Request, GetRoom(q)
  PROVE  CloudInv'
<1>1. TypeOK'
  BY DEF CloudInv, TypeOK, RequestInv, GetRoom, ecVars, registryVars, sweepVars, roomVars, requestVars
<1>2. FreshInv'
  BY DEF CloudInv, TypeOK, FreshInv, RequestInv, GetRoom, ecVars, registryVars, sweepVars, roomVars, requestVars
<1>3. RequestInv'
  BY DEF CloudInv, TypeOK, RequestInv, GetRoom, ecVars, registryVars, sweepVars, roomVars, requestVars
<1>4. AssignedInv'
  BY DEF CloudInv, TypeOK, FreshInv, RequestInv, AssignedInv, GetRoom, ecVars, registryVars, sweepVars, roomVars, requestVars
<1> QED BY <1>1, <1>2, <1>3, <1>4 DEF CloudInv

\* A request answers what it has found.
LEMMA AnswerAssignedKeepsInv ==
  ASSUME CloudInv, NEW q \in Request, AnswerAssigned(q)
  PROVE  CloudInv'
<1>1. TypeOK'
  BY DEF CloudInv, TypeOK, RequestInv, AnswerAssigned, Answer, ecVars, registryVars, sweepVars, roomVars, requestVars
<1>2. FreshInv'
  BY DEF CloudInv, TypeOK, FreshInv, RequestInv, AnswerAssigned, Answer, ecVars, registryVars, sweepVars, roomVars, requestVars
<1>3. RequestInv'
  BY DEF CloudInv, TypeOK, RequestInv, AnswerAssigned, Answer, ecVars, registryVars, sweepVars, roomVars, requestVars
<1>4. AssignedInv'
  BY DEF CloudInv, TypeOK, FreshInv, RequestInv, AssignedInv, AnswerAssigned, Answer, ecVars, registryVars, sweepVars, roomVars, requestVars
<1> QED BY <1>1, <1>2, <1>3, <1>4 DEF CloudInv

\* The room of a lost EC counts as erased.
LEMMA AssignmentGoneKeepsInv ==
  ASSUME CloudInv, NEW q \in Request, AssignmentGone(q)
  PROVE  CloudInv'
<1>1. TypeOK'
  BY DEF CloudInv, TypeOK, RequestInv, AssignmentGone, EraseLater, ecVars, registryVars, sweepVars, roomVars, requestVars
<1>2. FreshInv'
  BY DEF CloudInv, TypeOK, FreshInv, RequestInv, AssignmentGone, EraseLater, ecVars, registryVars, sweepVars, roomVars, requestVars
<1>3. RequestInv'
  BY DEF CloudInv, TypeOK, RequestInv, AssignmentGone, EraseLater, ecVars, registryVars, sweepVars, roomVars, requestVars
<1>4. AssignedInv'
  BY DEF CloudInv, TypeOK, FreshInv, RequestInv, AssignedInv, AssignmentGone, EraseLater, ecVars, registryVars, sweepVars, roomVars, requestVars
<1> QED BY <1>1, <1>2, <1>3, <1>4 DEF CloudInv

\* The policy takes a known EC.
LEMMA GetEcQueueKeepsInv ==
  ASSUME CloudInv, NEW q \in Request, GetEcQueue(q)
  PROVE  CloudInv'
<1>1. TypeOK'
  BY DEF CloudInv, TypeOK, RequestInv, GetEcQueue, Best, ecVars, registryVars, sweepVars, roomVars, requestVars
<1>2. FreshInv'
  BY DEF CloudInv, TypeOK, FreshInv, RequestInv, GetEcQueue, Best, ecVars, registryVars, sweepVars, roomVars, requestVars
<1>3. RequestInv'
  BY DEF CloudInv, TypeOK, RequestInv, GetEcQueue, Best, ecVars, registryVars, sweepVars, roomVars, requestVars
<1>4. AssignedInv'
  BY DEF CloudInv, TypeOK, FreshInv, RequestInv, AssignedInv, GetEcQueue, Best, ecVars, registryVars, sweepVars, roomVars, requestVars
<1> QED BY <1>1, <1>2, <1>3, <1>4 DEF CloudInv

\* An interval has a bounded number of ticks.
LEMMA TickKeepsInv ==
  ASSUME CloudInv, NEW q \in Request, Tick(q)
  PROVE  CloudInv'
<1>1. TypeOK'
  BY DEF CloudInv, TypeOK, RequestInv, Tick, Answer, ecVars, registryVars, sweepVars, roomVars, requestVars
<1>2. FreshInv'
  BY DEF CloudInv, TypeOK, FreshInv, RequestInv, Tick, Answer, ecVars, registryVars, sweepVars, roomVars, requestVars
<1>3. RequestInv'
  BY DEF CloudInv, TypeOK, RequestInv, Tick, Answer, ecVars, registryVars, sweepVars, roomVars, requestVars
<1>4. AssignedInv'
  BY DEF CloudInv, TypeOK, FreshInv, RequestInv, AssignedInv, Tick, Answer, ecVars, registryVars, sweepVars, roomVars, requestVars
<1> QED BY <1>1, <1>2, <1>3, <1>4 DEF CloudInv

\* A known EC of the room is left in place, so all that were answered it agree
\* with the new answer (assignErizoControllerToRoom).
LEMMA AssignErizoControllerKeepsInv ==
  ASSUME CloudInv, NEW q \in Request, AssignErizoController(q)
  PROVE  CloudInv'
<1>1. TypeOK'
  BY DEF CloudInv, TypeOK, RequestInv, AssignErizoController, Answer, Choose, ecVars, registryVars, sweepVars, roomVars, requestVars
<1>2. FreshInv'
  BY DEF CloudInv, TypeOK, FreshInv, RequestInv, AssignErizoController, Answer, Choose, ecVars, registryVars, sweepVars, roomVars, requestVars
<1>3. RequestInv'
  BY DEF CloudInv, TypeOK, RequestInv, AssignErizoController, Answer, Choose, ecVars, registryVars, sweepVars, roomVars, requestVars
<1>4. AssignedInv'
  BY DEF CloudInv, TypeOK, FreshInv, RequestInv, AssignedInv, AssignErizoController, Answer, Choose, ecVars, registryVars, sweepVars, roomVars, requestVars
<1> QED BY <1>1, <1>2, <1>3, <1>4 DEF CloudInv

\* Every step keeps the invariant.
LEMMA NextKeepsInv == CloudInv /\ [Next]_vars => CloudInv'
<1> SUFFICES ASSUME CloudInv, [Next]_vars PROVE CloudInv'
  OBVIOUS
<1>1. CASE UNCHANGED vars
  BY <1>1 DEF CloudInv, TypeOK, FreshInv, RequestInv, AssignedInv, vars,
     ecVars, registryVars, sweepVars, roomVars, requestVars
<1>2. ASSUME NEW e \in Ec, EcStep(e) PROVE CloudInv'
  BY <1>2, RegisterKeepsInv, DieKeepsInv, KeepAliveKeepsInv, WhoAreYouKeepsInv,
     UpdateMyStateKeepsInv, SigtermKeepsInv DEF EcStep
<1>3. ASSUME NEW e \in Ec, RemoveErizoController(e) \/ UnassignErizoController(e) PROVE CloudInv'
  BY <1>3, RemoveErizoControllerKeepsInv, UnassignErizoControllerKeepsInv
<1>4. CASE CheckKA
  BY <1>4, CheckKAKeepsInv
<1>5. ASSUME NEW cause \in Ec \cup Request, NEW r \in Room, Erase(cause, r) PROVE CloudInv'
  BY <1>5, EraseKeepsInv
<1>6. ASSUME NEW r \in Room, EditRoom(r) PROVE CloudInv'
  BY <1>6, EditRoomKeepsInv
<1>7. ASSUME NEW q \in Request, NEW r \in Room, Start(q, r) PROVE CloudInv'
  BY <1>7, StartKeepsInv
<1>8. ASSUME NEW q \in Request, RequestStep(q) PROVE CloudInv'
  BY <1>8, GetRoomKeepsInv, AnswerAssignedKeepsInv, AssignmentGoneKeepsInv,
     GetEcQueueKeepsInv, TickKeepsInv DEF RequestStep
<1>9. ASSUME NEW q \in Request, AssignErizoController(q) PROVE CloudInv'
  BY <1>9, AssignErizoControllerKeepsInv
<1> QED BY <1>1, <1>2, <1>3, <1>4, <1>5, <1>6, <1>7, <1>8, <1>9 DEF Next

\* The invariant of every behaviour.
THEOREM CloudInvariance == Spec => []CloudInv
<1> QED BY InitEstablishesInv, NextKeepsInv, PTL DEF Spec

\* All variables keep to their types: in particular the counters of keepalives
\* and of ticks are bounded.
THEOREM TypeCorrect == Spec => []TypeOK
<1>1. CloudInv => TypeOK
  BY DEF CloudInv
<1> QED BY <1>1, CloudInvariance, PTL

\* Known ECs that users of a room were sent to are what the room is assigned to.
LEMMA AtMostTheAssigned ==
  ASSUME CloudInv, NEW r \in Room, r \notin erased
  PROVE  EcsOf(r) \cap known \subseteq {assigned[r]}
  BY DEF CloudInv, AssignedInv, EcsOf

\* Users of a room are sent to one known EC, unless a write erased the room's
\* assignment (getErizoControllerForRoom, assignErizoControllerToRoom).
THEOREM OneEcWithoutErasure == Spec => []OneEcUnlessErased
<1>1. ASSUME CloudInv PROVE OneEcUnlessErased
  <2> SUFFICES ASSUME NEW r \in Room, r \notin erased
               PROVE  Cardinality(EcsOf(r) \cap known) <= 1
    BY DEF OneEcUnlessErased
  <2>1. CASE EcsOf(r) \cap known = {}
    BY <2>1, FS_EmptySet
  <2>2. CASE EcsOf(r) \cap known = {assigned[r]}
    <3>1. Cardinality({assigned[r]}) = 1
      BY FS_Singleton
    <3> QED BY <2>2, <3>1
  <2> QED BY <2>1, <2>2, <1>1, AtMostTheAssigned
<1> QED BY <1>1, CloudInvariance, PTL
=============================================================================
