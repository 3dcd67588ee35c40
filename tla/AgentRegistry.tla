----------------------------- MODULE AgentRegistry -----------------------------
(***************************************************************************)
(* The table of ErizoAgents (EAs) that an ErizoController (EC) keeps, the  *)
(* choice of an EA for a join and the request for a worker that follows    *)
(* (ecCloudHandler.js, default_policy.js), with the part of the EAs that   *)
(* answers (rpcPublic.js, erizoAgentReporter.js).                          *)
(*                                                                         *)
(* An EA takes a new id when it starts again, so an id that went down does *)
(* not come back.  The numbers the choice sorts by (rooms of an EA, spent  *)
(* time of a ping) are left out: any candidate may be the first.           *)
(***************************************************************************)
EXTENDS Naturals, FiniteSets

CONSTANTS
  Agent,       \* ids of EAs
  Join,        \* calls of getMeiasoupWorker, of rooms of either eapolicy
  Slow,        \* EAs that may crash, be cut off or answer late
  Drainable,   \* EAs that may receive SIGTERM
  MaxTimeout,  \* bound: EA_TIMEOUT / GET_EA_INTERVAL (5 in the code)
  MaxAttempts, \* bound: AGENTS_ATTEMPTS (5 in the code)
  None         \* undefined

ASSUME BoundAssumption == MaxTimeout \in Nat \ {0} /\ MaxAttempts \in Nat
ASSUME AgentAssumption == IsFiniteSet(Agent) /\ {None, "timeout", "ErizoAgent"} \cap Agent = {}
ASSUME EnvironmentAssumption == Slow \subseteq Agent /\ Drainable \subseteq Agent

Shared == "ErizoAgent"  \* the queue all EAs take requests from

VARIABLES
  process,   \* the EA processes: "new", "up", "down"
  state,     \* myState of an EA
  asked,     \* EAs that have yet to handle a broadcast of getErizoAgents
  replies,   \* <<EA, state>>: its answers on their way
  known,     \* agents: the keys of the table
  timeout,   \* agents[id].timeout
  recorded,  \* agents[id].info.state
  pc,        \* progress of a join: "idle", "gathering", "called", "done"
  awaited,   \* EAs whose ping the join waits for
  count,     \* count: pings that came back
  agentlist, \* agentlist: EAs that answered the ping
  target,    \* the queue the request for a worker was sent to
  tries,     \* requests sent to the shared queue again
  answer,    \* what the join's callback was given
  shaken     \* history: joins whose pings were not those of the whole table

agentVars == <<process, state>>
askVars == <<asked, replies>>
tableVars == <<known, timeout, recorded>>
joinVars == <<pc, awaited, count, agentlist, target, tries, answer>>
vars == <<agentVars, askVars, tableVars, joinVars, shaken>>

TypeOK ==
  /\ process \in [Agent -> {"new", "up", "down"}]
  /\ state \in [Agent -> {0, 1}]
  /\ asked \subseteq Agent
  /\ replies \subseteq Agent \X {0, 1}
  /\ known \subseteq Agent
  /\ timeout \in [Agent -> 0..MaxTimeout]
  /\ recorded \in [Agent -> {0, 1}]
  /\ pc \in [Join -> {"idle", "gathering", "called", "done"}]
  /\ awaited \in [Join -> SUBSET Agent]
  /\ count \in [Join -> Nat]
  /\ agentlist \in [Join -> SUBSET Agent]
  /\ target \in [Join -> Agent \cup {None, Shared}]
  /\ tries \in [Join -> 0..MaxAttempts]
  /\ answer \in [Join -> Agent \cup {None, "timeout"}]
  /\ shaken \subseteq Join

Init ==
  /\ process = [a \in Agent |-> "new"]
  /\ state = [a \in Agent |-> 1]
  /\ asked = {}
  /\ replies = {}
  /\ known = {}
  /\ timeout = [a \in Agent |-> 0]
  /\ recorded = [a \in Agent |-> 1]
  /\ pc = [j \in Join |-> "idle"]
  /\ awaited = [j \in Join |-> {}]
  /\ count = [j \in Join |-> 0]
  /\ agentlist = [j \in Join |-> {}]
  /\ target = [j \in Join |-> None]
  /\ tries = [j \in Join |-> 0]
  /\ answer = [j \in Join |-> None]
  /\ shaken = {}

-----------------------------------------------------------------------------
(* EAs.                                                                    *)

Start(a) ==
  /\ process[a] = "new"
  /\ process' = [process EXCEPT ![a] = "up"]
  /\ UNCHANGED <<state, askVars, tableVars, joinVars, shaken>>

\* The queue of a process goes with it; what it has sent is on its way.
Die(a) ==
  /\ a \in Slow
  /\ process[a] = "up"
  /\ process' = [process EXCEPT ![a] = "down"]
  /\ asked' = asked \ {a}
  /\ UNCHANGED <<state, replies, tableVars, joinVars, shaken>>

Sigterm(a) ==
  /\ a \in Drainable
  /\ process[a] = "up"
  /\ state' = [state EXCEPT ![a] = 0]
  /\ UNCHANGED <<process, askVars, tableVars, joinVars, shaken>>

\* getErizoAgents of an EA answers with its state of that moment.
AnswerBroadcast(a) ==
  /\ a \in asked
  /\ asked' = asked \ {a}
  /\ replies' = replies \cup {<<a, state[a]>>}
  /\ UNCHANGED <<agentVars, tableVars, joinVars, shaken>>

-----------------------------------------------------------------------------
(* The table.                                                              *)

\* Joins that gather while the table becomes T.
Shake(T) == shaken' = IF T = known THEN shaken ELSE shaken \cup {j \in Join : pc[j] = "gathering"}

\* Mutation: an EA is removed one tick later.
GoneLater == {a \in known : timeout[a] + 1 > MaxTimeout + 1}

\* The EAs the next tick removes.
Gone == {a \in known : timeout[a] + 1 > MaxTimeout}

\* EAs that are not slow have answered the last broadcast before the next.
AnsweredInTime == \A a \in Agent \ Slow : a \notin asked /\ \A r \in replies : r[1] # a

\* Mutation: an EA that was silent long enough is counted no further, and stays.
TickKeepsLast ==
  /\ AnsweredInTime
  /\ asked' = asked \cup {a \in Agent : process[a] = "up"}
  /\ timeout' = [a \in Agent |-> IF a \in known \ Gone THEN timeout[a] + 1 ELSE timeout[a]]
  /\ UNCHANGED <<agentVars, replies, known, recorded, joinVars, shaken>>

\* The interval of getErizoAgents: ask all EAs, count up, remove.
Tick ==
  /\ AnsweredInTime
  /\ asked' = asked \cup {a \in Agent : process[a] = "up"}
  /\ known' = known \ Gone
  /\ Shake(known \ Gone)
  /\ timeout' = [a \in Agent |-> IF a \in known \ Gone THEN timeout[a] + 1 ELSE 0]
  /\ UNCHANGED <<agentVars, replies, recorded, joinVars>>

\* Mutation: the counter of a known EA is not reset.
ReplyKeepsTimeout(a, s) ==
  /\ <<a, s>> \in replies
  /\ replies' = replies \ {<<a, s>>}
  /\ known' = known \cup {a}
  /\ Shake(known \cup {a})
  /\ timeout' = timeout
  /\ recorded' = IF a \in known THEN recorded ELSE [recorded EXCEPT ![a] = s]
  /\ UNCHANGED <<agentVars, asked, joinVars>>

\* The callback of the broadcast.  A known EA keeps the state it was entered
\* with; one that was removed is entered again.
HandleReply(a, s) ==
  /\ <<a, s>> \in replies
  /\ replies' = replies \ {<<a, s>>}
  /\ known' = known \cup {a}
  /\ Shake(known \cup {a})
  /\ timeout' = [timeout EXCEPT ![a] = 0]
  /\ recorded' = IF a \in known THEN recorded ELSE [recorded EXCEPT ![a] = s]
  /\ UNCHANGED <<agentVars, asked, joinVars>>

\* amqper drops a reply that comes after the broadcast has timed out.
DropReply(a, s) ==
  /\ a \in Slow
  /\ <<a, s>> \in replies
  /\ replies' = replies \ {<<a, s>>}
  /\ UNCHANGED <<agentVars, asked, tableVars, joinVars, shaken>>

-----------------------------------------------------------------------------
(* Joins.                                                                  *)

\* checkEAStatus fails: no EA has answered lately.
Refuse(j) ==
  /\ pc[j] = "idle"
  /\ \A a \in known : timeout[a] > 1
  /\ pc' = [pc EXCEPT ![j] = "done"]
  /\ answer' = [answer EXCEPT ![j] = "timeout"]
  /\ UNCHANGED <<agentVars, askVars, tableVars, awaited, count, agentlist, target, tries, shaken>>

\* A request for a worker goes to one of the candidates S, or to the shared
\* queue if there is none.
CallOneOf(j, S) ==
  /\ pc' = [pc EXCEPT ![j] = "called"]
  /\ IF S = {} THEN target' = [target EXCEPT ![j] = Shared]
               ELSE \E a \in S : target' = [target EXCEPT ![j] = a]

\* ROOM-BEST, default_policy.js: EAs that answered lately and were not entered in state 0.
Usable == {a \in known : timeout[a] <= 1 /\ recorded[a] # 0}

ChooseByRooms(j) ==
  /\ pc[j] = "idle"
  /\ \E a \in known : timeout[a] <= 1
  /\ CallOneOf(j, Usable)
  /\ UNCHANGED <<agentVars, askVars, tableVars, awaited, count, agentlist, tries, answer, shaken>>

\* TTL-BEST: getPingConst is asked of all EAs that were not entered in state 0.
AskForPings(j) ==
  LET asks == {a \in known : recorded[a] # 0} IN
  /\ pc[j] = "idle"
  /\ \E a \in known : timeout[a] <= 1
  /\ pc' = [pc EXCEPT ![j] = "gathering"]
  /\ awaited' = [awaited EXCEPT ![j] = asks]
  /\ shaken' = IF asks = known THEN shaken ELSE shaken \cup {j}
  /\ UNCHANGED <<agentVars, askVars, tableVars, count, agentlist, target, tries, answer>>

\* Mutation: a ping that failed is not counted.
PingUncounted(j, a, ok) ==
  LET n == IF ok THEN count[j] + 1 ELSE count[j]
      answered == IF ok THEN agentlist[j] \cup {a} ELSE agentlist[j]
  IN
  /\ pc[j] = "gathering"
  /\ a \in awaited[j]
  /\ ok => process[a] = "up"
  /\ awaited' = [awaited EXCEPT ![j] = @ \ {a}]
  /\ count' = [count EXCEPT ![j] = n]
  /\ agentlist' = [agentlist EXCEPT ![j] = answered]
  /\ IF n = Cardinality(known) THEN CallOneOf(j, answered) ELSE UNCHANGED <<pc, target>>
  /\ UNCHANGED <<agentVars, askVars, tableVars, tries, answer, shaken>>

\* A ping comes back, with the time spent or without: an error or the time-out
\* of the call.  The gathering ends when as many came back as EAs are known now.
PingBack(j, a, ok) ==
  LET n == count[j] + 1
      answered == IF ok THEN agentlist[j] \cup {a} ELSE agentlist[j]
  IN
  /\ pc[j] = "gathering"
  /\ a \in awaited[j]
  /\ ok => process[a] = "up"
  /\ awaited' = [awaited EXCEPT ![j] = @ \ {a}]
  /\ count' = [count EXCEPT ![j] = n]
  /\ agentlist' = [agentlist EXCEPT ![j] = answered]
  /\ IF n = Cardinality(known) THEN CallOneOf(j, answered) ELSE UNCHANGED <<pc, target>>
  /\ UNCHANGED <<agentVars, askVars, tableVars, tries, answer, shaken>>

\* The EAs that may take the request of a join out of its queue.
Takers(j) == {a \in Agent : process[a] = "up" /\ target[j] \in {a, Shared}}

\* getMediasoupWork of an EA in service answers.
Serve(j, a) ==
  /\ pc[j] = "called"
  /\ a \in Takers(j)
  /\ state[a] # 0
  /\ answer' = [answer EXCEPT ![j] = a]
  /\ pc' = [pc EXCEPT ![j] = "done"]
  /\ UNCHANGED <<agentVars, askVars, tableVars, awaited, count, agentlist, target, tries, shaken>>

\* Nobody takes the request, or an EA that is slow or drains does.
MayTimeOut(j) == Takers(j) = {} \/ \E a \in Takers(j) : a \in Slow \/ state[a] = 0

\* Mutation: attempts are not counted.
RetryForever(j) ==
  /\ pc[j] = "called"
  /\ MayTimeOut(j)
  /\ target' = [target EXCEPT ![j] = Shared]
  /\ UNCHANGED <<agentVars, askVars, tableVars, pc, awaited, count, agentlist, tries, answer, shaken>>

\* getMeiasoupWorkerTryAgain after a time-out: the shared queue, or the end.
TryAgain(j) ==
  /\ pc[j] = "called"
  /\ MayTimeOut(j)
  /\ IF tries[j] >= MaxAttempts
       THEN /\ answer' = [answer EXCEPT ![j] = "timeout"]
            /\ pc' = [pc EXCEPT ![j] = "done"]
            /\ UNCHANGED <<target, tries>>
       ELSE /\ target' = [target EXCEPT ![j] = Shared]
            /\ tries' = [tries EXCEPT ![j] = @ + 1]
            /\ UNCHANGED <<answer, pc>>
  /\ UNCHANGED <<agentVars, askVars, tableVars, awaited, count, agentlist, shaken>>

-----------------------------------------------------------------------------
CallStep(j) == TryAgain(j) \/ \E a \in Agent : Serve(j, a)

JoinStep(j) ==
  \/ Refuse(j)
  \/ ChooseByRooms(j)
  \/ AskForPings(j)
  \/ \E a \in Agent, ok \in BOOLEAN : PingBack(j, a, ok)
  \/ CallStep(j)

AgentStep(a) ==
  \/ Start(a)
  \/ Die(a)
  \/ Sigterm(a)
  \/ AnswerBroadcast(a)
  \/ \E s \in {0, 1} : HandleReply(a, s) \/ DropReply(a, s)

Next ==
  \/ Tick
  \/ \E a \in Agent : AgentStep(a)
  \/ \E j \in Join : JoinStep(j)

Spec == Init /\ [][Next]_vars

\* The interval fires, what arrived is handled, amqper ends every call by a
\* reply or its time-out, and EAs that are not slow answer.
Fairness ==
  /\ WF_vars(Tick)
  /\ \A a \in Agent \ Slow : WF_vars(AnswerBroadcast(a))
  /\ \A a \in Agent, s \in {0, 1} : WF_vars(HandleReply(a, s))
  /\ \A j \in Join, a \in Agent : WF_vars(\E ok \in BOOLEAN : PingBack(j, a, ok))
  /\ \A j \in Join : WF_vars(CallStep(j))

FairSpec == Spec /\ Fairness

-----------------------------------------------------------------------------
(* Properties.                                                             *)

\* A join waits for pings that will not come (getErizoAgentPolicy counts them
\* against the table of now) only if an EA came, went, or was in state 0.
StuckOnlyIfShaken ==
  \A j \in Join : pc[j] = "gathering" /\ awaited[j] = {} => j \in shaken

\* A join that gathers pings undisturbed asks for a worker, and one that asked
\* is answered, with a worker or after its last attempt.
JoinEnds ==
  \A j \in Join :
    /\ pc[j] = "gathering" ~> pc[j] \in {"called", "done"} \/ j \in shaken
    /\ pc[j] = "called" ~> pc[j] = "done"

\* A dead EA leaves the table for good, whatever answers of it are on their
\* way, and one that answers in time comes into it and stays (getErizoAgents).
TableFollowsAgents ==
  \A a \in Agent :
    /\ process[a] = "down" ~> [](a \notin known)
    /\ a \notin Slow => process[a] = "up" ~> [](a \in known)

-----------------------------------------------------------------------------
(* The inductive invariant the proofs use.                                 *)

\* A join that has not begun has counted nothing, and one that gathers
\* undisturbed has still to count as many pings as it waits for, at least one.
GatherInv ==
  \A j \in Join :
    /\ pc[j] = "idle" => count[j] = 0
    /\ pc[j] = "gathering" /\ j \notin shaken =>
         /\ awaited[j] # {}
         /\ awaited[j] \subseteq known
         /\ count[j] + Cardinality(awaited[j]) = Cardinality(known)

RegistryInv == TypeOK /\ GatherInv
=============================================================================
