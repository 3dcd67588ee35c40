------------------------- MODULE AgentRegistry_proofs -------------------------
(***************************************************************************)
(* The gathering of pings in ecCloudHandler.js, for any EAs, joins and     *)
(* bounds: as long as the table of EAs stays as it was asked, a join that  *)
(* gathers has a ping ahead, and the last one ends it.                     *)
(*                                                                         *)
(* The second part is about the calls under it, the table of outstanding   *)
(* calls of amqper.js and nuve's rpc.js (Rpc), for any number of callers,  *)
(* calls and servers: a call is told a time-out or replies, never both, and*)
(* a timer finds the entry it looks for, in nuve unless calls overlap.     *)
(***************************************************************************)
EXTENDS AgentRegistry, Rpc, FiniteSetTheorems, TLAPS

USE BoundAssumption, AgentAssumption

\* The number of EAs in the table is a number.
LEMMA SubsetsAreFinite ==
  ASSUME NEW S, S \subseteq Agent
  PROVE  IsFiniteSet(S) /\ Cardinality(S) \in Nat
  BY FS_Subset, FS_CardinalityType

\* At first there is no join.
LEMMA InitEstablishesInv == Init => RegistryInv
  BY DEF Init, RegistryInv, TypeOK, GatherInv

\* Steps of EAs and the answers they send do not touch the table.
LEMMA AgentKeepsInv ==
  ASSUME RegistryInv, NEW a \in Agent,
         Start(a) \/ Die(a) \/ Sigterm(a) \/ AnswerBroadcast(a) \/ \E s \in {0, 1} : DropReply(a, s)
  PROVE  RegistryInv'
<1> USE DEF RegistryInv, agentVars, askVars, tableVars, joinVars
<1>1. TypeOK'
  <2>1. CASE Start(a)
    BY <2>1 DEF TypeOK, Start
  <2>2. CASE Die(a)
    BY <2>2 DEF TypeOK, Die
  <2>3. CASE Sigterm(a)
    BY <2>3 DEF TypeOK, Sigterm
  <2>4. CASE AnswerBroadcast(a)
    BY <2>4 DEF TypeOK, AnswerBroadcast
  <2>5. CASE \E s \in {0, 1} : DropReply(a, s)
    BY <2>5 DEF TypeOK, DropReply
  <2> QED BY <2>1, <2>2, <2>3, <2>4, <2>5
<1>2. UNCHANGED <<known, joinVars, shaken>>
  BY DEF Start, Die, Sigterm, AnswerBroadcast, DropReply
<1>3. GatherInv'
  BY <1>2 DEF GatherInv
<1> QED BY <1>1, <1>3

\* When the table changes, the joins that gather are counted as shaken.
LEMMA ShakingKeepsGathering ==
  ASSUME GatherInv, NEW T, Shake(T), known' = T, UNCHANGED joinVars
  PROVE  GatherInv'
<1> SUFFICES ASSUME NEW j \in Join
             PROVE  /\ pc'[j] = "idle" => count'[j] = 0
                    /\ pc'[j] = "gathering" /\ j \notin shaken' =>
                         /\ awaited'[j] # {}
                         /\ awaited'[j] \subseteq known'
                         /\ count'[j] + Cardinality(awaited'[j]) = Cardinality(known')
  BY DEF GatherInv
<1>1. CASE T = known
  BY <1>1 DEF GatherInv, Shake, joinVars
<1>2. CASE T # known
  BY <1>2 DEF GatherInv, Shake, joinVars
<1> QED BY <1>1, <1>2

\* The interval.
LEMMA TickKeepsInv ==
  ASSUME RegistryInv, Tick
  PROVE  RegistryInv'
<1>1. \A a \in known \ Gone : timeout[a] + 1 \in 0..MaxTimeout
  BY DEF RegistryInv, TypeOK, Gone
<1>2. TypeOK'
  <2>1. /\ known' \subseteq Agent
        /\ asked' \subseteq Agent
        /\ shaken' \subseteq Join
    BY DEF RegistryInv, TypeOK, Tick, Shake
  <2>2. timeout' \in [Agent -> 0..MaxTimeout]
    BY <1>1 DEF RegistryInv, Tick
  <2> QED BY <2>1, <2>2 DEF RegistryInv, TypeOK, Tick, agentVars, joinVars
<1>3. GatherInv'
  BY ShakingKeepsGathering DEF RegistryInv, Tick
<1> QED BY <1>2, <1>3 DEF RegistryInv

\* An answer of an EA.
LEMMA ReplyKeepsInv ==
  ASSUME RegistryInv, NEW a \in Agent, NEW s \in {0, 1}, HandleReply(a, s)
  PROVE  RegistryInv'
<1>1. TypeOK'
  <2>1. shaken' \subseteq Join
    BY DEF RegistryInv, TypeOK, HandleReply, Shake
  <2> QED BY <2>1 DEF RegistryInv, TypeOK, HandleReply, agentVars, joinVars
<1>2. GatherInv'
  BY ShakingKeepsGathering DEF RegistryInv, HandleReply
<1> QED BY <1>1, <1>2 DEF RegistryInv

\* A join that is refused or sends a request gathers no more.
LEMMA CallingKeepsInv ==
  ASSUME RegistryInv, NEW j \in Join,
         Refuse(j) \/ ChooseByRooms(j) \/ TryAgain(j) \/ \E a \in Agent : Serve(j, a)
  PROVE  RegistryInv'
<1> USE DEF RegistryInv, agentVars, askVars, tableVars
<1>1. TypeOK'
  <2>1. CASE Refuse(j)
    BY <2>1 DEF TypeOK, Refuse
  <2>2. CASE ChooseByRooms(j)
    BY <2>2 DEF TypeOK, ChooseByRooms, CallOneOf, Usable, Shared
  <2>3. CASE TryAgain(j)
    BY <2>3 DEF TypeOK, TryAgain, Shared
  <2>4. ASSUME NEW a \in Agent, Serve(j, a) PROVE TypeOK'
    BY <2>4 DEF TypeOK, Serve
  <2> QED BY <2>1, <2>2, <2>3, <2>4
<1>2. GatherInv'
  <2>1. UNCHANGED <<known, awaited, count, shaken>>
    BY DEF Refuse, ChooseByRooms, TryAgain, Serve
  <2>2. \A k \in Join : pc'[k] \in {"idle", "gathering"} => pc'[k] = pc[k]
    BY DEF TypeOK, Refuse, ChooseByRooms, CallOneOf, TryAgain, Serve
  <2> QED BY <2>1, <2>2 DEF GatherInv
<1> QED BY <1>1, <1>2

\* Asking all EAs of the table for a ping starts a gathering of as many.
LEMMA AskKeepsInv ==
  ASSUME RegistryInv, NEW j \in Join, AskForPings(j)
  PROVE  RegistryInv'
<1> DEFINE asks == {a \in known : recorded[a] # 0}
<1>1. TypeOK'
  BY DEF RegistryInv, TypeOK, AskForPings, agentVars, askVars, tableVars
<1>2. ASSUME NEW k \in Join
      PROVE  /\ pc'[k] = "idle" => count'[k] = 0
             /\ pc'[k] = "gathering" /\ k \notin shaken' =>
                  /\ awaited'[k] # {}
                  /\ awaited'[k] \subseteq known'
                  /\ count'[k] + Cardinality(awaited'[k]) = Cardinality(known')
  <2>1. CASE k = j
    <3>1. count'[j] = 0 /\ pc'[j] = "gathering" /\ awaited'[j] = asks /\ known' = known
      BY DEF RegistryInv, TypeOK, GatherInv, AskForPings, tableVars
    <3>2. j \notin shaken' => asks = known
      BY DEF AskForPings
    <3>3. known # {}
      BY DEF AskForPings
    <3>4. Cardinality(known) \in Nat
      BY SubsetsAreFinite DEF RegistryInv, TypeOK
    <3> HIDE DEF asks
    <3> QED BY <2>1, <3>1, <3>2, <3>3, <3>4
  <2>2. CASE k # j
    <3>1. /\ pc'[k] = pc[k] /\ count'[k] = count[k] /\ awaited'[k] = awaited[k] /\ known' = known
          /\ k \in shaken' <=> k \in shaken
      BY <2>2 DEF RegistryInv, TypeOK, AskForPings, tableVars
    <3> QED BY <3>1 DEF RegistryInv, GatherInv
  <2> QED BY <2>1, <2>2
<1> QED BY <1>1, <1>2 DEF RegistryInv, GatherInv

\* A ping that comes back is counted and awaited no longer; if it was the last
\* the gathering ends.
LEMMA PingKeepsInv ==
  ASSUME RegistryInv, NEW j \in Join, NEW a \in Agent, NEW ok \in BOOLEAN, PingBack(j, a, ok)
  PROVE  RegistryInv'
<1> DEFINE n == count[j] + 1
           pinged == IF ok THEN agentlist[j] \cup {a} ELSE agentlist[j]
<1>1. TypeOK'
  <2>1. pinged \subseteq Agent
    BY DEF RegistryInv, TypeOK
  <2>2. /\ pc' \in [Join -> {"idle", "gathering", "called", "done"}]
        /\ target' \in [Join -> Agent \cup {None, Shared}]
    <3> HIDE DEF pinged
    <3>1. CASE n = Cardinality(known)
      BY <2>1, <3>1 DEF RegistryInv, TypeOK, PingBack, CallOneOf, pinged
    <3>2. CASE n # Cardinality(known)
      BY <3>2 DEF RegistryInv, TypeOK, PingBack
    <3> QED BY <3>1, <3>2
  <2>3. /\ awaited' \in [Join -> SUBSET Agent]
        /\ count' \in [Join -> Nat]
        /\ agentlist' \in [Join -> SUBSET Agent]
    BY <2>1 DEF RegistryInv, TypeOK, PingBack
  <2> QED BY <2>2, <2>3 DEF RegistryInv, TypeOK, PingBack, agentVars, askVars, tableVars
<1>2. ASSUME NEW k \in Join
      PROVE  /\ pc'[k] = "idle" => count'[k] = 0
             /\ pc'[k] = "gathering" /\ k \notin shaken' =>
                  /\ awaited'[k] # {}
                  /\ awaited'[k] \subseteq known'
                  /\ count'[k] + Cardinality(awaited'[k]) = Cardinality(known')
  <2>1. CASE k = j
    <3>1. /\ awaited'[j] = awaited[j] \ {a} /\ count'[j] = n /\ known' = known /\ shaken' = shaken
          /\ pc[j] = "gathering" /\ a \in awaited[j]
      BY DEF RegistryInv, TypeOK, PingBack, tableVars
    <3>2. n = Cardinality(known) => pc'[j] = "called"
      BY DEF RegistryInv, TypeOK, PingBack, CallOneOf
    <3>3. n # Cardinality(known) => pc'[j] = "gathering"
      BY <3>1 DEF PingBack
    <3>4. /\ IsFiniteSet(awaited[j]) /\ Cardinality(awaited[j]) \in Nat
          /\ Cardinality(known) \in Nat /\ count[j] \in Nat
      BY SubsetsAreFinite DEF RegistryInv, TypeOK
    <3>5. Cardinality(awaited[j] \ {a}) = Cardinality(awaited[j]) - 1
      BY <3>1, <3>4, FS_RemoveElement
    <3>6. Cardinality({}) = 0
      BY FS_EmptySet
    <3>7. CASE n = Cardinality(known)
      BY <2>1, <3>2, <3>7
    <3>8. CASE n # Cardinality(known) /\ j \notin shaken
      <4>1. awaited[j] \subseteq known /\ count[j] + Cardinality(awaited[j]) = Cardinality(known)
        BY <3>1, <3>8 DEF RegistryInv, GatherInv
      <4>2. n + Cardinality(awaited[j] \ {a}) = Cardinality(known)
        BY <3>4, <3>5, <4>1
      <4>3. Cardinality(awaited[j] \ {a}) # 0
        BY <3>4, <3>8, <4>2
      <4>4. awaited[j] \ {a} # {}
        BY <4>3, <3>6
      <4> HIDE DEF n
      <4> QED BY <2>1, <3>1, <3>3, <3>8, <4>1, <4>2, <4>4
    <3>9. CASE n # Cardinality(known) /\ j \in shaken
      BY <2>1, <3>1, <3>3, <3>9
    <3> QED BY <3>7, <3>8, <3>9
  <2>2. CASE k # j
    <3>1. /\ pc'[k] = pc[k] /\ count'[k] = count[k] /\ awaited'[k] = awaited[k]
          /\ known' = known /\ shaken' = shaken
      BY <2>2 DEF RegistryInv, TypeOK, PingBack, CallOneOf, tableVars
    <3> QED BY <3>1 DEF RegistryInv, GatherInv
  <2> QED BY <2>1, <2>2
<1> QED BY <1>1, <1>2 DEF RegistryInv, GatherInv

\* Every step keeps the invariant.
LEMMA NextKeepsInv == RegistryInv /\ [Next]_vars => RegistryInv'
<1> SUFFICES ASSUME RegistryInv, [Next]_vars PROVE RegistryInv'
  OBVIOUS
<1>1. CASE UNCHANGED vars
  BY <1>1 DEF RegistryInv, TypeOK, GatherInv, vars, agentVars, askVars, tableVars, joinVars
<1>2. CASE Tick
  BY <1>2, TickKeepsInv
<1>3. ASSUME NEW a \in Agent, AgentStep(a) PROVE RegistryInv'
  BY <1>3, AgentKeepsInv, ReplyKeepsInv DEF AgentStep
<1>4. ASSUME NEW j \in Join, JoinStep(j) PROVE RegistryInv'
  BY <1>4, CallingKeepsInv, AskKeepsInv, PingKeepsInv DEF JoinStep, CallStep
<1> QED BY <1>1, <1>2, <1>3, <1>4 DEF Next

\* The invariant of every behaviour.
THEOREM RegistryInvariance == Spec => []RegistryInv
<1> QED BY InitEstablishesInv, NextKeepsInv, PTL DEF Spec

\* The table of EAs and the joins keep to their types (ecCloudHandler.js).
THEOREM TypeCorrect == Spec => []TypeOK
<1>1. RegistryInv => TypeOK
  BY DEF RegistryInv
<1> QED BY <1>1, RegistryInvariance, PTL

\* A gathering waits for pings that will not come only if the table changed
\* meanwhile or had an EA in state 0 (getErizoAgentPolicy).
THEOREM UndisturbedGatheringsGoOn == Spec => []StuckOnlyIfShaken
<1>1. RegistryInv => StuckOnlyIfShaken
  BY DEF RegistryInv, GatherInv, StuckOnlyIfShaken
<1> QED BY <1>1, RegistryInvariance, PTL
-----------------------------------------------------------------------------
(* The calls (Rpc).                                                        *)

USE CallerAssumption, MaxCallsAssumption DEF Id, Amqper

\* There are no calls at first.
LEMMA NoCallsAtFirst == RpcInit => RpcInv
  BY DEF RpcInit, RpcInv, RpcTypeOK, TableInv, TimeoutExcludesReplies,
         AmqperSurvives, Answers, NuveInv, NuveFailsOnOverlapOnly

\* Steps that give no reply to a callback leave the answers as they are.
LEMMA SameAnswers ==
  ASSUME answered' = answered
  PROVE  \A c, n : Answers(c, n)' = Answers(c, n)
  BY DEF Answers

\* A reply is one more answer of its call.
LEMMA OneMoreAnswer ==
  ASSUME NEW c, NEW n, NEW s \in Server, answered' = answered \cup {<<c, n, s>>}
  PROVE  /\ Answers(c, n)' = Answers(c, n) \cup {s}
         /\ \A d, k : d # c \/ k # n => Answers(d, k)' = Answers(d, k)
  BY DEF Answers

\* A new id has neither entry, timer nor answers.
LEMMA CallKeepsInv ==
  ASSUME RpcInv, NEW c \in Caller, NEW S \in SUBSET Server, NEW acked \in BOOLEAN,
         c \in Nuve => acked, Call(c, S, acked)
  PROVE  RpcInv'
<1>1. RpcTypeOK'
  BY DEF RpcInv, RpcTypeOK, Call
<1> DEFINE m == corrID[c] + 1
<1>a. /\ m \in Id
      /\ m \notin map[c] \cup timer[c] \cup timedOut[c] \cup removal[c] \cup ackless[c]
      /\ Answers(c, m) = {}
  BY DEF RpcInv, RpcTypeOK, TableInv, Call
<1>b. /\ corrID'[c] = m /\ map'[c] = map[c] \cup {m} /\ timer'[c] = timer[c] \cup {m}
      /\ ackless[c] \subseteq ackless'[c] /\ ackless'[c] \subseteq ackless[c] \cup {m}
      /\ acked => ackless' = ackless
      /\ \A d \in Caller \ {c} : /\ corrID'[d] = corrID[d] /\ ackless'[d] = ackless[d]
                                /\ map'[d] = map[d] /\ timer'[d] = timer[d]
  BY DEF RpcInv, RpcTypeOK, Call
<1>c. UNCHANGED <<removal, timedOut, answered, overlapped>>
  BY DEF Call
<1>2. TableInv'
  <2>1. ASSUME NEW d \in Caller, NEW n \in Id,
               \/ n \in map'[d] \cup timer'[d] \cup timedOut'[d] \cup removal'[d] \cup ackless'[d]
               \/ Answers(d, n)' # {}
        PROVE  n <= corrID'[d]
    <3>1. corrID[d] \in Nat /\ n \in Nat
      BY DEF RpcInv, RpcTypeOK
    <3>2. CASE d = c /\ n = m
      BY <3>1, <3>2, <1>b
    <3>3. CASE ~(d = c /\ n = m)
      <4>1. n \in map[d] \cup timer[d] \cup timedOut[d] \cup removal[d] \cup ackless[d] \/ Answers(d, n) # {}
        BY <2>1, <3>3, <1>b, <1>c DEF Answers
      <4>2. n <= corrID[d]
        BY <4>1 DEF RpcInv, TableInv
      <4> QED BY <4>2, <3>1, <1>b
    <3> QED BY <3>2, <3>3
  <2>2. ASSUME NEW d \in Amqper
        PROVE  /\ timer'[d] \subseteq map'[d]
               /\ \A n \in map'[d] : \/ n \in timer'[d] \cup removal'[d]
                                     \/ n \in ackless'[d] /\ Answers(d, n)' # {}
               /\ timer'[d] \cap removal'[d] = {}
               /\ timedOut'[d] \cap map'[d] = {}
               /\ \A n \in timer'[d] : Answers(d, n)' = {}
    <3>1. /\ timer[d] \subseteq map[d]
          /\ \A n \in map[d] : \/ n \in timer[d] \cup removal[d]
                               \/ n \in ackless[d] /\ Answers(d, n) # {}
          /\ timer[d] \cap removal[d] = {}
          /\ timedOut[d] \cap map[d] = {}
          /\ \A n \in timer[d] : Answers(d, n) = {}
      BY DEF RpcInv, TableInv
    <3>2. CASE d = c
      <4> HIDE DEF m
      <4> QED BY <3>1, <3>2, <1>a, <1>b, <1>c, SameAnswers
    <3>3. CASE d # c
      <4> HIDE DEF m
      <4> QED BY <3>1, <3>3, <1>b, <1>c, SameAnswers
    <3> QED BY <3>2, <3>3
  <2> QED BY <2>1, <2>2 DEF TableInv
<1>3. TimeoutExcludesReplies'
  BY DEF RpcInv, RpcTypeOK, TableInv, TimeoutExcludesReplies, Answers,
         Call
<1>4. AmqperSurvives'
  BY DEF RpcInv, RpcTypeOK, TableInv, AmqperSurvives, Call
<1>5. NuveInv'
  <2>a. \A d \in Nuve : removal'[d] = {} /\ ackless'[d] = {}
    BY <1>b, <1>c DEF RpcInv, NuveInv
  <2> SUFFICES ASSUME NEW d \in Nuve \ overlapped
               PROVE  /\ timer'[d] \subseteq map'[d]
                      /\ timedOut'[d] \cap map'[d] = {}
                      /\ \A n \in timer'[d] : Answers(d, n)' = {}
    BY <2>a DEF RpcInv, NuveInv, Call
  <2>1. /\ timer[d] \subseteq map[d]
        /\ timedOut[d] \cap map[d] = {}
        /\ \A n \in timer[d] : Answers(d, n) = {}
    BY DEF RpcInv, NuveInv
  <2> HIDE DEF m
  <2>2. CASE d = c
    BY <2>1, <2>2, <1>a, <1>b, <1>c DEF Answers
  <2>3. CASE d # c
    BY <2>1, <2>3, <1>b, <1>c DEF Answers
  <2> QED BY <2>2, <2>3
<1>6. NuveFailsOnOverlapOnly'
  BY DEF RpcInv, RpcTypeOK, TableInv, NuveInv, NuveFailsOnOverlapOnly,
         Answers, Call
<1> QED BY <1>1, <1>2, <1>3, <1>4, <1>5, <1>6 DEF RpcInv

\* A reply on its way touches no table.
LEMMA ServeKeepsInv ==
  ASSUME RpcInv, NEW c \in Caller, NEW n \in Id, NEW s \in Server,
         ServeCall(c, n, s)
  PROVE  RpcInv'
<1>1. RpcTypeOK'
  BY DEF RpcInv, RpcTypeOK, ServeCall
<1>2. TableInv'
  <2>1. answered' = answered
    BY DEF ServeCall
  <2> QED BY <2>1, SameAnswers DEF RpcInv, RpcTypeOK, TableInv, ServeCall
<1>3. TimeoutExcludesReplies'
  BY DEF RpcInv, RpcTypeOK, TableInv, TimeoutExcludesReplies, Answers,
         ServeCall
<1>4. AmqperSurvives'
  BY DEF RpcInv, RpcTypeOK, TableInv, AmqperSurvives, ServeCall
<1>5. NuveInv'
  BY DEF RpcInv, RpcTypeOK, TableInv, NuveInv, Answers, ServeCall
<1>6. NuveFailsOnOverlapOnly'
  BY DEF RpcInv, RpcTypeOK, TableInv, NuveInv, NuveFailsOnOverlapOnly,
         Answers, ServeCall
<1> QED BY <1>1, <1>2, <1>3, <1>4, <1>5, <1>6 DEF RpcInv

\* A lost request touches no table.
LEMMA UnansweredKeepsInv ==
  ASSUME RpcInv, NEW c \in Caller, NEW n \in Id, NEW s \in Server,
         Unanswered(c, n, s)
  PROVE  RpcInv'
<1>1. RpcTypeOK'
  BY DEF RpcInv, RpcTypeOK, Unanswered
<1>2. TableInv'
  <2>1. answered' = answered
    BY DEF Unanswered
  <2> QED BY <2>1, SameAnswers DEF RpcInv, RpcTypeOK, TableInv, Unanswered
<1>3. TimeoutExcludesReplies'
  BY DEF RpcInv, RpcTypeOK, TableInv, TimeoutExcludesReplies, Answers,
         Unanswered
<1>4. AmqperSurvives'
  BY DEF RpcInv, RpcTypeOK, TableInv, AmqperSurvives, Unanswered
<1>5. NuveInv'
  BY DEF RpcInv, RpcTypeOK, TableInv, NuveInv, Answers, Unanswered
<1>6. NuveFailsOnOverlapOnly'
  BY DEF RpcInv, RpcTypeOK, TableInv, NuveInv, NuveFailsOnOverlapOnly,
         Answers, Unanswered
<1> QED BY <1>1, <1>2, <1>3, <1>4, <1>5, <1>6 DEF RpcInv

\* A reply in time ends the timer and starts the removal.
LEMMA ReplyAmqperKeepsInv ==
  ASSUME RpcInv, NEW c \in Caller, NEW n \in Id, NEW s \in Server,
         c \in Amqper, ReplyAmqper(c, n, s)
  PROVE  RpcInv'
<1>1. RpcTypeOK'
  BY DEF RpcInv, RpcTypeOK, ReplyAmqper, Take
<1>2. TableInv'
  <2>1. answered' = answered \cup {<<c, n, s>>}
    BY DEF ReplyAmqper
  <2>2. /\ s \in Answers(c, n)'
        /\ \A d, k : d # c \/ k # n => Answers(d, k)' = Answers(d, k)
    BY <2>1, OneMoreAnswer
  <2> QED BY <2>2 DEF RpcInv, RpcTypeOK, TableInv, ReplyAmqper, Take
<1>3. TimeoutExcludesReplies'
  BY DEF RpcInv, RpcTypeOK, TableInv, TimeoutExcludesReplies, Answers,
         ReplyAmqper, Take
<1>4. AmqperSurvives'
  BY DEF RpcInv, RpcTypeOK, TableInv, AmqperSurvives, ReplyAmqper,
         Take
<1>5. NuveInv'
  BY DEF RpcInv, RpcTypeOK, TableInv, NuveInv, Answers,
         ReplyAmqper, Take
<1>6. NuveFailsOnOverlapOnly'
  BY DEF RpcInv, RpcTypeOK, TableInv, NuveInv, NuveFailsOnOverlapOnly,
         Answers, ReplyAmqper, Take
<1> QED BY <1>1, <1>2, <1>3, <1>4, <1>5, <1>6 DEF RpcInv

\* nuve's table is its own.
LEMMA ReplyNuveKeepsInv ==
  ASSUME RpcInv, NEW c \in Caller, NEW n \in Id, NEW s \in Server,
         c \in Nuve, ReplyNuve(c, n, s)
  PROVE  RpcInv'
<1>1. RpcTypeOK'
  BY DEF RpcInv, RpcTypeOK, ReplyNuve, Take
<1>2. TableInv'
  <2>1. answered' = answered \cup {<<c, n, s>>}
    BY DEF ReplyNuve
  <2>2. /\ s \in Answers(c, n)'
        /\ \A d, k : d # c \/ k # n => Answers(d, k)' = Answers(d, k)
    BY <2>1, OneMoreAnswer
  <2> QED BY <2>2 DEF RpcInv, RpcTypeOK, TableInv, ReplyNuve, Take
<1>3. TimeoutExcludesReplies'
  BY DEF RpcInv, RpcTypeOK, TableInv, TimeoutExcludesReplies, Answers,
         ReplyNuve, Take
<1>4. AmqperSurvives'
  BY DEF RpcInv, RpcTypeOK, TableInv, AmqperSurvives, ReplyNuve,
         Take
<1>5. NuveInv'
  BY DEF RpcInv, RpcTypeOK, TableInv, NuveInv, Answers,
         ReplyNuve, Take
<1>6. NuveFailsOnOverlapOnly'
  BY DEF RpcInv, RpcTypeOK, TableInv, NuveInv, NuveFailsOnOverlapOnly,
         Answers, ReplyNuve, Take
<1> QED BY <1>1, <1>2, <1>3, <1>4, <1>5, <1>6 DEF RpcInv

\* A reply without an entry changes nothing.
LEMMA DropReplyKeepsInv ==
  ASSUME RpcInv, NEW c \in Caller, NEW n \in Id, NEW s \in Server,
         DropCallReply(c, n, s)
  PROVE  RpcInv'
<1>1. RpcTypeOK'
  BY DEF RpcInv, RpcTypeOK, DropCallReply, Take
<1>2. TableInv'
  <2>1. answered' = answered
    BY DEF DropCallReply, Take
  <2> QED BY <2>1, SameAnswers DEF RpcInv, RpcTypeOK, TableInv, DropCallReply, Take
<1>3. TimeoutExcludesReplies'
  BY DEF RpcInv, RpcTypeOK, TableInv, TimeoutExcludesReplies, Answers,
         DropCallReply, Take
<1>4. AmqperSurvives'
  BY DEF RpcInv, RpcTypeOK, TableInv, AmqperSurvives, DropCallReply,
         Take
<1>5. NuveInv'
  BY DEF RpcInv, RpcTypeOK, TableInv, NuveInv, Answers,
         DropCallReply, Take
<1>6. NuveFailsOnOverlapOnly'
  BY DEF RpcInv, RpcTypeOK, TableInv, NuveInv, NuveFailsOnOverlapOnly,
         Answers, DropCallReply, Take
<1> QED BY <1>1, <1>2, <1>3, <1>4, <1>5, <1>6 DEF RpcInv

\* An entry that is removed has no timer.
LEMMA RemoveKeepsInv ==
  ASSUME RpcInv, NEW c \in Caller, NEW n \in Id, Remove(c, n)
  PROVE  RpcInv'
<1>1. RpcTypeOK'
  BY DEF RpcInv, RpcTypeOK, Remove
<1>2. TableInv'
  <2>1. answered' = answered
    BY DEF Remove
  <2> QED BY <2>1, SameAnswers DEF RpcInv, RpcTypeOK, TableInv, Remove
<1>3. TimeoutExcludesReplies'
  BY DEF RpcInv, RpcTypeOK, TableInv, TimeoutExcludesReplies, Answers,
         Remove
<1>4. AmqperSurvives'
  BY DEF RpcInv, RpcTypeOK, TableInv, AmqperSurvives, Remove
<1>5. NuveInv'
  BY DEF RpcInv, RpcTypeOK, TableInv, NuveInv, Answers, Remove
<1>6. NuveFailsOnOverlapOnly'
  BY DEF RpcInv, RpcTypeOK, TableInv, NuveInv, NuveFailsOnOverlapOnly,
         Answers, Remove
<1> QED BY <1>1, <1>2, <1>3, <1>4, <1>5, <1>6 DEF RpcInv

\* A call that times out was not answered, and loses its entry for good.
LEMMA TimeoutKeepsInv ==
  ASSUME RpcInv, NEW c \in Caller, NEW n \in Id, Timeout(c, n)
  PROVE  RpcInv'
<1>1. RpcTypeOK'
  BY DEF RpcInv, RpcTypeOK, Timeout, ForgetTimedOut
<1>2. TableInv'
  <2>1. answered' = answered
    BY DEF Timeout
  <2> QED BY <2>1, SameAnswers DEF RpcInv, RpcTypeOK, TableInv, Timeout, ForgetTimedOut
<1>3. TimeoutExcludesReplies'
  BY DEF RpcInv, RpcTypeOK, TableInv, TimeoutExcludesReplies, Answers,
         Timeout, ForgetTimedOut
<1>4. AmqperSurvives'
  BY DEF RpcInv, RpcTypeOK, TableInv, AmqperSurvives, Timeout,
         ForgetTimedOut
<1>5. NuveInv'
  BY DEF RpcInv, RpcTypeOK, TableInv, NuveInv, Answers, Timeout,
         ForgetTimedOut
<1>6. NuveFailsOnOverlapOnly'
  BY DEF RpcInv, RpcTypeOK, TableInv, NuveInv, NuveFailsOnOverlapOnly,
         Answers, Timeout, ForgetTimedOut
<1> QED BY <1>1, <1>2, <1>3, <1>4, <1>5, <1>6 DEF RpcInv

\* A timer of amqper always finds its entry.
LEMMA TimeoutThrowsKeepsInv ==
  ASSUME RpcInv, NEW c \in Caller, NEW n \in Id,
         TimeoutThrows(c, n)
  PROVE  RpcInv'
<1>1. RpcTypeOK'
  BY DEF RpcInv, RpcTypeOK, TimeoutThrows, End
<1>2. TableInv'
  <2>1. answered' = answered
    BY DEF TimeoutThrows, End
  <2> QED BY <2>1, SameAnswers DEF RpcInv, RpcTypeOK, TableInv, TimeoutThrows, End
<1>3. TimeoutExcludesReplies'
  BY DEF RpcInv, RpcTypeOK, TableInv, TimeoutExcludesReplies, Answers,
         TimeoutThrows, End
<1>4. AmqperSurvives'
  BY DEF RpcInv, RpcTypeOK, TableInv, AmqperSurvives, TimeoutThrows, End
<1>5. NuveInv'
  BY DEF RpcInv, RpcTypeOK, TableInv, NuveInv, Answers,
         TimeoutThrows, End
<1>6. NuveFailsOnOverlapOnly'
  BY DEF RpcInv, RpcTypeOK, TableInv, NuveInv, NuveFailsOnOverlapOnly,
         Answers, TimeoutThrows, End
<1> QED BY <1>1, <1>2, <1>3, <1>4, <1>5, <1>6 DEF RpcInv

\* A process that ends loses its table and timers.
LEMMA TimeoutUnheardKeepsInv ==
  ASSUME RpcInv, NEW c \in Caller, NEW n \in Id,
         TimeoutUnheard(c, n)
  PROVE  RpcInv'
<1>1. RpcTypeOK'
  BY DEF RpcInv, RpcTypeOK, TimeoutUnheard, End
<1>2. TableInv'
  <2>1. answered' = answered
    BY DEF TimeoutUnheard, End
  <2> QED BY <2>1, SameAnswers DEF RpcInv, RpcTypeOK, TableInv, TimeoutUnheard, End
<1>3. TimeoutExcludesReplies'
  BY DEF RpcInv, RpcTypeOK, TableInv, TimeoutExcludesReplies, Answers,
         TimeoutUnheard, End
<1>4. AmqperSurvives'
  BY DEF RpcInv, RpcTypeOK, TableInv, AmqperSurvives, TimeoutUnheard, End
<1>5. NuveInv'
  BY DEF RpcInv, RpcTypeOK, TableInv, NuveInv, Answers,
         TimeoutUnheard, End
<1>6. NuveFailsOnOverlapOnly'
  BY DEF RpcInv, RpcTypeOK, TableInv, NuveInv, NuveFailsOnOverlapOnly,
         Answers, TimeoutUnheard, End
<1> QED BY <1>1, <1>2, <1>3, <1>4, <1>5, <1>6 DEF RpcInv

\* Every step keeps the invariant.
LEMMA NextKeepsCalls ==
  ASSUME RpcInv, [RpcNext]_rpcVars
  PROVE  RpcInv'
<1>1. CASE UNCHANGED rpcVars
  BY <1>1, SameAnswers DEF RpcInv, RpcTypeOK, TableInv, TimeoutExcludesReplies,
     AmqperSurvives, NuveInv, NuveFailsOnOverlapOnly, rpcVars
<1>2. ASSUME NEW c \in Caller, NEW S \in SUBSET Server, NEW acked \in BOOLEAN,
             c \in Nuve => acked, Call(c, S, acked)
      PROVE  RpcInv'
  BY <1>2, CallKeepsInv
<1>3. ASSUME NEW c \in Caller, NEW n \in Id,
             Timeout(c, n) \/ TimeoutThrows(c, n) \/ TimeoutUnheard(c, n) \/ Remove(c, n)
      PROVE  RpcInv'
  BY <1>3, TimeoutKeepsInv, TimeoutThrowsKeepsInv, TimeoutUnheardKeepsInv, RemoveKeepsInv
<1>4. ASSUME NEW c \in Caller, NEW n \in Id, NEW s \in Server,
             ServeCall(c, n, s) \/ Unanswered(c, n, s)
      PROVE  RpcInv'
  BY <1>4, ServeKeepsInv, UnansweredKeepsInv
<1>5. ASSUME NEW c \in Caller, NEW n \in Id, NEW s \in Server, Receive(c, n, s)
      PROVE  RpcInv'
  BY <1>5, ReplyAmqperKeepsInv, ReplyNuveKeepsInv, DropReplyKeepsInv DEF Receive
<1>6. \A s \in Server : {s} \in SUBSET Server
  OBVIOUS
<1>7. \A c \in Amqper : c \notin Nuve
  OBVIOUS
<1> QED BY <1>1, <1>2, <1>3, <1>4, <1>5, <1>6, <1>7 DEF RpcNext

\* The invariant of every behaviour.
THEOREM RpcInvariance == RpcSpec => []RpcInv
<1>1. RpcInit => RpcInv
  BY NoCallsAtFirst
<1>2. RpcInv /\ [RpcNext]_rpcVars => RpcInv'
  BY NextKeepsCalls
<1> QED BY <1>1, <1>2, PTL DEF RpcSpec

\* The variables of the RPC layers keep to their types (amqper.js, nuve's rpc.js).
THEOREM CallTypesCorrect == RpcSpec => []RpcTypeOK
<1>1. RpcInv => RpcTypeOK
  BY DEF RpcInv
<1> QED BY <1>1, RpcInvariance, PTL

\* A caller of amqper hears a time-out or replies, never both, and its process
\* dies of a timer only when a callback throws at its time-out (callbackError and
\* the subscription of clientQueue in amqper.js).
THEOREM AmqperTells == RpcSpec => []AmqperTellsOnce
<1>1. RpcInv => AmqperTellsOnce
  BY DEF RpcInv, AmqperTellsOnce
<1> QED BY <1>1, RpcInvariance, PTL

\* nuve's layer errs only when a call times out after a later one was made
\* (callbackError in nuve's rpc.js).
THEOREM NuveFailures == RpcSpec => []NuveFailsOnOverlapOnly
<1>1. RpcInv => NuveFailsOnOverlapOnly
  BY DEF RpcInv
<1> QED BY <1>1, RpcInvariance, PTL
=============================================================================
