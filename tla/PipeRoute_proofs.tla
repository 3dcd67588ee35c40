--------------------------- MODULE PipeRoute_proofs ---------------------------
(***************************************************************************)
(* Proofs about PipeRoute: its types, and that whoever is in a room hears  *)
(* what is piped there (PipedHeard), for any clients, homes and producers. *)
(*                                                                         *)
(* PipedHeard is a statement about both EAs and the calls between them, and*)
(* needs three facts to be kept by every step (PipeInv).  A batch, in the  *)
(* mail or being made, is of clients of the EA that sent it (MailInv,      *)
(* BatchInv), so that it makes guests and never local clients.  What "from"*)
(* makes of an answer is all of the answer, and the answer is final        *)
(* (AskInv, BatchInv), so that what is excused once stays excused.  And    *)
(* createPipTransportConsume is called once and answers once (AskInv), as  *)
(* handlePipRoute resolves its loops once (LoopInv).                       *)
(***************************************************************************)
EXTENDS PipeRoute, SequenceTheorems, TLAPS

-----------------------------------------------------------------------------
(* Mail.                                                                   *)

LEMMA SidesAndHomes ==
  /\ \A s \in Side : Other(s) \in Side /\ Other(s) # s /\ Other(Other(s)) = s
  /\ \A s, t \in Side : t # s => t = Other(s)
  /\ \A u \in User : Home[u] \in Side
  /\ \A p \in Producer : OwnerOf[p] \in User /\ HomeOf(p) \in Side
BY HomeAssumption, OwnerAssumption DEF Side, Other, HomeOf

\* A call that is sent goes behind those under way to that EA.
LEMMA SendAppends ==
  ASSUME TypeOK, NEW s \in Side, NEW m \in Message, Send(s, m)
  PROVE  /\ mail' \in [Side -> Seq(Message)]
         /\ \A t \in Side : t # s => mail'[t] = mail[t]
         /\ Len(mail'[s]) = Len(mail[s]) + 1
         /\ \A i \in 1..Len(mail[s]) : mail'[s][i] = mail[s][i]
         /\ mail'[s][Len(mail[s]) + 1] = m
<1>1. mail \in [Side -> Seq(Message)] /\ mail[s] \in Seq(Message)
  BY DEF TypeOK
<1>2. mail' = [mail EXCEPT ![s] = Append(mail[s], m)]
  BY DEF Send
<1>3. mail'[s] = Append(mail[s], m)
  BY <1>1, <1>2
<1> QED BY <1>1, <1>2, <1>3

\* A call that is received was the first of those under way.
LEMMA ReceiveTakesFirst ==
  ASSUME TypeOK, NEW s \in Side, NEW call, Receive(s, call)
  PROVE  /\ mail' \in [Side -> Seq(Message)]
         /\ \A t \in Side : t # s => mail'[t] = mail[t]
         /\ Len(mail[s]) \in Nat /\ Len(mail[s]) >= 1
         /\ Len(mail'[s]) = Len(mail[s]) - 1
         /\ \A i \in 1..Len(mail'[s]) : mail'[s][i] = mail[s][i + 1]
         /\ Head(mail[s]) = mail[s][1] /\ mail[s][1] \in Message /\ mail[s][1].call = call
<1>1. mail \in [Side -> Seq(Message)] /\ mail[s] \in Seq(Message) /\ mail[s] # <<>>
  BY DEF TypeOK, Receive
<1>2. mail' = [mail EXCEPT ![s] = Tail(mail[s])]
  BY DEF Receive
<1>3. mail'[s] = Tail(mail[s])
  BY <1>1, <1>2
<1>4. Head(mail[s]) = mail[s][1] /\ mail[s][1] \in Message /\ Len(mail[s]) \in Nat /\ Len(mail[s]) >= 1
  BY <1>1
<1>5. Tail(mail[s]) \in Seq(Message) /\ Len(Tail(mail[s])) = Len(mail[s]) - 1
      /\ \A i \in 1..Len(Tail(mail[s])) : Tail(mail[s])[i] = mail[s][i + 1]
  BY <1>1
<1> QED BY <1>1, <1>2, <1>3, <1>4, <1>5 DEF Receive

\* What the messages that carry a batch or a producer carry.
LEMMA MessageTypes ==
  /\ \A m \in Message : m.call = "produce" => m.batch \in Batch
  /\ \A m \in Message : m.call = "close" => m.producer \in Producer
  /\ \A b \in Batch : [call |-> "produce", batch |-> b] \in Message
  /\ \A p \in Producer : [call |-> "close", producer |-> p] \in Message
  /\ \A c \in {"create", "connect", "ask"} : [call |-> c] \in Message
BY DEF Message

\* A family of sets, one for each EA, with another set at one of them.
LEMMA AtOneSide ==
  ASSUME NEW T, NEW f \in [Side -> SUBSET T], NEW s \in Side, NEW S \in SUBSET T
  PROVE  /\ [f EXCEPT ![s] = S] \in [Side -> SUBSET T]
         /\ [f EXCEPT ![s] = S][s] = S
         /\ \A t \in Side : t # s => [f EXCEPT ![s] = S][t] = f[t]
OBVIOUS

LEMMA BatchTypes ==
  ASSUME NEW key \in Producer \cup {Snapshot, Reply}, NEW peers \in SUBSET User, NEW items \in SUBSET Producer
  PROVE  BatchOf(key, peers, items) \in Batch
BY DEF BatchOf, Batch
-----------------------------------------------------------------------------
(* Types.                                                                  *)

LEMMA UserStepTypes ==
  ASSUME TypeOK, NEW u \in User, Enter(u)
  PROVE  TypeOK'
BY SidesAndHomes DEF TypeOK, Enter, Disturb, producerVars, routeVars, scanVars

LEMMA ProducerStepTypes ==
  ASSUME TypeOK, NEW p \in Producer, Produce(p) \/ CloseProducer(p)
  PROVE  TypeOK'
BY SidesAndHomes DEF TypeOK, Produce, CloseProducer, Disturb, roomVars, pipeVars, routeVars, scanVars

LEMMA LeaveTypes ==
  ASSUME TypeOK, NEW s \in Side, NEW u \in User, DeleteUser(s, u)
  PROVE  TypeOK'
<1>1. /\ left' \in [Side -> SUBSET User]
      /\ clients' \in [Side -> SUBSET User]
      /\ disturbed' \subseteq Side
      /\ UNCHANGED <<started, mapped, answered, scan, seen, taken, counted, reply, mail, refused>>
  BY DEF TypeOK, DeleteUser, Disturb
<1>2. CASE clients[s] \subseteq {u}
  <2>1. CloseRoom(s)
    BY <1>2 DEF DeleteUser
  <2>2. roomOpen' \subseteq Side /\ known' \subseteq Side /\ pair' \subseteq Side /\ phase' \in {phase, "dead"}
    BY <2>1 DEF CloseRoom, TypeOK
  <2>3. /\ open' \subseteq Producer /\ fanning' \subseteq Producer /\ piped' \subseteq Producer
        /\ guestHas' \subseteq Producer /\ pipeCons' \subseteq Producer \X Made
        /\ heard' \subseteq User \X Producer
    BY <2>1 DEF CloseRoom, TypeOK
  <2>4. cur' \in [User -> {None} \cup Producer \X BOOLEAN]
    BY <2>1 DEF CloseRoom, TypeOK
  <2>5. batches' \in [Side -> SUBSET Batch]
    BY <2>1 DEF CloseRoom, TypeOK
  <2> QED BY <1>1, <2>2, <2>3, <2>4, <2>5 DEF TypeOK
<1>3. CASE ~(clients[s] \subseteq {u})
  <2>1. /\ open' \subseteq open /\ guestHas' \subseteq guestHas /\ heard' \subseteq heard
        /\ UNCHANGED <<roomOpen, fanning, pipeCons, known, pair, piped, cur, batches, phase>>
    BY <1>3 DEF DeleteUser
  <2> QED BY <1>1, <2>1 DEF TypeOK
<1> QED BY <1>2, <1>3

LEMMA FanOutTypes ==
  ASSUME TypeOK, NEW p \in Producer, FanOut(p)
  PROVE  TypeOK'
<1>1. mail' \in [Side -> Seq(Message)]
  <2>1. BatchOf(p, {OwnerOf[p]}, {p}) \in Batch
    BY SidesAndHomes, BatchTypes
  <2>2. [call |-> "produce", batch |-> BatchOf(p, {OwnerOf[p]}, {p})] \in Message
    BY <2>1, MessageTypes
  <2> QED BY <2>2, SidesAndHomes, SendAppends DEF FanOut
<1>2. fanning' \subseteq Producer /\ pipeCons' \subseteq Producer \X Made
  BY DEF TypeOK, FanOut, Made
<1> QED BY <1>1, <1>2 DEF TypeOK, FanOut, roomVars, routeVars, scanVars

LEMMA ConsumerClosedTypes ==
  ASSUME TypeOK, NEW c \in pipeCons, PipeConsumerClosed(c)
  PROVE  TypeOK'
<1>1. c[1] \in Producer
  BY DEF TypeOK
<1>2. mail' \in [Side -> Seq(Message)]
  BY <1>1, SidesAndHomes, MessageTypes, SendAppends DEF PipeConsumerClosed
<1>3. pipeCons' \subseteq Producer \X Made
  BY DEF TypeOK, PipeConsumerClosed
<1> QED BY <1>2, <1>3 DEF TypeOK, PipeConsumerClosed, roomVars, producerVars, routeVars, scanVars

\* handlePipRoute between its loops.
LEMMA RouteTypes ==
  ASSUME TypeOK, StartCascade \/ CreateAnswered \/ SendEnds \/ RouteDies
  PROVE  TypeOK'
<1>1. /\ phase' \in {"create", "connect", "ask", "dead"}
      /\ UNCHANGED <<roomVars, producerVars, pipeVars, answered, scanVars, batches, refused, disturbed>>
  BY DEF StartCascade, CreateAnswered, SendEnds, RouteDies
<1>2. mail' \in [Side -> Seq(Message)]
  <2>1. CASE RouteDies
    BY <2>1 DEF RouteDies, TypeOK
  <2>2. ASSUME NEW c \in {"create", "connect", "ask"}, Send("to", [call |-> c])
        PROVE  mail' \in [Side -> Seq(Message)]
    BY <2>2, MessageTypes, SendAppends DEF Side
  <2> QED BY <2>1, <2>2 DEF StartCascade, CreateAnswered, SendEnds
<1> QED BY <1>1, <1>2 DEF TypeOK, roomVars, producerVars, pipeVars, scanVars

LEMMA StartLoopsTypes ==
  ASSUME TypeOK, NEW s \in Side, StartLoops(s)
  PROVE  /\ cur' \in [User -> {None} \cup Producer \X BOOLEAN]
         /\ counted' \in [Side -> SUBSET User]
         /\ disturbed' \subseteq Side
<1>1. clients[s] \subseteq User /\ Locals(s) \subseteq User /\ \A u \in User : Theirs(u) \subseteq Producer
  BY DEF TypeOK, Locals, Theirs
<1>2. cur' \in [User -> {None} \cup Producer \X BOOLEAN]
  <2>1. PICK first \in [Locals(s) -> Producer \cup {None}] :
          /\ \A u \in Locals(s) : IF Theirs(u) = {} THEN first[u] = None ELSE first[u] \in Theirs(u)
          /\ cur' = [u \in User |->
               IF u \in Locals(s) /\ Theirs(u) # {} THEN <<first[u], TRUE>> ELSE cur[u]]
    BY DEF StartLoops
  <2>2. ASSUME NEW u \in User PROVE cur'[u] \in {None} \cup Producer \X BOOLEAN
    <3>1. CASE u \in Locals(s) /\ Theirs(u) # {}
      <4>1. first[u] \in Producer
        BY <1>1, <2>1, <3>1
      <4> QED BY <2>1, <3>1, <4>1
    <3>2. CASE ~(u \in Locals(s) /\ Theirs(u) # {})
      <4>1. cur'[u] = cur[u]
        BY <2>1, <3>2
      <4> QED BY <4>1 DEF TypeOK
    <3> QED BY <3>1, <3>2
  <2>3. cur' = [u \in User |-> cur'[u]]
    BY <2>1
  <2> QED BY <2>2, <2>3
<1>3. counted' \in [Side -> SUBSET User] /\ disturbed' \subseteq Side
  BY <1>1 DEF StartLoops, TypeOK
<1> QED BY <1>2, <1>3

LEMMA ConnectEndsTypes ==
  ASSUME TypeOK, ConnectEnds
  PROVE  TypeOK'
<1>1. /\ cur' \in [User -> {None} \cup Producer \X BOOLEAN]
      /\ counted' \in [Side -> SUBSET User]
      /\ disturbed' \subseteq Side
  BY StartLoopsTypes DEF ConnectEnds, Side
<1>2. /\ known' \subseteq Side /\ pair' \subseteq Side
      /\ scan' \in [Side -> {"idle", "running", "done"}]
      /\ phase' = "scan"
  BY DEF TypeOK, ConnectEnds, Side
<1> QED BY <1>1, <1>2 DEF TypeOK, ConnectEnds, roomVars, producerVars

LEMMA AskAnsweredTypes ==
  ASSUME TypeOK, AskAnswered
  PROVE  TypeOK'
<1>1. /\ clients' \in [Side -> SUBSET User] /\ heard' \subseteq User \X Producer
      /\ batches' \in [Side -> SUBSET Batch]
  <2>1. CASE "from" \in roomOpen
    <3>1. reply.peers \subseteq User /\ reply.items \subseteq Producer
      BY DEF TypeOK
    <3>2. BatchOf(Reply, reply.peers, reply.items) \in Batch
      BY <3>1, BatchTypes
    <3>3. clients' \in [Side -> SUBSET User] /\ batches' \in [Side -> SUBSET Batch]
      <4>1. /\ clients' = [clients EXCEPT !["from"] = clients["from"] \cup reply.peers]
            /\ batches' = [batches EXCEPT !["from"] =
                 batches["from"] \cup {BatchOf(Reply, reply.peers, reply.items)}]
        BY <2>1 DEF AskAnswered
      <4>2. /\ clients \in [Side -> SUBSET User] /\ batches \in [Side -> SUBSET Batch]
            /\ clients["from"] \cup reply.peers \in SUBSET User
            /\ batches["from"] \cup {BatchOf(Reply, reply.peers, reply.items)} \in SUBSET Batch
        BY <3>1, <3>2 DEF TypeOK, Side
      <4>3. clients' \in [Side -> SUBSET User]
        BY <4>1, <4>2, AtOneSide DEF Side
      <4> QED BY <4>1, <4>2, <4>3, AtOneSide DEF Side
    <3>4. heard' \subseteq User \X Producer
      BY <2>1 DEF AskAnswered, TypeOK, ConsumersAt, Locals, Side
    <3> QED BY <3>3, <3>4
  <2>2. CASE "from" \notin roomOpen
    BY <2>2 DEF AskAnswered, TypeOK
  <2> QED BY <2>1, <2>2
<1>2. disturbed' \subseteq Side /\ phase' = "done"
  BY DEF AskAnswered, Disturb, TypeOK, Side
<1> QED BY <1>1, <1>2 DEF TypeOK, AskAnswered, producerVars, scanVars

\* A loop goes on, and hands on what Resolved says when the tally is complete.
LEMMA LoopStepTypes ==
  ASSUME TypeOK, NEW u \in User, LoopStep(u)
  PROVE  TypeOK'
<1> DEFINE s == Home[u]
           p == cur[u][1]
           made == IF cur[u][2] THEN taken \cup {p} ELSE taken
           tally == IF LoopComplete(u, seen \cup {p}) THEN counted[s] \cup {u} ELSE counted[s]
           peers == {v \in tally : Home[v] = s}
           items == {q \in made : OwnerOf[q] \in peers}
<1>1. s \in Side /\ p \in Producer /\ cur[u] \in Producer \X BOOLEAN
  <2>1. cur[u] \in {None} \cup Producer \X BOOLEAN /\ cur[u] # None
    BY DEF TypeOK, LoopStep
  <2> QED BY <2>1, SidesAndHomes
<1>2. made \subseteq Producer /\ tally \subseteq User
  BY <1>1 DEF TypeOK
<1>3. peers \subseteq User /\ items \subseteq Producer
  BY <1>2
<1>4. /\ seen' = seen \cup {p} /\ taken' = made
      /\ pipeCons' = IF cur[u][2] THEN pipeCons \cup {<<p, Snapshot>>} ELSE pipeCons
      /\ counted' = [counted EXCEPT ![s] = tally]
      /\ \E next \in Producer \cup {None} :
           cur' = [cur EXCEPT ![u] = IF next = None THEN None ELSE <<next, next \in open>>]
      /\ \/ Resolved(s, peers, items)
         \/ UNCHANGED <<scan, mail, phase, reply, answered>>
      /\ UNCHANGED <<roomVars, producerVars, known, pair, piped, guestHas, heard, batches, refused, disturbed>>
  BY DEF LoopStep, Theirs, TypeOK
<1> HIDE DEF s, p, made, tally, peers, items
<1>5. /\ seen' \subseteq Producer /\ taken' \subseteq Producer
      /\ pipeCons' \subseteq Producer \X Made /\ counted' \in [Side -> SUBSET User]
  BY <1>1, <1>2, <1>4 DEF TypeOK, Made
<1>6. cur' \in [User -> {None} \cup Producer \X BOOLEAN]
  <2>1. PICK next \in Producer \cup {None} :
          cur' = [cur EXCEPT ![u] = IF next = None THEN None ELSE <<next, next \in open>>]
    BY <1>4
  <2>2. (IF next = None THEN None ELSE <<next, next \in open>>) \in {None} \cup Producer \X BOOLEAN
    <3>1. CASE next = None
      BY <3>1
    <3>2. CASE next # None
      <4>1. next \in Producer /\ (next \in open) \in BOOLEAN
        BY <3>2
      <4> QED BY <3>2, <4>1
    <3> QED BY <3>1, <3>2
  <2> QED BY <2>1, <2>2 DEF TypeOK
<1>7. /\ scan' \in [Side -> {"idle", "running", "done"}]
      /\ phase' \in {phase, "send"}
      /\ answered' \subseteq {"create", "connect", "send", "ask"}
      /\ reply' \in [peers : SUBSET User, items : SUBSET Producer]
      /\ mail' \in [Side -> Seq(Message)]
  <2>1. CASE Resolved(s, peers, items)
    <3>1. scan' \in [Side -> {"idle", "running", "done"}]
      BY <1>1, <2>1 DEF Resolved, TypeOK
    <3>2. CASE s = "from"
      <4>1. BatchOf(Snapshot, peers, items) \in Batch
        BY <1>3, BatchTypes
      <4>2. Send("to", [call |-> "produce", batch |-> BatchOf(Snapshot, peers, items)])
            /\ phase' = "send" /\ UNCHANGED <<reply, answered>>
        BY <2>1, <3>2 DEF Resolved
      <4>3. mail' \in [Side -> Seq(Message)]
        BY <4>1, <4>2, MessageTypes, SendAppends DEF Side
      <4> QED BY <3>1, <4>2, <4>3 DEF TypeOK
    <3>3. CASE s # "from"
      <4>1. /\ reply' = [peers |-> peers, items |-> items]
            /\ answered' = answered \cup {"ask"}
            /\ UNCHANGED <<mail, phase>>
        BY <2>1, <3>3 DEF Resolved
      <4>2. reply' \in [peers : SUBSET User, items : SUBSET Producer]
        BY <1>3, <4>1
      <4> QED BY <3>1, <4>1, <4>2 DEF TypeOK
    <3> QED BY <3>2, <3>3
  <2>2. CASE UNCHANGED <<scan, mail, phase, reply, answered>>
    BY <2>2 DEF TypeOK
  <2> QED BY <1>4, <2>1, <2>2
<1> QED BY <1>4, <1>5, <1>6, <1>7 DEF TypeOK, roomVars, producerVars

LEMMA CreateConnectTypes ==
  ASSUME TypeOK, CreatePipTransport \/ ConnectPipTransport
  PROVE  TypeOK'
<1>1. mail' \in [Side -> Seq(Message)]
  BY ReceiveTakesFirst DEF CreatePipTransport, ConnectPipTransport, Side
<1>2. /\ known' \subseteq Side /\ pair' \subseteq Side
      /\ answered' \subseteq {"create", "connect", "send", "ask"}
  BY DEF CreatePipTransport, ConnectPipTransport, TypeOK, Side
<1> QED BY <1>1, <1>2 DEF TypeOK, CreatePipTransport, ConnectPipTransport, roomVars, producerVars, scanVars

LEMMA CreateProduceTypes ==
  ASSUME TypeOK, NEW s \in Side, CreatePipTransportProduce(s)
  PROVE  TypeOK'
<1> DEFINE b == Head(mail[s]).batch
<1>1. mail' \in [Side -> Seq(Message)] /\ b \in Batch
  BY ReceiveTakesFirst, MessageTypes DEF CreatePipTransportProduce
<1>2. /\ \/ /\ clients' = [clients EXCEPT ![s] = @ \cup b.peers]
            /\ batches' = [batches EXCEPT ![s] = @ \cup {b}]
         \/ UNCHANGED <<clients, batches>>
      /\ answered' \subseteq answered \cup {"send"}
      /\ Disturb(s)
      /\ UNCHANGED <<roomOpen, left, producerVars, pipeVars, phase, scanVars, refused>>
  BY DEF CreatePipTransportProduce
<1> HIDE DEF b
<1>3. clients' \in [Side -> SUBSET User] /\ batches' \in [Side -> SUBSET Batch]
  <2>1. CASE UNCHANGED <<clients, batches>>
    BY <2>1 DEF TypeOK
  <2>2. CASE /\ clients' = [clients EXCEPT ![s] = @ \cup b.peers]
             /\ batches' = [batches EXCEPT ![s] = @ \cup {b}]
    <3>1. /\ clients \in [Side -> SUBSET User] /\ batches \in [Side -> SUBSET Batch]
          /\ clients[s] \cup b.peers \in SUBSET User
          /\ batches[s] \cup {b} \in SUBSET Batch
      BY <1>1 DEF TypeOK, Batch
    <3>2. clients' \in [Side -> SUBSET User]
      BY <2>2, <3>1, AtOneSide
    <3> QED BY <2>2, <3>1, <3>2, AtOneSide
  <2> QED BY <1>2, <2>1, <2>2
<1>4. disturbed' \subseteq Side
  BY <1>2 DEF Disturb, TypeOK
<1> QED BY <1>1, <1>2, <1>3, <1>4 DEF TypeOK, producerVars, pipeVars, scanVars

LEMMA CreateConsumeTypes ==
  ASSUME TypeOK, CreatePipTransportConsume
  PROVE  TypeOK'
<1>1. mail' \in [Side -> Seq(Message)]
  BY ReceiveTakesFirst DEF CreatePipTransportConsume, Side
<1>2. /\ cur' \in [User -> {None} \cup Producer \X BOOLEAN]
      /\ counted' \in [Side -> SUBSET User]
      /\ disturbed' \subseteq Side
  <2>1. CASE "to" \in roomOpen
    BY <2>1, StartLoopsTypes DEF CreatePipTransportConsume, Side
  <2>2. CASE "to" \notin roomOpen
    BY <2>2 DEF CreatePipTransportConsume, TypeOK
  <2> QED BY <2>1, <2>2
<1>3. /\ scan' \in [Side -> {"idle", "running", "done"}]
      /\ answered' \subseteq {"create", "connect", "send", "ask"}
      /\ reply' = reply
  BY DEF CreatePipTransportConsume, TypeOK
<1> QED BY <1>1, <1>2, <1>3 DEF TypeOK, CreatePipTransportConsume, roomVars, producerVars, pipeVars

LEMMA CloseProduceTypes ==
  ASSUME TypeOK, NEW s \in Side, ClosePipProduce(s)
  PROVE  TypeOK'
<1> DEFINE p == Head(mail[s]).producer
<1>1. mail' \in [Side -> Seq(Message)] /\ p \in Producer
  BY ReceiveTakesFirst, MessageTypes DEF ClosePipProduce
<1>2. /\ piped' \subseteq piped /\ heard' \subseteq heard /\ refused' \subseteq refused \cup {p}
      /\ UNCHANGED <<roomVars, producerVars, pipeCons, known, pair, guestHas, routeVars, scanVars,
                     batches, disturbed>>
  BY DEF ClosePipProduce
<1> HIDE DEF p
<1> QED BY <1>1, <1>2 DEF TypeOK, roomVars, producerVars, routeVars, scanVars

LEMMA PipedProduceTypes ==
  ASSUME TypeOK, NEW s \in Side, NEW b \in batches[s], NEW p \in b.todo, PipedProduce(s, b, p)
  PROVE  TypeOK'
<1> DEFINE c == [b EXCEPT !.todo = @ \ {p}]
           has == IF p \notin piped /\ OwnerOf[p] \in clients[s] THEN guestHas \cup {p} ELSE guestHas
<1>1. b \in Batch /\ c \in Batch /\ p \in Producer
  <2>1. b \in Batch
    BY DEF TypeOK
  <2>2. b.todo \subseteq Producer /\ b.todo \ {p} \in SUBSET Producer
    BY <2>1 DEF Batch
  <2> QED BY <2>1, <2>2 DEF Batch
<1>2. /\ piped' = piped \cup {p} /\ guestHas' = has
      /\ \/ batches' = [batches EXCEPT ![s] = @ \ {b}]
         \/ batches' = [batches EXCEPT ![s] = (@ \ {b}) \cup {c}]
      /\ heard' \subseteq heard \cup ConsumersAt(s, piped')
      /\ answered' \subseteq answered \cup {"send"}
      /\ UNCHANGED <<roomVars, producerVars, pipeCons, known, pair, phase, scanVars, mail, refused, disturbed>>
  BY DEF PipedProduce, ConsumersAt
<1> HIDE DEF c
<1>3. piped' \subseteq Producer /\ guestHas' \subseteq Producer /\ ConsumersAt(s, piped') \subseteq User \X Producer
  BY <1>1, <1>2 DEF TypeOK, ConsumersAt, Locals
<1>4. batches' \in [Side -> SUBSET Batch]
  <2>1. /\ batches \in [Side -> SUBSET Batch] /\ batches[s] \ {b} \in SUBSET Batch
        /\ (batches[s] \ {b}) \cup {c} \in SUBSET Batch
    BY <1>1 DEF TypeOK
  <2>2. CASE batches' = [batches EXCEPT ![s] = @ \ {b}]
    BY <2>1, <2>2, AtOneSide
  <2>3. CASE batches' = [batches EXCEPT ![s] = (@ \ {b}) \cup {c}]
    BY <2>1, <2>3, AtOneSide
  <2> QED BY <1>2, <2>2, <2>3
<1> HIDE DEF has
<1> QED BY <1>2, <1>3, <1>4 DEF TypeOK, roomVars, producerVars, scanVars

-----------------------------------------------------------------------------
(* Calls under way.                                                        *)

\* A call that is sent to EA s and is not createPipTransportConsume.
LEMMA SendKeepsMail ==
  ASSUME TypeOK, MailInv, NEW s \in Side, NEW m \in Message, Send(s, m), Carries(s, m)
  PROVE  /\ MailInv'
         /\ m.call # "ask" => \A i \in 1..Len(mail'["to"]) : Asked(i)' => i \in 1..Len(mail["to"]) /\ Asked(i)
<1>1. /\ \A t \in Side : t # s => mail'[t] = mail[t]
      /\ Len(mail'[s]) = Len(mail[s]) + 1 /\ Len(mail[s]) \in Nat
      /\ \A i \in 1..Len(mail[s]) : mail'[s][i] = mail[s][i]
      /\ mail'[s][Len(mail[s]) + 1] = m
  <2>1. mail[s] \in Seq(Message)
    BY DEF TypeOK
  <2> QED BY <2>1, SendAppends
<1>2. ASSUME NEW i \in 1..Len(mail'[s])
      PROVE  \/ i \in 1..Len(mail[s]) /\ mail'[s][i] = mail[s][i]
             \/ mail'[s][i] = m
  BY <1>1
<1>3. ASSUME NEW t \in Side, NEW i \in 1..Len(mail'[t])
      PROVE  Carries(t, mail'[t][i])
  <2>1. CASE t = s
    BY <1>2, <1>3, <2>1 DEF MailInv
  <2>2. CASE t # s
    BY <1>1, <1>3, <2>2 DEF MailInv
  <2> QED BY <2>1, <2>2
<1>4. ASSUME m.call # "ask", NEW i \in 1..Len(mail'["to"]), mail'["to"][i].call = "ask"
      PROVE  i \in 1..Len(mail["to"]) /\ mail["to"][i].call = "ask"
  BY <1>1, <1>2, <1>4 DEF Side
<1> QED BY <1>3, <1>4 DEF MailInv, Asked, Carries

LEMMA ReceiveKeepsMail ==
  ASSUME TypeOK, MailInv, NEW s \in Side, NEW call, Receive(s, call)
  PROVE  /\ MailInv'
         /\ Carries(s, mail[s][1]) /\ mail[s][1].call = call /\ 1 \in 1..Len(mail[s])
         /\ \/ \A i \in 1..Len(mail'["to"]) : Asked(i)' => i \in 1..Len(mail["to"]) /\ Asked(i)
            \/ \A i \in 1..Len(mail'["to"]) : Asked(i)' => i + 1 \in 1..Len(mail["to"]) /\ Asked(i + 1)
<1>1. /\ \A t \in Side : t # s => mail'[t] = mail[t]
      /\ Len(mail[s]) \in Nat /\ Len(mail[s]) >= 1
      /\ Len(mail'[s]) = Len(mail[s]) - 1
      /\ \A i \in 1..Len(mail'[s]) : mail'[s][i] = mail[s][i + 1]
      /\ mail[s][1].call = call
  BY ReceiveTakesFirst
<1>2. \A i \in 1..Len(mail'[s]) : i + 1 \in 1..Len(mail[s])
  BY <1>1
<1>3. ASSUME NEW t \in Side, NEW i \in 1..Len(mail'[t])
      PROVE  Carries(t, mail'[t][i])
  <2>1. CASE t = s
    BY <1>1, <1>2, <1>3, <2>1 DEF MailInv
  <2>2. CASE t # s
    BY <1>1, <1>3, <2>2 DEF MailInv
  <2> QED BY <2>1, <2>2
<1>4. 1 \in 1..Len(mail[s]) /\ Carries(s, mail[s][1])
  BY <1>1 DEF MailInv
<1>5. CASE s = "to"
  <2>1. \A i \in 1..Len(mail'["to"]) : Asked(i)' => i + 1 \in 1..Len(mail["to"]) /\ Asked(i + 1)
    BY <1>1, <1>2, <1>5 DEF Asked
  <2> QED BY <1>1, <1>3, <1>4, <2>1 DEF MailInv, Carries
<1>6. CASE s # "to"
  <2>1. mail'["to"] = mail["to"]
    BY <1>1, <1>6 DEF Side
  <2> QED BY <1>1, <1>3, <1>4, <2>1 DEF MailInv, Carries, Asked
<1> QED BY <1>5, <1>6

\* Steps that ask for nothing and answer nothing.
LEMMA AskKept ==
  ASSUME AskInv,
         \/ mail' = mail
         \/ \A i \in 1..Len(mail'["to"]) : Asked(i)' => i \in 1..Len(mail["to"]) /\ Asked(i)
         \/ \A i \in 1..Len(mail'["to"]) : Asked(i)' => i + 1 \in 1..Len(mail["to"]) /\ Asked(i + 1),
         phase' \in Early => phase \in Early, phase' = "done" => phase = "done",
         scan'["to"] = scan["to"], "ask" \in answered' <=> "ask" \in answered, reply' = reply
  PROVE  AskInv'
<1>1. \A i, j \in 1..Len(mail'["to"]) : Asked(i)' /\ Asked(j)' => i = j
  <2>1. CASE mail' = mail
    BY <2>1 DEF AskInv, Asked
  <2>2. CASE \A i \in 1..Len(mail'["to"]) : Asked(i)' => i \in 1..Len(mail["to"]) /\ Asked(i)
    BY <2>2 DEF AskInv
  <2>3. CASE \A i \in 1..Len(mail'["to"]) : Asked(i)' => i + 1 \in 1..Len(mail["to"]) /\ Asked(i + 1)
    <3> SUFFICES ASSUME NEW i \in 1..Len(mail'["to"]), NEW j \in 1..Len(mail'["to"]), Asked(i)', Asked(j)'
                 PROVE  i = j
      OBVIOUS
    <3>1. i + 1 = j + 1
      BY <2>3 DEF AskInv
    <3> QED BY <3>1
  <2> QED BY <2>1, <2>2, <2>3
<1>2. (\A i \in 1..Len(mail["to"]) : ~Asked(i)) => \A i \in 1..Len(mail'["to"]) : ~Asked(i)'
  BY DEF Asked
<1> QED BY <1>1, <1>2 DEF AskInv

\* Steps after which EA "from" waits for no loop it did not wait for before.
LEMMA LoopsKept ==
  ASSUME LoopInv, \A u \in User : Home[u] = "from" /\ cur'[u] # None => cur[u] # None,
         scan["from"] = "done" => scan'["from"] = "done", phase = "scan" => phase' = "scan"
  PROVE  LoopInv'
BY DEF LoopInv

\* Steps that make no batch.
LEMMA BatchesKept ==
  ASSUME BatchInv, reply' = reply, phase = "done" => phase' = "done",
         \A s \in Side : batches'[s] \subseteq batches[s]
  PROVE  BatchInv'
BY DEF BatchInv

\* Steps that bring no listener and no producer through the pipe.
LEMMA HeardKept ==
  ASSUME PipedHeard, \A s \in Side : Locals(s)' \subseteq Locals(s),
         guestHas' \cap piped' \subseteq guestHas \cap piped, heard \subseteq heard',
         \A s \in Side : batches[s] \subseteq batches'[s],
         reply.items \subseteq reply'.items
  PROVE  PipedHeard'
<1> SUFFICES ASSUME NEW s \in Side, NEW u \in Locals(s)', NEW p \in guestHas' \cap piped', HomeOf(p) # s,
                    <<u, p>> \notin heard', ~(s = "from" /\ p \in reply'.items)
             PROVE  Underway(s, p)'
  BY DEF PipedHeard, HomeOf
<1>1. Underway(s, p)
  BY DEF PipedHeard
<1> QED BY <1>1 DEF Underway

-----------------------------------------------------------------------------
(* Users and their producers.                                              *)

LEMMA EnterKeepsInv ==
  ASSUME PipeInv, NEW u \in User, Enter(u)
  PROVE  PipeInv'
<1>1. UNCHANGED <<guestHas, piped, phase, answered, scan, cur, reply, mail, batches>>
  BY DEF Enter, routeVars, scanVars
<1>2. /\ clients' = [clients EXCEPT ![Home[u]] = @ \cup {u}]
      /\ heard' = heard \cup ({u} \X {p \in guestHas \cap piped : HomeOf(p) # Home[u]})
      /\ clients \in [Side -> SUBSET User] /\ Home[u] \in Side
  BY SidesAndHomes DEF Enter, PipeInv, TypeOK
<1>3. AskInv' /\ LoopInv' /\ MailInv' /\ BatchInv'
  BY <1>1 DEF PipeInv, AskInv, LoopInv, MailInv, BatchInv, Asked
<1>4. PipedHeard'
  <2> SUFFICES ASSUME NEW s \in Side, NEW v \in Locals(s)', NEW p \in guestHas \cap piped, HomeOf(p) # s,
                      <<v, p>> \notin heard', ~(s = "from" /\ p \in reply.items)
               PROVE  Underway(s, p)
    BY <1>1 DEF PipedHeard, HomeOf, Underway
  <2>1. v # u
    BY <1>2 DEF Locals
  <2>2. v \in Locals(s)
    BY <1>2, <2>1 DEF Locals
  <2> QED BY <1>2, <2>2 DEF PipeInv, PipedHeard
<1> QED BY <1>3, <1>4, UserStepTypes DEF PipeInv

LEMMA ProducersKeepInv ==
  ASSUME PipeInv, NEW p \in Producer, Produce(p) \/ CloseProducer(p)
  PROVE  PipeInv'
<1>1. UNCHANGED <<clients, guestHas, piped, heard, phase, answered, scan, cur, reply, mail, batches>>
  BY DEF Produce, CloseProducer, roomVars, pipeVars, routeVars, scanVars
<1>2. AskInv' /\ LoopInv' /\ MailInv' /\ BatchInv'
  BY <1>1 DEF PipeInv, AskInv, LoopInv, MailInv, BatchInv, Asked
<1>3. PipedHeard'
  BY <1>1, HeardKept DEF PipeInv, Locals
<1> QED BY <1>2, <1>3, ProducerStepTypes DEF PipeInv

\* What an EA tells the other one of a single producer.
LEMMA TellingKeepsInv ==
  ASSUME PipeInv, (\E p \in Producer : FanOut(p)) \/ (\E c \in pipeCons : PipeConsumerClosed(c))
  PROVE  PipeInv'
<1>1. UNCHANGED <<clients, guestHas, piped, heard, phase, answered, scan, cur, reply, batches>>
  BY DEF FanOut, PipeConsumerClosed, roomVars, routeVars, scanVars
<1>2. TypeOK'
  BY FanOutTypes, ConsumerClosedTypes DEF PipeInv
<1>3. \E s \in Side, m \in Message : Send(s, m) /\ Carries(s, m) /\ m.call # "ask"
  <2>1. ASSUME NEW p \in Producer, FanOut(p)
        PROVE  \E s \in Side, m \in Message : Send(s, m) /\ Carries(s, m) /\ m.call # "ask"
    <3> DEFINE b == BatchOf(p, {OwnerOf[p]}, {p})
               m == [call |-> "produce", batch |-> b]
               s == Other(HomeOf(p))
    <3>1. s \in Side /\ Other(s) = HomeOf(p) /\ OwnerOf[p] \in User
      BY SidesAndHomes
    <3>2. b \in Batch /\ m \in Message
      BY <3>1, BatchTypes, MessageTypes
    <3>3. b.key = p /\ b.todo = {p} /\ b.items = {p} /\ b.peers = {OwnerOf[p]}
      BY DEF BatchOf
    <3>4. Send(s, m)
      BY <2>1 DEF FanOut
    <3>5. p # Reply
      BY KeyAssumption
    <3> QED BY <3>1, <3>2, <3>3, <3>4, <3>5 DEF Carries, FromPeers, HomeOf
  <2>2. ASSUME NEW c \in pipeCons, PipeConsumerClosed(c)
        PROVE  \E s \in Side, m \in Message : Send(s, m) /\ Carries(s, m) /\ m.call # "ask"
    <3>1. c[1] \in Producer
      BY DEF PipeInv, TypeOK
    <3>2. [call |-> "close", producer |-> c[1]] \in Message /\ Other(HomeOf(c[1])) \in Side
      BY <3>1, MessageTypes, SidesAndHomes
    <3> QED BY <2>2, <3>2 DEF PipeConsumerClosed, Carries
  <2> QED BY <2>1, <2>2
<1>4. MailInv' /\ AskInv'
  BY <1>1, <1>3, SendKeepsMail, AskKept DEF PipeInv
<1>5. LoopInv' /\ BatchInv'
  BY <1>1 DEF PipeInv, LoopInv, BatchInv
<1>6. PipedHeard'
  BY <1>1, HeardKept DEF PipeInv, Locals
<1> QED BY <1>2, <1>4, <1>5, <1>6 DEF PipeInv

\* deleteUser at EA s: only a client of s stops hearing, and only if it leaves.
LEMMA LeaveKeepsInv ==
  ASSUME PipeInv, NEW s \in Side, NEW u \in User, DeleteUser(s, u)
  PROVE  PipeInv'
<1>1. /\ UNCHANGED <<mail, answered, scan, reply>>
      /\ clients' = [clients EXCEPT ![s] = @ \ {u}]
      /\ clients \in [Side -> SUBSET User]
  BY DEF DeleteUser, PipeInv, TypeOK
<1>2. TypeOK'
  BY LeaveTypes DEF PipeInv
<1>3. CASE clients[s] \subseteq {u}
  <2>1. /\ guestHas' = guestHas \cap ProducersAt(s) /\ piped' = piped \cap ProducersAt(s)
        /\ heard' = {h \in heard : Home[h[1]] # s}
        /\ cur' = [v \in User |-> IF Home[v] = s THEN None ELSE cur[v]]
        /\ batches' = [batches EXCEPT ![s] = {}]
        /\ phase' = IF s = "from" /\ phase \in {"create", "connect", "scan"} THEN "dead" ELSE phase
        /\ batches \in [Side -> SUBSET Batch]
    BY <1>3 DEF DeleteUser, CloseRoom, PipeInv, TypeOK
  <2>2. /\ phase' \in Early => phase \in Early
        /\ phase' = "done" <=> phase = "done"
    BY <2>1 DEF Early
  <2>3. AskInv'
    BY <1>1, <2>2, AskKept DEF PipeInv
  <2>4. LoopInv'
    <3> SUFFICES ASSUME NEW v \in User, Home[v] = "from", cur'[v] # None
                 PROVE  scan'["from"] = "done" \/ phase' = "scan"
      BY DEF LoopInv
    <3>1. s # "from" /\ cur[v] # None
      BY <2>1
    <3> QED BY <1>1, <2>1, <3>1 DEF PipeInv, LoopInv
  <2>5. MailInv' /\ BatchInv'
    <3>1. MailInv'
      BY <1>1 DEF PipeInv, MailInv
    <3>2. \A t \in Side : batches'[t] \subseteq batches[t]
      BY <2>1
    <3> QED BY <1>1, <2>2, <3>1, <3>2, BatchesKept DEF PipeInv
  <2>6. PipedHeard'
    <3> SUFFICES ASSUME NEW t \in Side, NEW v \in Locals(t)', NEW p \in guestHas' \cap piped', HomeOf(p) # t,
                        <<v, p>> \notin heard', ~(t = "from" /\ p \in reply.items)
                 PROVE  Underway(t, p)'
      BY <1>1 DEF PipedHeard, HomeOf
    <3>1. t # s /\ v \in Locals(t) /\ Home[v] = t /\ p \in guestHas \cap piped
      BY <1>1, <1>3, <2>1 DEF Locals
    <3>2. <<v, p>> \notin heard
      BY <2>1, <3>1
    <3>3. Underway(t, p)
      BY <3>1, <3>2 DEF PipeInv, PipedHeard
    <3>4. batches'[t] = batches[t]
      BY <2>1, <3>1
    <3> QED BY <3>3, <3>4 DEF Underway
  <2> QED BY <1>2, <2>3, <2>4, <2>5, <2>6 DEF PipeInv
<1>4. CASE ~(clients[s] \subseteq {u})
  <2>1. /\ guestHas' \subseteq guestHas
        /\ heard' = IF Home[u] = s THEN {h \in heard : h[1] # u} ELSE heard
        /\ UNCHANGED <<piped, cur, batches, phase>>
    BY <1>4 DEF DeleteUser
  <2>2. AskInv' /\ LoopInv' /\ MailInv' /\ BatchInv'
    BY <1>1, <2>1 DEF PipeInv, AskInv, LoopInv, MailInv, BatchInv, Asked
  <2>3. PipedHeard'
    <3> SUFFICES ASSUME NEW t \in Side, NEW v \in Locals(t)', NEW p \in guestHas' \cap piped', HomeOf(p) # t,
                        <<v, p>> \notin heard', ~(t = "from" /\ p \in reply.items)
                 PROVE  Underway(t, p)'
      BY <1>1 DEF PipedHeard, HomeOf
    <3>1. v \in Locals(t) /\ Home[v] = t /\ (t = s => v # u) /\ p \in guestHas \cap piped
      BY <1>1, <2>1 DEF Locals
    <3>2. <<v, p>> \notin heard
      BY <2>1, <3>1
    <3> QED BY <2>1, <3>1, <3>2 DEF PipeInv, PipedHeard, Underway
  <2> QED BY <1>2, <2>2, <2>3 DEF PipeInv
<1> QED BY <1>3, <1>4

-----------------------------------------------------------------------------
(* handlePipRoute.                                                         *)

LEMMA CallsKeepInv ==
  ASSUME PipeInv, StartCascade \/ CreateAnswered \/ RouteDies
  PROVE  PipeInv'
<1>1. /\ UNCHANGED <<clients, guestHas, piped, heard, answered, scan, cur, reply, batches>>
      /\ phase \in {"idle", "create", "ask"} /\ phase' \in {"create", "connect", "dead"}
      /\ phase' \in Early => phase \in Early
  BY DEF StartCascade, CreateAnswered, RouteDies, roomVars, pipeVars, scanVars, Early
<1>2. TypeOK'
  BY RouteTypes DEF PipeInv
<1>3. \/ mail' = mail
      \/ \E m \in Message : Send("to", m) /\ Carries("to", m) /\ m.call # "ask"
  <2>1. ASSUME NEW c \in {"create", "connect"}, Send("to", [call |-> c])
        PROVE  \E m \in Message : Send("to", m) /\ Carries("to", m) /\ m.call # "ask"
    <3>1. [call |-> c] \in Message
      BY MessageTypes
    <3> QED BY <2>1, <3>1 DEF Carries
  <2> QED BY <2>1 DEF StartCascade, CreateAnswered, RouteDies
<1>4. MailInv' /\ AskInv'
  <2>1. CASE mail' = mail
    BY <1>1, <2>1, AskKept DEF PipeInv, MailInv
  <2>2. ASSUME NEW m \in Message, Send("to", m), Carries("to", m), m.call # "ask"
        PROVE  MailInv' /\ AskInv'
    <3>1. /\ MailInv'
          /\ \A i \in 1..Len(mail'["to"]) : Asked(i)' => i \in 1..Len(mail["to"]) /\ Asked(i)
      BY <2>2, SendKeepsMail DEF PipeInv, Side
    <3> QED BY <1>1, <3>1, AskKept DEF PipeInv
  <2> QED BY <1>3, <2>1, <2>2
<1>5. LoopInv' /\ BatchInv'
  BY <1>1, LoopsKept, BatchesKept DEF PipeInv
<1>6. PipedHeard'
  BY <1>1, HeardKept DEF PipeInv, Locals
<1> QED BY <1>2, <1>4, <1>5, <1>6 DEF PipeInv

LEMMA ConnectEndsKeepsInv ==
  ASSUME PipeInv, ConnectEnds
  PROVE  PipeInv'
<1>1. /\ UNCHANGED <<clients, guestHas, piped, heard, answered, reply, mail, batches>>
      /\ phase = "connect" /\ phase' = "scan"
      /\ scan' = [scan EXCEPT !["from"] = "running"]
  BY DEF ConnectEnds, roomVars
<1>2. scan'["to"] = scan["to"]
  BY <1>1 DEF PipeInv, TypeOK
<1>3. AskInv' /\ LoopInv' /\ MailInv' /\ BatchInv'
  <2>1. AskInv'
    BY <1>1, <1>2, AskKept DEF PipeInv, Early
  <2>2. LoopInv'
    BY <1>1 DEF LoopInv
  <2>3. MailInv' /\ BatchInv'
    BY <1>1, BatchesKept DEF PipeInv, MailInv
  <2> QED BY <2>1, <2>2, <2>3
<1>4. PipedHeard'
  BY <1>1, HeardKept DEF PipeInv, Locals
<1> QED BY <1>3, <1>4, ConnectEndsTypes DEF PipeInv

\* createPipTransportConsume is called, for the first and only time.
LEMMA SendEndsKeepsInv ==
  ASSUME PipeInv, SendEnds
  PROVE  PipeInv'
<1>1. /\ UNCHANGED <<clients, guestHas, piped, heard, answered, scan, cur, reply, batches>>
      /\ phase = "send" /\ phase' = "ask" /\ Send("to", [call |-> "ask"])
  BY DEF SendEnds, roomVars, pipeVars, scanVars
<1>2. TypeOK'
  BY RouteTypes DEF PipeInv
<1>3. [call |-> "ask"] \in Message /\ Carries("to", [call |-> "ask"]) /\ "to" \in Side
  BY MessageTypes DEF Carries, Side
<1>4. MailInv'
  BY <1>1, <1>3, SendKeepsMail DEF PipeInv
<1>5. AskInv'
  <2>1. /\ \A i \in 1..Len(mail["to"]) : ~Asked(i)
        /\ scan["to"] = "idle" /\ "ask" \notin answered
        /\ reply = [peers |-> {}, items |-> {}]
    BY <1>1 DEF PipeInv, AskInv, Early
  <2>2. /\ Len(mail'["to"]) = Len(mail["to"]) + 1 /\ Len(mail["to"]) \in Nat
        /\ \A i \in 1..Len(mail["to"]) : mail'["to"][i] = mail["to"][i]
    <3>1. mail["to"] \in Seq(Message)
      BY <1>3 DEF PipeInv, TypeOK
    <3> QED BY <1>1, <1>3, <3>1, SendAppends DEF PipeInv
  <2>3. \A i \in 1..Len(mail'["to"]) : Asked(i)' => i = Len(mail["to"]) + 1
    BY <2>1, <2>2 DEF Asked
  <2> QED BY <1>1, <2>1, <2>3 DEF AskInv, Early
<1>6. LoopInv' /\ BatchInv'
  BY <1>1, LoopsKept, BatchesKept DEF PipeInv
<1>7. PipedHeard'
  BY <1>1, HeardKept DEF PipeInv, Locals
<1> QED BY <1>2, <1>4, <1>5, <1>6, <1>7 DEF PipeInv

\* Its answer: guests, and a batch whose producers nobody will hear.
LEMMA AskAnsweredKeepsInv ==
  ASSUME PipeInv, AskAnswered
  PROVE  PipeInv'
<1>1. /\ UNCHANGED <<guestHas, piped, answered, scan, cur, reply, mail>>
      /\ phase = "ask" /\ phase' = "done" /\ "ask" \in answered
  BY DEF AskAnswered, scanVars
<1>2. /\ clients \in [Side -> SUBSET User] /\ batches \in [Side -> SUBSET Batch] /\ "from" \in Side
      /\ \A u \in reply.peers : Home[u] = "to"
  BY DEF PipeInv, TypeOK, Side, BatchInv, FromPeers
<1>3. \/ /\ clients' = [clients EXCEPT !["from"] = @ \cup reply.peers]
         /\ heard \subseteq heard'
         /\ batches' = [batches EXCEPT !["from"] = @ \cup {BatchOf(Reply, reply.peers, reply.items)}]
      \/ UNCHANGED <<clients, heard, batches>>
  BY DEF AskAnswered
<1>4. TypeOK'
  BY AskAnsweredTypes DEF PipeInv
<1>5. AskInv' /\ LoopInv' /\ MailInv'
  BY <1>1 DEF PipeInv, AskInv, LoopInv, MailInv, Asked, Early
<1>6. /\ heard \subseteq heard'
      /\ \A s \in Side : batches[s] \subseteq batches'[s]
      /\ \A s \in Side : \A b \in batches'[s] :
           b \in batches[s] \/ (s = "from" /\ b = BatchOf(Reply, reply.peers, reply.items))
      /\ \A s \in Side : Locals(s)' \subseteq Locals(s)
  <2>1. CASE UNCHANGED <<clients, heard, batches>>
    BY <2>1 DEF Locals
  <2>2. CASE /\ clients' = [clients EXCEPT !["from"] = @ \cup reply.peers]
             /\ heard \subseteq heard'
             /\ batches' = [batches EXCEPT !["from"] = @ \cup {BatchOf(Reply, reply.peers, reply.items)}]
    BY <1>2, <2>2 DEF Locals
  <2> QED BY <1>3, <2>1, <2>2
<1>7. BatchInv'
  <2> SUFFICES ASSUME NEW s \in Side, NEW b \in batches'[s]
               PROVE  /\ b.todo \subseteq b.items
                      /\ FromPeers(Other(s), b.peers, b.items)
                      /\ b.key = Reply => s = "from" /\ phase' = "done" /\ b.items = reply.items
    BY <1>1 DEF PipeInv, BatchInv
  <2>1. CASE b \in batches[s]
    BY <1>1, <2>1 DEF PipeInv, BatchInv
  <2>2. CASE s = "from" /\ b = BatchOf(Reply, reply.peers, reply.items)
    <3>1. b.todo = reply.items /\ b.items = reply.items /\ b.peers = reply.peers /\ Other(s) = "to"
      BY <2>2 DEF BatchOf, Other
    <3> QED BY <1>1, <2>2, <3>1 DEF PipeInv, BatchInv
  <2> QED BY <1>6, <2>1, <2>2
<1>8. PipedHeard'
  BY <1>1, <1>6, HeardKept DEF PipeInv
<1> QED BY <1>4, <1>5, <1>7, <1>8 DEF PipeInv

\* A loop goes on, and may be the last one to resolve the promise.
LEMMA LoopStepKeepsInv ==
  ASSUME PipeInv, NEW u \in User, LoopStep(u)
  PROVE  PipeInv'
<1> DEFINE s == Home[u]
           p == cur[u][1]
           made == IF cur[u][2] THEN taken \cup {p} ELSE taken
           tally == IF LoopComplete(u, seen \cup {p}) THEN counted[s] \cup {u} ELSE counted[s]
           peers == {v \in tally : Home[v] = s}
           items == {q \in made : OwnerOf[q] \in peers}
<1>1. /\ cur[u] # None
      /\ \A v \in User : v # u => cur'[v] = cur[v]
      /\ \/ scan[s] = "running" /\ Resolved(s, peers, items)
         \/ UNCHANGED <<scan, mail, phase, reply, answered>>
      /\ UNCHANGED <<clients, guestHas, piped, heard, batches>>
  BY DEF LoopStep, PipeInv, TypeOK, roomVars
<1>2. s \in Side /\ FromPeers(s, peers, items)
  BY SidesAndHomes DEF FromPeers
<1>3. peers \subseteq User /\ items \subseteq Producer
  <2>1. p \in Producer
    <3>1. cur[u] \in {None} \cup Producer \X BOOLEAN
      BY DEF PipeInv, TypeOK
    <3> QED BY <1>1, <3>1
  <2>2. tally \subseteq User
    BY <1>2 DEF PipeInv, TypeOK
  <2> QED BY <2>1, <2>2 DEF PipeInv, TypeOK
<1> HIDE DEF p, made, tally, peers, items
<1>4. TypeOK'
  BY LoopStepTypes DEF PipeInv
<1>5. CASE UNCHANGED <<scan, mail, phase, reply, answered>>
  <2>1. AskInv' /\ MailInv' /\ BatchInv'
    BY <1>1, <1>5 DEF PipeInv, AskInv, MailInv, BatchInv, Asked
  <2>2. LoopInv'
    BY <1>1, <1>5, LoopsKept DEF PipeInv
  <2>3. PipedHeard'
    BY <1>1, <1>5, HeardKept DEF PipeInv, Locals
  <2> QED BY <1>4, <2>1, <2>2, <2>3 DEF PipeInv
<1>6. CASE s = "from" /\ scan[s] = "running" /\ Resolved(s, peers, items)
  <2> DEFINE b == BatchOf(Snapshot, peers, items)
  <2>1. /\ scan' = [scan EXCEPT !["from"] = "done"] /\ scan \in [Side -> {"idle", "running", "done"}]
        /\ Send("to", [call |-> "produce", batch |-> b])
        /\ phase' = "send" /\ UNCHANGED <<reply, answered>>
    BY <1>6 DEF Resolved, PipeInv, TypeOK
  <2>2. phase = "scan"
    BY <1>1, <1>6 DEF PipeInv, LoopInv
  <2>3. [call |-> "produce", batch |-> b] \in Message
    BY <1>3, BatchTypes, MessageTypes
  <2>4. b.key = Snapshot /\ b.todo = items /\ b.items = items /\ b.peers = peers
    BY DEF BatchOf
  <2>5. Carries("to", [call |-> "produce", batch |-> b])
    BY <1>2, <1>6, <2>4 DEF Carries, Other, Snapshot, Reply
  <2> HIDE DEF b
  <2>6. /\ MailInv'
        /\ \A i \in 1..Len(mail'["to"]) : Asked(i)' => i \in 1..Len(mail["to"]) /\ Asked(i)
    BY <2>1, <2>3, <2>5, SendKeepsMail DEF PipeInv, Side
  <2>7. scan'["to"] = scan["to"] /\ scan'["from"] = "done"
    BY <2>1 DEF Side
  <2>8. AskInv'
    BY <2>1, <2>2, <2>6, <2>7, AskKept DEF PipeInv, Early
  <2>9. LoopInv' /\ BatchInv'
    BY <1>1, <2>1, <2>2, <2>7, BatchesKept DEF PipeInv, LoopInv
  <2>10. PipedHeard'
    BY <1>1, <2>1, HeardKept DEF PipeInv, Locals
  <2> QED BY <1>4, <2>6, <2>8, <2>9, <2>10 DEF PipeInv
<1>7. CASE s = "to" /\ scan[s] = "running" /\ Resolved(s, peers, items)
  <2>1. /\ scan' = [scan EXCEPT !["to"] = "done"] /\ scan \in [Side -> {"idle", "running", "done"}]
        /\ reply' = [peers |-> peers, items |-> items]
        /\ answered' = answered \cup {"ask"}
        /\ UNCHANGED <<mail, phase>>
    BY <1>7 DEF Resolved, PipeInv, TypeOK
  <2>2. scan'["to"] = "done" /\ scan'["from"] = scan["from"]
    BY <2>1 DEF Side
  <2>3. phase \notin Early /\ phase # "done" /\ \A i \in 1..Len(mail["to"]) : ~Asked(i)
    BY <1>7 DEF PipeInv, AskInv
  <2>4. reply.items = {}
    BY <1>7 DEF PipeInv, AskInv
  <2>5. AskInv'
    BY <2>1, <2>2, <2>3 DEF AskInv, Asked
  <2>6. LoopInv'
    <3>1. \A v \in User : Home[v] = "from" /\ cur'[v] # None => cur[v] # None
      BY <1>1
    <3> QED BY <2>1, <2>2, <3>1, LoopsKept DEF PipeInv
  <2>7. MailInv'
    BY <2>1 DEF PipeInv, MailInv
  <2>8. BatchInv'
    BY <1>1, <1>2, <1>7, <2>1, <2>3 DEF PipeInv, BatchInv
  <2>9. PipedHeard'
    BY <1>1, <2>4, HeardKept DEF PipeInv, Locals
  <2> QED BY <1>4, <2>5, <2>6, <2>7, <2>8, <2>9 DEF PipeInv
<1> QED BY <1>1, <1>2, <1>5, <1>6, <1>7 DEF Side
-----------------------------------------------------------------------------
(* The handlers of the calls.                                              *)

LEMMA TransportsKeepInv ==
  ASSUME PipeInv, CreatePipTransport \/ ConnectPipTransport
  PROVE  PipeInv'
<1>1. /\ UNCHANGED <<clients, guestHas, piped, heard, phase, scan, cur, reply, batches>>
      /\ \E call : Receive("to", call)
      /\ "ask" \in answered' <=> "ask" \in answered
  BY DEF CreatePipTransport, ConnectPipTransport, roomVars, scanVars
<1>2. TypeOK'
  BY CreateConnectTypes DEF PipeInv
<1>3. MailInv' /\ AskInv'
  BY <1>1, ReceiveKeepsMail, AskKept DEF PipeInv, Side
<1>4. LoopInv' /\ BatchInv'
  BY <1>1, LoopsKept, BatchesKept DEF PipeInv
<1>5. PipedHeard'
  BY <1>1, HeardKept DEF PipeInv, Locals
<1> QED BY <1>2, <1>3, <1>4, <1>5 DEF PipeInv

\* A batch that arrives at EA s is of clients of the other one.
LEMMA CreateProduceKeepsInv ==
  ASSUME PipeInv, NEW s \in Side, CreatePipTransportProduce(s)
  PROVE  PipeInv'
<1> DEFINE b == Head(mail[s]).batch
<1>1. /\ UNCHANGED <<guestHas, piped, heard, phase, scan, cur, reply>>
      /\ Receive(s, "produce")
      /\ "ask" \in answered' <=> "ask" \in answered
      /\ \/ /\ clients' = [clients EXCEPT ![s] = @ \cup b.peers]
            /\ batches' = [batches EXCEPT ![s] = @ \cup {b}]
         \/ UNCHANGED <<clients, batches>>
  BY DEF CreatePipTransportProduce, pipeVars, scanVars
<1>2. /\ clients \in [Side -> SUBSET User] /\ batches \in [Side -> SUBSET Batch]
      /\ Head(mail[s]) = mail[s][1]
  BY <1>1, ReceiveTakesFirst DEF PipeInv, TypeOK
<1>3. MailInv' /\ AskInv' /\ Carries(s, mail[s][1]) /\ mail[s][1].call = "produce"
  BY <1>1, ReceiveKeepsMail, AskKept DEF PipeInv
<1>4. b.key # Reply /\ b.todo \subseteq b.items /\ FromPeers(Other(s), b.peers, b.items)
  BY <1>2, <1>3 DEF Carries
<1> HIDE DEF b
<1>5. TypeOK'
  BY CreateProduceTypes DEF PipeInv
<1>6. /\ \A t \in Side : batches[t] \subseteq batches'[t]
      /\ \A t \in Side : \A c \in batches'[t] : c \in batches[t] \/ (t = s /\ c = b)
      /\ \A t \in Side : Locals(t)' \subseteq Locals(t)
  <2>1. CASE UNCHANGED <<clients, batches>>
    BY <2>1 DEF Locals
  <2>2. CASE /\ clients' = [clients EXCEPT ![s] = @ \cup b.peers]
             /\ batches' = [batches EXCEPT ![s] = @ \cup {b}]
    <3>1. \A u \in b.peers : Home[u] # s
      BY <1>4, SidesAndHomes DEF FromPeers
    <3> QED BY <1>2, <2>2, <3>1 DEF Locals
  <2> QED BY <1>1, <2>1, <2>2
<1>7. BatchInv'
  <2> SUFFICES ASSUME NEW t \in Side, NEW c \in batches'[t]
               PROVE  /\ c.todo \subseteq c.items
                      /\ FromPeers(Other(t), c.peers, c.items)
                      /\ c.key = Reply => t = "from" /\ phase' = "done" /\ c.items = reply.items
    BY <1>1 DEF PipeInv, BatchInv
  <2>1. CASE c \in batches[t]
    BY <1>1, <2>1 DEF PipeInv, BatchInv
  <2>2. CASE t = s /\ c = b
    BY <1>4, <2>2
  <2> QED BY <1>6, <2>1, <2>2
<1>8. LoopInv' /\ PipedHeard'
  BY <1>1, <1>6, LoopsKept, HeardKept DEF PipeInv
<1> QED BY <1>3, <1>5, <1>7, <1>8 DEF PipeInv

\* The only call of createPipTransportConsume: its loops had not run.
LEMMA CreateConsumeKeepsInv ==
  ASSUME PipeInv, CreatePipTransportConsume
  PROVE  PipeInv'
<1>1. /\ UNCHANGED <<clients, guestHas, piped, heard, phase, reply, batches>>
      /\ Receive("to", "ask") /\ "to" \in Side
      /\ \/ UNCHANGED <<scan, cur, answered>>
         \/ StartLoops("to") /\ scan' = [scan EXCEPT !["to"] = "running"] /\ answered' = answered
         \/ StartLoops("to") /\ scan' = [scan EXCEPT !["to"] = "done"] /\ answered' = answered \cup {"ask"}
  BY DEF CreatePipTransportConsume, roomVars, pipeVars, Side
<1>2. TypeOK' /\ MailInv'
  BY <1>1, CreateConsumeTypes, ReceiveKeepsMail DEF PipeInv
<1>3. /\ Asked(1) /\ 1 \in 1..Len(mail["to"])
      /\ \A i \in 1..Len(mail'["to"]) : ~Asked(i)'
  <2>1. /\ Len(mail["to"]) \in Nat /\ Len(mail["to"]) >= 1
        /\ Len(mail'["to"]) = Len(mail["to"]) - 1
        /\ \A i \in 1..Len(mail'["to"]) : mail'["to"][i] = mail["to"][i + 1]
        /\ mail["to"][1].call = "ask"
    BY <1>1, ReceiveTakesFirst DEF PipeInv
  <2>2. Asked(1) /\ 1 \in 1..Len(mail["to"])
    BY <2>1 DEF Asked
  <2>3. ASSUME NEW i \in 1..Len(mail'["to"]), Asked(i)' PROVE FALSE
    <3>1. i + 1 \in 1..Len(mail["to"]) /\ Asked(i + 1)
      BY <2>1, <2>3 DEF Asked
    <3>2. i + 1 = 1
      BY <2>2, <3>1 DEF PipeInv, AskInv
    <3> QED BY <3>2
  <2> QED BY <2>2, <2>3
<1>4. /\ phase \notin Early /\ phase # "done" /\ "ask" \notin answered
      /\ reply = [peers |-> {}, items |-> {}]
  BY <1>3 DEF PipeInv, AskInv
<1>5. /\ scan'["from"] = scan["from"]
      /\ "ask" \in answered' => scan'["to"] = "done"
      /\ \A u \in User : Home[u] = "from" /\ cur'[u] # None => cur[u] # None
  <2>1. scan \in [Side -> {"idle", "running", "done"}] /\ "from" \in Side
    BY DEF PipeInv, TypeOK, Side
  <2>2. ASSUME StartLoops("to"), NEW u \in User, Home[u] = "from", cur'[u] # None
        PROVE  cur[u] # None
    BY <2>2 DEF StartLoops, Locals
  <2> QED BY <1>1, <1>4, <2>1, <2>2
<1>6. AskInv' /\ LoopInv'
  BY <1>1, <1>3, <1>4, <1>5, LoopsKept DEF PipeInv, AskInv
<1>7. BatchInv' /\ PipedHeard'
  BY <1>1, BatchesKept, HeardKept DEF PipeInv, Locals
<1> QED BY <1>2, <1>6, <1>7 DEF PipeInv

\* closePipProduce: nobody is to hear a producer that is gone.
LEMMA CloseProduceKeepsInv ==
  ASSUME PipeInv, NEW s \in Side, ClosePipProduce(s)
  PROVE  PipeInv'
<1> DEFINE p == Head(mail[s]).producer
<1>1. /\ UNCHANGED <<clients, guestHas, phase, answered, scan, cur, reply, batches>>
      /\ Receive(s, "close")
      /\ \/ piped' = piped \ {p} /\ heard' = {h \in heard : h[2] # p}
         \/ UNCHANGED <<piped, heard>>
  BY DEF ClosePipProduce, roomVars, routeVars, scanVars
<1> HIDE DEF p
<1>2. TypeOK'
  BY CloseProduceTypes DEF PipeInv
<1>3. MailInv' /\ AskInv'
  BY <1>1, ReceiveKeepsMail, AskKept DEF PipeInv
<1>4. LoopInv' /\ BatchInv'
  BY <1>1, LoopsKept, BatchesKept DEF PipeInv
<1>5. PipedHeard'
  <2>1. CASE UNCHANGED <<piped, heard>>
    BY <1>1, <2>1, HeardKept DEF PipeInv, Locals
  <2>2. CASE piped' = piped \ {p} /\ heard' = {h \in heard : h[2] # p}
    <3> SUFFICES ASSUME NEW t \in Side, NEW v \in Locals(t), NEW q \in guestHas \cap piped', HomeOf(q) # t,
                        <<v, q>> \notin heard', ~(t = "from" /\ q \in reply.items)
                 PROVE  Underway(t, q)
      BY <1>1 DEF PipedHeard, HomeOf, Locals, Underway
    <3>1. q \in piped /\ <<v, q>> \notin heard
      BY <2>2
    <3> QED BY <3>1 DEF PipeInv, PipedHeard
  <2> QED BY <1>1, <2>1, <2>2
<1> QED BY <1>2, <1>3, <1>4, <1>5 DEF PipeInv

\* The answer to produce: whoever is in the room is made a consumer of the
\* producer now, or when the batch is through, or it came with the reply.
LEMMA PipedProduceKeepsInv ==
  ASSUME PipeInv, NEW s \in Side, NEW b \in batches[s], NEW p \in b.todo, PipedProduce(s, b, p)
  PROVE  PipeInv'
<1> DEFINE c == [b EXCEPT !.todo = @ \ {p}]
           has == IF p \notin piped /\ OwnerOf[p] \in clients[s] THEN guestHas \cup {p} ELSE guestHas
           new == ConsumersAt(s, OfPeers(b, has) \cap piped')
<1>1. /\ UNCHANGED <<clients, phase, scan, cur, reply, mail>>
      /\ piped' = piped \cup {p} /\ guestHas' = has /\ has \subseteq guestHas \cup {p}
      /\ "ask" \in answered' <=> "ask" \in answered
      /\ heard \subseteq heard'
      /\ \/ batches' = [batches EXCEPT ![s] = @ \ {b}] /\ (b.key # Reply => new \subseteq heard')
         \/ batches' = [batches EXCEPT ![s] = (@ \ {b}) \cup {c}]
  BY DEF PipedProduce, roomVars, scanVars
<1>2. /\ b \in Batch /\ p \in Producer
      /\ b.todo \subseteq b.items
      /\ FromPeers(Other(s), b.peers, b.items)
      /\ b.key = Reply => s = "from" /\ phase = "done" /\ b.items = reply.items
  <2>1. b \in Batch
    BY DEF PipeInv, TypeOK
  <2> QED BY <2>1 DEF PipeInv, BatchInv, Batch
<1>3. c.key = b.key /\ c.peers = b.peers /\ c.items = b.items /\ c.todo = b.todo \ {p}
  BY <1>2 DEF Batch
<1>4. p \in b.items /\ OwnerOf[p] \in b.peers /\ HomeOf(p) = Other(s)
  BY <1>2 DEF FromPeers, HomeOf
<1>5. \A u \in Locals(s), q \in OfPeers(b, has) \cap piped' : <<u, q>> \in new
  BY DEF ConsumersAt
<1>6. /\ b.items \subseteq OfPeers(b, has)
      /\ \A q \in guestHas' : OwnerOf[q] \in b.peers => q \in OfPeers(b, has)
  BY <1>1 DEF OfPeers
<1> HIDE DEF c, has, new
<1>7. /\ \A t \in Side : t # s => batches'[t] = batches[t]
      /\ batches[s] \ {b} \subseteq batches'[s]
      /\ batches'[s] \subseteq batches[s] \cup {c}
      /\ c \in batches'[s] \/ (b.key # Reply => new \subseteq heard')
  <2>1. batches \in [Side -> SUBSET Batch]
    BY DEF PipeInv, TypeOK
  <2> QED BY <1>1, <2>1
<1>8. TypeOK'
  BY PipedProduceTypes DEF PipeInv
<1>9. AskInv' /\ LoopInv' /\ MailInv'
  BY <1>1, AskKept, LoopsKept DEF PipeInv, MailInv
<1>10. BatchInv'
  <2> SUFFICES ASSUME NEW t \in Side, NEW d \in batches'[t]
               PROVE  /\ d.todo \subseteq d.items
                      /\ FromPeers(Other(t), d.peers, d.items)
                      /\ d.key = Reply => t = "from" /\ phase' = "done" /\ d.items = reply.items
    BY <1>1 DEF PipeInv, BatchInv
  <2>1. CASE d \in batches[t]
    BY <1>1, <2>1 DEF PipeInv, BatchInv
  <2>2. CASE t = s /\ d = c
    BY <1>1, <1>2, <1>3, <2>2
  <2> QED BY <1>7, <2>1, <2>2
<1>11. PipedHeard'
  <2> SUFFICES ASSUME NEW t \in Side, NEW v \in Locals(t), NEW q \in guestHas' \cap piped', HomeOf(q) # t,
                      <<v, q>> \notin heard', ~(t = "from" /\ q \in reply.items)
               PROVE  Underway(t, q)'
    BY <1>1 DEF PipedHeard, HomeOf, Locals
  <2>1. q \in Producer /\ (q = p \/ q \in guestHas \cap piped) /\ <<v, q>> \notin heard
    BY <1>1, <1>8 DEF TypeOK
  <2>2. q # p => Underway(t, q)
    BY <2>1 DEF PipeInv, PipedHeard
  <2>3. CASE t # s
    <3>1. q # p
      BY <1>4, <2>1, <2>3, SidesAndHomes
    <3> QED BY <1>7, <2>2, <2>3, <3>1 DEF Underway
  <2>4. CASE t = s /\ b.key # Reply /\ OwnerOf[q] \in b.peers
    <3>1. q \in OfPeers(b, has)
      BY <1>6, <2>4
    <3>2. <<v, q>> \in new
      BY <1>5, <2>4, <3>1
    <3>3. c \in batches'[s]
      BY <1>7, <2>4, <3>2
    <3> QED BY <1>3, <2>4, <3>3 DEF Underway
  <2>5. CASE t = s /\ ~(b.key # Reply /\ OwnerOf[q] \in b.peers)
    <3>1. q # p
      BY <1>2, <1>4, <2>5
    <3>2. PICK d \in batches[s] : OwnerOf[q] \in d.peers /\ d.key # Reply
      BY <2>2, <2>5, <3>1 DEF Underway
    <3>3. d \in batches'[s]
      BY <1>7, <2>5, <3>2
    <3> QED BY <2>5, <3>2, <3>3 DEF Underway
  <2> QED BY <2>3, <2>4, <2>5
<1> QED BY <1>8, <1>9, <1>10, <1>11 DEF PipeInv

-----------------------------------------------------------------------------
(* The theorems.                                                           *)

LEMMA InitEstablishesInv == Init => PipeInv
<1> SUFFICES ASSUME Init PROVE PipeInv
  OBVIOUS
<1>1. \A s \in Side : mail[s] = <<>> /\ Len(mail[s]) = 0 /\ clients[s] = {} /\ batches[s] = {}
  BY DEF Init
<1>2. TypeOK
  <2>1. <<>> \in Seq(Message)
    OBVIOUS
  <2> QED BY <2>1 DEF Init, TypeOK
<1>3. AskInv /\ LoopInv
  BY <1>1 DEF Init, AskInv, LoopInv, Early, Side
<1>4. MailInv /\ BatchInv
  BY <1>1 DEF Init, MailInv, BatchInv, FromPeers
<1>5. PipedHeard
  BY DEF Init, PipedHeard
<1> QED BY <1>2, <1>3, <1>4, <1>5 DEF PipeInv

LEMMA NextKeepsInv == PipeInv /\ [Next]_vars => PipeInv'
<1> SUFFICES ASSUME PipeInv, [Next]_vars PROVE PipeInv'
  OBVIOUS
<1>1. CASE UNCHANGED vars
  <2>1. TypeOK'
    BY <1>1 DEF PipeInv, TypeOK, vars, roomVars, producerVars, pipeVars, routeVars, scanVars
  <2>2. UNCHANGED <<clients, guestHas, piped, heard, phase, answered, scan, cur, reply, mail, batches>>
    BY <1>1 DEF vars, roomVars, pipeVars, routeVars, scanVars
  <2>3. AskInv' /\ LoopInv' /\ MailInv' /\ BatchInv'
    BY <2>2 DEF PipeInv, AskInv, LoopInv, MailInv, BatchInv, Asked
  <2>4. PipedHeard'
    BY <2>2, HeardKept DEF PipeInv, Locals
  <2> QED BY <2>1, <2>3, <2>4 DEF PipeInv
<1>2. CASE EaStep
  <2>1. ASSUME NEW s \in Side, Deliver(s) PROVE PipeInv'
    BY <2>1, TransportsKeepInv, CreateProduceKeepsInv, CreateConsumeKeepsInv, CloseProduceKeepsInv DEF Deliver
  <2> QED BY <1>2, <2>1, PipedProduceKeepsInv, LoopStepKeepsInv, TellingKeepsInv DEF EaStep
<1>3. CASE RouteStep \/ StartCascade
  BY <1>3, CallsKeepInv, ConnectEndsKeepsInv, SendEndsKeepsInv, AskAnsweredKeepsInv DEF RouteStep
<1>4. CASE (\E u \in User : Enter(u)) \/ (\E p \in Producer : Produce(p) \/ CloseProducer(p))
  BY <1>4, EnterKeepsInv, ProducersKeepInv
<1>5. CASE \E u \in Leaver, s \in Side : DeleteUser(s, u)
  BY <1>5, LeaveKeepsInv, LeaverAssumption
<1> QED BY <1>1, <1>2, <1>3, <1>4, <1>5 DEF Next

\* What the two EAs keep of the pipe goes together, whatever calls overlap
\* (handlePipRoute and the handlers it calls).
THEOREM PipeInvariance == Spec => []PipeInv
BY InitEstablishesInv, NextKeepsInv, PTL DEF Spec

\* The variables of the cascade keep to their types (room.js, client.js).
THEOREM TypeCorrect == Spec => []TypeOK
<1>1. PipeInv => TypeOK
  BY DEF PipeInv
<1> QED BY <1>1, PipeInvariance, PTL

\* Whoever is in a room hears what is piped there, but for the batches that
\* have not made their consumers and the producers that came with the answer
\* of createPipTransportConsume (join, createPipTransportProduce and
\* handlePipRoute).
THEOREM PipedIsHeard == Spec => []PipedHeard
<1>1. PipeInv => PipedHeard
  BY DEF PipeInv
<1> QED BY <1>1, PipeInvariance, PTL
=============================================================================
