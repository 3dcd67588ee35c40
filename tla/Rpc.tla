--------------------------------- MODULE Rpc ---------------------------------
(***************************************************************************)
(* Remote calls over RabbitMQ.  Two layers are in use: amqper.js (ECs and  *)
(* EAs) and nuve's rpc.js.  Both keep a table of outstanding calls by      *)
(* correlation id with a timer for each, and differ in what they do with   *)
(* the table when a reply comes or a timer fires.                          *)
(*                                                                         *)
(* A call goes to one server, a broadcast to all of them; a server whose   *)
(* queue is gone, or whose handler throws, answers nothing.  Correlation   *)
(* ids are counted per caller and never reused.                            *)
(*                                                                         *)
(* A callback of an EC throws when it passes the result on to a browser    *)
(* whose request carried no acknowledgement function; nuve's callbacks     *)
(* are assumed not to throw.                                               *)
(***************************************************************************)
EXTENDS Integers, FiniteSets

CONSTANTS
  Caller,    \* processes that call
  Nuve,      \* those among them that use nuve's rpc.js
  Server,    \* processes that are called
  MaxCalls   \* bound: calls that all callers make

ASSUME CallerAssumption == Nuve \subseteq Caller
ASSUME MaxCallsAssumption == MaxCalls \in Nat

Id == 1..MaxCalls
Amqper == Caller \ Nuve

VARIABLES
  corrID,    \* the correlation id given out last
  ackless,   \* ids whose callback throws, on a reply and on a time-out
  map,       \* ids with an entry in the table of outstanding calls
  timer,     \* ids whose time-out timer runs
  removal,   \* ids whose entry will be deleted by a removal timer (amqper)
  requests,  \* <<caller, id, server>> on their way
  callReplies,   \* <<caller, id, server>> on their way back
  answered,  \* <<caller, id, server>> of replies given to a callback
  timedOut,  \* ids whose callback was told 'timeout'
  crashed,   \* callers whose process ended with an uncaught exception
  overlapped \* history: callers of which a call timed out that was not the latest

rpcVars == <<corrID, ackless, map, timer, removal, requests, callReplies, answered, timedOut,
             crashed, overlapped>>

RpcTypeOK ==
  /\ corrID \in [Caller -> 0..MaxCalls]
  /\ ackless \in [Caller -> SUBSET Id]
  /\ map \in [Caller -> SUBSET Id]
  /\ timer \in [Caller -> SUBSET Id]
  /\ removal \in [Caller -> SUBSET Id]
  /\ requests \subseteq Caller \X Id \X Server
  /\ callReplies \subseteq Caller \X Id \X Server
  /\ answered \subseteq Caller \X Id \X Server
  /\ timedOut \in [Caller -> SUBSET Id]
  /\ crashed \subseteq Caller
  /\ overlapped \subseteq Caller

RpcInit ==
  /\ corrID = [c \in Caller |-> 0]
  /\ ackless = [c \in Caller |-> {}]
  /\ map = [c \in Caller |-> {}]
  /\ timer = [c \in Caller |-> {}]
  /\ removal = [c \in Caller |-> {}]
  /\ requests = {}
  /\ callReplies = {}
  /\ answered = {}
  /\ timedOut = [c \in Caller |-> {}]
  /\ crashed = {}
  /\ overlapped = {}

-----------------------------------------------------------------------------
CallsMade == {k \in Caller \X Id : k[2] <= corrID[k[1]]}

\* Mutation: no time-out is started.
CallUntimed(c, S, acked) ==
  LET n == corrID[c] + 1 IN
  /\ c \notin crashed
  /\ n <= MaxCalls
  /\ Cardinality(CallsMade) < MaxCalls
  /\ corrID' = [corrID EXCEPT ![c] = n]
  /\ ackless' = IF acked THEN ackless ELSE [ackless EXCEPT ![c] = @ \cup {n}]
  /\ map' = [map EXCEPT ![c] = @ \cup {n}]
  /\ requests' = requests \cup {<<c, n, s>> : s \in S}
  /\ UNCHANGED <<timer, removal, callReplies, answered, timedOut, crashed, overlapped>>

\* Mutation: the id is counted once more after it was used.
CallCountedTwice(c, S, acked) ==
  LET n == corrID[c] + 1 IN
  /\ c \notin crashed
  /\ n <= MaxCalls
  /\ Cardinality(CallsMade) < MaxCalls
  /\ corrID' = [corrID EXCEPT ![c] = n + 1]
  /\ ackless' = IF acked THEN ackless ELSE [ackless EXCEPT ![c] = @ \cup {n}]
  /\ map' = [map EXCEPT ![c] = @ \cup {n}]
  /\ timer' = [timer EXCEPT ![c] = @ \cup {n}]
  /\ requests' = requests \cup {<<c, n, s>> : s \in S}
  /\ UNCHANGED <<removal, callReplies, answered, timedOut, crashed, overlapped>>

\* callRpc to one server or broadcast to all, with a callback that can pass on
\* what it hears or throws.
Call(c, S, acked) ==
  LET n == corrID[c] + 1 IN
  /\ c \notin crashed
  /\ n <= MaxCalls
  /\ Cardinality(CallsMade) < MaxCalls
  /\ corrID' = [corrID EXCEPT ![c] = n]
  /\ ackless' = IF acked THEN ackless ELSE [ackless EXCEPT ![c] = @ \cup {n}]
  /\ map' = [map EXCEPT ![c] = @ \cup {n}]
  /\ timer' = [timer EXCEPT ![c] = @ \cup {n}]
  /\ requests' = requests \cup {<<c, n, s>> : s \in S}
  /\ UNCHANGED <<removal, callReplies, answered, timedOut, crashed, overlapped>>

\* A server takes the request and its handler calls back, once.
ServeCall(c, n, s) ==
  /\ <<c, n, s>> \in requests
  /\ requests' = requests \ {<<c, n, s>>}
  /\ callReplies' = callReplies \cup {<<c, n, s>>}
  /\ UNCHANGED <<corrID, ackless, map, timer, removal, answered, timedOut, crashed, overlapped>>

\* The request is lost with the server, or its handler never calls back.
Unanswered(c, n, s) ==
  /\ <<c, n, s>> \in requests
  /\ requests' = requests \ {<<c, n, s>>}
  /\ UNCHANGED <<corrID, ackless, map, timer, removal, callReplies, answered, timedOut, crashed, overlapped>>

Take(c, n, s) ==
  /\ c \notin crashed
  /\ <<c, n, s>> \in callReplies
  /\ callReplies' = callReplies \ {<<c, n, s>>}

\* Mutation: the entry is deleted with the first reply, the timer is not.
ReplyKeepsTimer(c, n, s) ==
  /\ Take(c, n, s)
  /\ n \in map[c]
  /\ answered' = answered \cup {<<c, n, s>>}
  /\ map' = [map EXCEPT ![c] = @ \ {n}]
  /\ UNCHANGED <<corrID, ackless, timer, removal, requests, timedOut, crashed, overlapped>>

\* amqper: the timer is cleared and the entry stays for a while, so that all
\* who answer a broadcast reach the callback; nothing deletes it if the callback
\* throws.
ReplyAmqper(c, n, s) ==
  /\ Take(c, n, s)
  /\ n \in map[c]
  /\ answered' = answered \cup {<<c, n, s>>}
  /\ timer' = [timer EXCEPT ![c] = @ \ {n}]
  /\ removal' = IF n \in ackless[c] THEN removal ELSE [removal EXCEPT ![c] = @ \cup {n}]
  /\ UNCHANGED <<corrID, ackless, map, requests, timedOut, crashed, overlapped>>

\* nuve: the entry is deleted with the first reply.
ReplyNuve(c, n, s) ==
  /\ Take(c, n, s)
  /\ n \in map[c]
  /\ answered' = answered \cup {<<c, n, s>>}
  /\ timer' = [timer EXCEPT ![c] = @ \ {n}]
  /\ map' = [map EXCEPT ![c] = @ \ {n}]
  /\ UNCHANGED <<corrID, ackless, removal, requests, timedOut, crashed, overlapped>>

\* A reply without an entry is dropped.
DropCallReply(c, n, s) ==
  /\ Take(c, n, s)
  /\ n \notin map[c]
  /\ UNCHANGED <<corrID, ackless, map, timer, removal, requests, answered, timedOut, crashed, overlapped>>

\* The removal timer of an answered call.
Remove(c, n) ==
  /\ n \in removal[c]
  /\ removal' = [removal EXCEPT ![c] = @ \ {n}]
  /\ map' = [map EXCEPT ![c] = @ \ {n}]
  /\ UNCHANGED <<corrID, ackless, timer, requests, callReplies, answered, timedOut, crashed, overlapped>>

\* Mutation: callbackError leaves the entry.
ForgetNothing(c, n) == map[c]

\* callbackError deletes the entry of the call that timed out; nuve's deletes
\* the entry of its latest call instead.
ForgetTimedOut(c, n) == map[c] \ {IF c \in Nuve THEN corrID[c] ELSE n}

Timeout(c, n) ==
  /\ c \notin crashed
  /\ n \in timer[c]
  /\ n \in map[c]
  /\ n \notin ackless[c]
  /\ timer' = [timer EXCEPT ![c] = @ \ {n}]
  /\ timedOut' = [timedOut EXCEPT ![c] = @ \cup {n}]
  /\ map' = [map EXCEPT ![c] = ForgetTimedOut(c, n)]
  /\ overlapped' = IF n < corrID[c] THEN overlapped \cup {c} ELSE overlapped
  /\ UNCHANGED <<corrID, ackless, removal, requests, callReplies, answered, crashed>>

\* A process ends and its table and timers with it.
End(c) ==
  /\ crashed' = crashed \cup {c}
  /\ map' = [map EXCEPT ![c] = {}]
  /\ timer' = [timer EXCEPT ![c] = {}]
  /\ removal' = [removal EXCEPT ![c] = {}]
  /\ UNCHANGED <<corrID, ackless, requests, callReplies, answered, overlapped>>

\* callbackError finds no entry and throws: the process ends.
TimeoutThrows(c, n) ==
  /\ c \notin crashed
  /\ n \in timer[c]
  /\ n \notin map[c]
  /\ End(c)
  /\ UNCHANGED timedOut

\* The callback throws when callbackError tells it: the process ends.
TimeoutUnheard(c, n) ==
  /\ c \notin crashed
  /\ n \in timer[c]
  /\ n \in map[c]
  /\ n \in ackless[c]
  /\ timedOut' = [timedOut EXCEPT ![c] = @ \cup {n}]
  /\ End(c)

-----------------------------------------------------------------------------
Receive(c, n, s) ==
  \/ c \in Amqper /\ ReplyAmqper(c, n, s)
  \/ c \in Nuve /\ ReplyNuve(c, n, s)
  \/ DropCallReply(c, n, s)

RpcNext ==
  \E c \in Caller :
    \/ \E s \in Server : Call(c, {s}, TRUE) \/ (c \in Amqper /\ Call(c, {s}, FALSE))
    \/ Call(c, Server, TRUE)
    \/ \E n \in Id :
         \/ Timeout(c, n)
         \/ TimeoutThrows(c, n)
         \/ TimeoutUnheard(c, n)
         \/ Remove(c, n)
         \/ \E s \in Server : ServeCall(c, n, s) \/ Unanswered(c, n, s) \/ Receive(c, n, s)

RpcSpec == RpcInit /\ [][RpcNext]_rpcVars

\* Timers fire; what has come in is handled.
RpcFairness ==
  \A c \in Caller, n \in Id :
    /\ WF_rpcVars(Timeout(c, n))
    /\ WF_rpcVars(TimeoutUnheard(c, n))
    /\ WF_rpcVars(Remove(c, n))
    /\ \A s \in Server : WF_rpcVars(Receive(c, n, s))

RpcFairSpec == RpcSpec /\ RpcFairness

-----------------------------------------------------------------------------
(* Properties.                                                             *)

Answers(c, n) == {s \in Server : <<c, n, s>> \in answered}

\* The caller of amqper hears replies or one time-out, never both: a late
\* reply finds no entry, and a reply in time stops the timer.
TimeoutExcludesReplies ==
  \A c \in Amqper, n \in Id : n \in timedOut[c] => Answers(c, n) = {}

\* In nuve a timed-out call loses the entry of the latest call (callbackError),
\* so its process ends, or a caller hears a time-out and a reply, only if a call
\* timed out after a later one was made.
NuveFailsOnOverlapOnly ==
  \A c \in Nuve \ overlapped :
    /\ c \notin crashed
    /\ \A n \in timedOut[c] : Answers(c, n) = {}

\* A process that uses amqper dies of a timer only if a call timed out whose
\* callback throws: the entry a timer looks for is there as long as it runs.
AmqperSurvives == \A c \in crashed \cap Amqper : timedOut[c] \cap ackless[c] # {}

\* Amqper's promise to its callers (callRpc, broadcast): one end of each call,
\* and a process that goes on as far as it is up to amqper.
AmqperTellsOnce == TimeoutExcludesReplies /\ AmqperSurvives

\* Whoever calls through amqper hears something, whatever becomes of the server,
\* unless his process ends; and its table does not grow for ever, since the entry
\* of a call is deleted, but for calls answered to a callback that throws.
EveryCallEnds ==
  \A c \in Amqper, n \in Id :
    /\ n <= corrID[c] ~> n \in timedOut[c] \/ Answers(c, n) # {} \/ c \in crashed
    /\ n \in map[c] ~> n \notin map[c] \/ (n \in ackless[c] /\ Answers(c, n) # {})

-----------------------------------------------------------------------------
(* The inductive invariant the proofs use.                                 *)

\* An outstanding call of amqper has its time-out ahead or its removal, or its
\* callback threw; one that timed out has no entry, one that was answered no timer.
TableInv ==
  /\ \A c \in Caller, n \in Id :
       n \in map[c] \cup timer[c] \cup timedOut[c] \cup removal[c] \cup ackless[c] \/ Answers(c, n) # {}
         => n <= corrID[c]
  /\ \A c \in Amqper :
       /\ timer[c] \subseteq map[c]
       /\ \A n \in map[c] : n \in timer[c] \cup removal[c] \/ (n \in ackless[c] /\ Answers(c, n) # {})
       /\ timer[c] \cap removal[c] = {}
       /\ timedOut[c] \cap map[c] = {}
       /\ \A n \in timer[c] : Answers(c, n) = {}

\* nuve removes nothing later, and while no calls overlapped its table is as
\* good: a timer has its entry.
NuveInv ==
  /\ \A c \in Nuve : removal[c] = {} /\ ackless[c] = {}
  /\ \A c \in Nuve \ overlapped :
       /\ timer[c] \subseteq map[c]
       /\ timedOut[c] \cap map[c] = {}
       /\ \A n \in timer[c] : Answers(c, n) = {}

RpcInv ==
  /\ RpcTypeOK
  /\ TableInv
  /\ TimeoutExcludesReplies
  /\ AmqperSurvives
  /\ NuveInv
  /\ NuveFailsOnOverlapOnly
=============================================================================
