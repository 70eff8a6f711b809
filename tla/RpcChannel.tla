----------------------------- MODULE RpcChannel -----------------------------
(***************************************************************************)
(* Remote calls through a pair of RPCChannel objects: the client's channel *)
(* (src/RPCChannel.cc CallMethod, RESPONSE half of onRPCMessage, the       *)
(* destructor), the TCP connections it is given one after the other        *)
(* (setConnection), and on the server the channel RpcServer::OnConnection  *)
(* creates per connection (REQUEST half of onRPCMessage, doneCallback)     *)
(* with the thread pool of an asynchronous service.                        *)
(*                                                                         *)
(* Threads.  Any number of caller threads are inside CallMethod at once    *)
(* (one per call); one client loop thread receives; each server connection *)
(* has its IO thread; pool threads run the posted tasks in any order.      *)
(*                                                                         *)
(* A message stands for its header and payload: the connection it travels  *)
(* on, the id, and the call whose request or reply it carries.  Messages   *)
(* in flight are a set: a reply is matched by its id, never by its place   *)
(* in the stream (the byte stream itself is not modelled here).            *)
(***************************************************************************)
EXTENDS Integers, FiniteSets

CONSTANTS Calls,     \* the calls made through the client's channel
          NoCall,    \* "no call": an empty map slot, an unparsed response
          MaxId,     \* bound: ids the client's counter hands out
          MaxConn    \* bound: connections the client opens

ASSUME NoCallAssumption == NoCall \notin Calls
ASSUME MaxIdAssumption == MaxId \in Nat
ASSUME MaxConnAssumption == MaxConn \in Nat

Ids == 1..MaxId
Conns == 1..MaxConn
NoConn == 0
Message == [conn : Conns, id : Ids, call : Calls]
Idle == [call |-> NoCall, payload |-> NoCall]

VARIABLES
    \* the client
    alive,         \* the client's channel object exists
    id_,           \* the channel's id counter
    callId,        \* callId[c]: the id CallMethod drew for c, 0 before
    pc,            \* pc[c]: how far CallMethod has got with c
    failed,        \* calls with controller->SetFailed
    outstandings_, \* id -> call waiting for its response
    conn_,         \* the connection the channel holds
    handling,      \* the call taken off the map, its closure not yet run
    completions,   \* times the closure of c ran
    answer,        \* the reply parsed into c's response
    freed,         \* times the response object of c was deleted
    \* the connections, as each end sees them
    cState, sState,
    requests, responses,
    \* the server
    tasks,             \* requests posted to the thread pool
    executions,        \* times the service method ran for c
    dropped,           \* calls the server returned from without a reply
    pending_requests_, \* the server's connection counter
    lateDone           \* closures run after their channel was destroyed

callerVars == <<alive, id_, callId, pc, failed>>
receiverVars == <<handling, completions, answer, freed>>
netVars == <<cState, sState, requests, responses>>
serverVars == <<tasks, executions, dropped, pending_requests_, lateDone>>
vars == <<callerVars, outstandings_, conn_, receiverVars, netVars, serverVars>>

Init ==
    /\ alive = TRUE
    /\ id_ = 0
    /\ callId = [c \in Calls |-> 0]
    /\ pc = [c \in Calls |-> "idle"]
    /\ failed = {}
    /\ outstandings_ = [i \in Ids |-> NoCall]
    /\ conn_ = NoConn
    /\ handling = Idle
    /\ completions = [c \in Calls |-> 0]
    /\ answer = [c \in Calls |-> NoCall]
    /\ freed = [c \in Calls |-> 0]
    /\ cState = [k \in Conns |-> "none"]
    /\ sState = [k \in Conns |-> "none"]
    /\ requests = {}
    /\ responses = {}
    /\ tasks = {}
    /\ executions = [c \in Calls |-> 0]
    /\ dropped = {}
    /\ pending_requests_ = 0
    /\ lateDone = {}

-----------------------------------------------------------------------------
(* CallMethod, in the steps other threads can come between.                *)

\* The request does not serialize: SetFailed, no id is drawn.
CallMethodReject(c) ==
    /\ alive
    /\ pc[c] = "idle"
    /\ pc' = [pc EXCEPT ![c] = "rejected"]
    /\ failed' = failed \cup {c}
    /\ UNCHANGED <<alive, id_, callId, outstandings_, conn_, receiverVars,
                   netVars, serverVars>>

\* Mutant of CallMethodNumber: the counter is read but not advanced.
NumberStale(c) ==
    /\ alive
    /\ pc[c] = "idle"
    /\ id_ < MaxId
    /\ callId' = [callId EXCEPT ![c] = id_ + 1]
    /\ pc' = [pc EXCEPT ![c] = "numbered"]
    /\ UNCHANGED <<alive, id_, failed, outstandings_, conn_, receiverVars,
                   netVars, serverVars>>

\* id_.incrementAndGet()
CallMethodNumber(c) ==
    /\ alive
    /\ pc[c] = "idle"
    /\ id_ < MaxId
    /\ id_' = id_ + 1
    /\ callId' = [callId EXCEPT ![c] = id_ + 1]
    /\ pc' = [pc EXCEPT ![c] = "numbered"]
    /\ UNCHANGED <<alive, failed, outstandings_, conn_, receiverVars, netVars,
                   serverVars>>

\* Mutant of CallMethodHeaderFails: SetFailed without the return after it.
HeaderFailsGoesOn(c) ==
    /\ pc[c] = "numbered"
    /\ c \notin failed
    /\ failed' = failed \cup {c}
    /\ UNCHANGED <<alive, id_, callId, pc, outstandings_, conn_, receiverVars,
                   netVars, serverVars>>

\* The header does not serialize: SetFailed, the id is lost.
CallMethodHeaderFails(c) ==
    /\ pc[c] = "numbered"
    /\ pc' = [pc EXCEPT ![c] = "rejected"]
    /\ failed' = failed \cup {c}
    /\ UNCHANGED <<alive, id_, callId, outstandings_, conn_, receiverVars,
                   netVars, serverVars>>

\* outstandings_[id] = {response, done}, under mutex_
CallMethodRegister(c) ==
    /\ pc[c] = "numbered"
    /\ outstandings_' = [outstandings_ EXCEPT ![callId[c]] = c]
    /\ pc' = [pc EXCEPT ![c] = "registered"]
    /\ UNCHANGED <<alive, id_, callId, failed, conn_, receiverVars, netVars,
                   serverVars>>

\* conn_->send, which drops the bytes when the connection is down; without
\* a connection SetFailed.  Either way the map entry stays.
CallMethodSend(c) ==
    /\ pc[c] = "registered"
    /\ pc' = [pc EXCEPT ![c] = "returned"]
    /\ \/ /\ conn_ = NoConn
          /\ failed' = failed \cup {c}
          /\ UNCHANGED requests
       \/ /\ conn_ # NoConn
          /\ cState[conn_] = "up"
          /\ requests' = requests \cup
                {[conn |-> conn_, id |-> callId[c], call |-> c]}
          /\ UNCHANGED failed
       \/ /\ conn_ # NoConn
          /\ cState[conn_] # "up"
          /\ UNCHANGED <<failed, requests>>
    /\ UNCHANGED <<alive, id_, callId, outstandings_, conn_, receiverVars,
                   cState, sState, responses, serverVars>>

-----------------------------------------------------------------------------
(* The client's loop thread.                                               *)

\* onConnection, up: the channel is given the new connection.  The client
\* opens the next connection only after the one before has gone down.
ClientUp(k) ==
    /\ alive
    /\ handling = Idle
    /\ cState[k] = "none"
    /\ \A j \in Conns : j < k => cState[j] = "down"
    /\ cState' = [cState EXCEPT ![k] = "up"]
    /\ conn_' = k
    /\ UNCHANGED <<callerVars, outstandings_, receiverVars, sState, requests,
                   responses, serverVars>>

\* onConnection, down: what was not read is lost, conn_ still points here.
ClientDown(k) ==
    /\ handling = Idle
    /\ cState[k] = "up"
    /\ cState' = [cState EXCEPT ![k] = "down"]
    /\ responses' = {m \in responses : m.conn # k}
    /\ UNCHANGED <<callerVars, outstandings_, conn_, receiverVars, sState,
                   requests, serverVars>>

\* Mutant of ReceiveResponse: the entry found is not erased.
KeepEntry(m) ==
    /\ alive
    /\ handling = Idle
    /\ m \in responses
    /\ cState[m.conn] = "up"
    /\ responses' = responses \ {m}
    /\ handling' = IF outstandings_[m.id] = NoCall THEN handling
                   ELSE [call |-> outstandings_[m.id], payload |-> m.call]
    /\ UNCHANGED <<callerVars, outstandings_, conn_, completions, answer,
                   freed, cState, sState, requests, serverVars>>

\* RESPONSE: under mutex_ the call is found by id and taken off the map; an
\* unknown id is ignored.
ReceiveResponse(m) ==
    /\ alive
    /\ handling = Idle
    /\ m \in responses
    /\ cState[m.conn] = "up"
    /\ responses' = responses \ {m}
    /\ \/ /\ outstandings_[m.id] = NoCall
          /\ UNCHANGED <<handling, outstandings_>>
       \/ /\ outstandings_[m.id] # NoCall
          /\ handling' = [call |-> outstandings_[m.id], payload |-> m.call]
          /\ outstandings_' = [outstandings_ EXCEPT ![m.id] = NoCall]
    /\ UNCHANGED <<callerVars, conn_, completions, answer, freed, cState,
                   sState, requests, serverVars>>

\* Outside the lock the payload is parsed (a failure is only logged) and the
\* user's closure runs; it deletes the response object.
RunDone ==
    /\ handling # Idle
    /\ \E parsed \in {handling.payload, NoCall} :
          answer' = [answer EXCEPT ![handling.call] = parsed]
    /\ completions' = [completions EXCEPT ![handling.call] = @ + 1]
    /\ freed' = [freed EXCEPT ![handling.call] = @ + 1]
    /\ handling' = Idle
    /\ UNCHANGED <<callerVars, outstandings_, conn_, netVars, serverVars>>

\* ~RPCChannel, after the loop has quit: deletes what is still outstanding.
DestroyChannel ==
    /\ alive
    /\ handling = Idle
    /\ \A c \in Calls : pc[c] \notin {"numbered", "registered"}
    /\ \A k \in Conns : cState[k] # "up"
    /\ alive' = FALSE
    /\ freed' = [c \in Calls |->
          freed[c] + Cardinality({i \in Ids : outstandings_[i] = c})]
    /\ outstandings_' = [i \in Ids |-> NoCall]
    /\ UNCHANGED <<id_, callId, pc, failed, conn_, handling, completions,
                   answer, netVars, serverVars>>

-----------------------------------------------------------------------------
(* The server: OnConnection, REQUEST, the thread pool, doneCallback.       *)

\* OnConnection, up: a channel is created and kept as the context.
ServerUp(k) ==
    /\ cState[k] # "none"
    /\ sState[k] = "none"
    /\ sState' = [sState EXCEPT ![k] = "up"]
    /\ pending_requests_' = pending_requests_ + 1
    /\ UNCHANGED <<callerVars, outstandings_, conn_, receiverVars, cState,
                   requests, responses, tasks, executions, dropped, lateDone>>

\* Mutant of ServerDown: the counter is not decremented.
ForgetDecrement(k) ==
    /\ sState[k] = "up"
    /\ sState' = [sState EXCEPT ![k] = "down"]
    /\ requests' = {m \in requests : m.conn # k}
    /\ UNCHANGED <<callerVars, outstandings_, conn_, receiverVars, cState,
                   responses, tasks, executions, dropped, pending_requests_,
                   lateDone>>

\* OnConnection, down: the context is cleared, which destroys the channel.
ServerDown(k) ==
    /\ sState[k] = "up"
    /\ sState' = [sState EXCEPT ![k] = "down"]
    /\ pending_requests_' = pending_requests_ - 1
    /\ requests' = {m \in requests : m.conn # k}
    /\ UNCHANGED <<callerVars, outstandings_, conn_, receiverVars, cState,
                   responses, tasks, executions, dropped, lateDone>>

\* REQUEST for an unknown service or method, or one that does not parse:
\* logged, no reply.
RefuseRequest(m) ==
    /\ m \in requests
    /\ sState[m.conn] = "up"
    /\ requests' = requests \ {m}
    /\ dropped' = dropped \cup {m.call}
    /\ UNCHANGED <<callerVars, outstandings_, conn_, receiverVars, cState,
                   sState, responses, tasks, executions, pending_requests_,
                   lateDone>>

\* Mutant of DoneCallback: the id of the request is not carried over.
ReplyAnyId(m) ==
    /\ \E i \in Ids : responses' = responses \cup {[m EXCEPT !.id = i]}
    /\ UNCHANGED dropped

\* Mutant of DoneCallback: the header of the reply is sent without an id.
ReplyWithoutId(m) ==
    /\ responses' = responses \cup {[m EXCEPT !.id = 0]}
    /\ UNCHANGED dropped

\* doneCallback on a live channel: the response is framed and sent, or does
\* not serialize and is dropped.
DoneCallback(m) ==
    \/ /\ responses' = responses \cup {m}
       /\ UNCHANGED dropped
    \/ /\ dropped' = dropped \cup {m.call}
       /\ UNCHANGED responses

\* REQUEST for a service that runs done before its method returns.
ServeInline(m) ==
    /\ m \in requests
    /\ sState[m.conn] = "up"
    /\ requests' = requests \ {m}
    /\ executions' = [executions EXCEPT ![m.call] = @ + 1]
    /\ DoneCallback(m)
    /\ UNCHANGED <<callerVars, outstandings_, conn_, receiverVars, cState,
                   sState, tasks, pending_requests_, lateDone>>

\* REQUEST for a service that posts its work to a thread pool.
ServePooled(m) ==
    /\ m \in requests
    /\ sState[m.conn] = "up"
    /\ requests' = requests \ {m}
    /\ tasks' = tasks \cup {m}
    /\ UNCHANGED <<callerVars, outstandings_, conn_, receiverVars, cState,
                   sState, responses, executions, dropped, pending_requests_,
                   lateDone>>

\* A pool thread runs the method and its closure while the channel lives.
RunTask(m) ==
    /\ m \in tasks
    /\ sState[m.conn] = "up"
    /\ tasks' = tasks \ {m}
    /\ executions' = [executions EXCEPT ![m.call] = @ + 1]
    /\ DoneCallback(m)
    /\ UNCHANGED <<callerVars, outstandings_, conn_, receiverVars, cState,
                   sState, requests, pending_requests_, lateDone>>

\* The same after the channel was destroyed: the closure holds a raw pointer
\* to freed memory.  Either nothing comes of it or the server process dies,
\* and with it every connection and task; a new process counts from zero.
RunTaskLate(m) ==
    /\ m \in tasks
    /\ sState[m.conn] # "up"
    /\ executions' = [executions EXCEPT ![m.call] = @ + 1]
    /\ lateDone' = lateDone \cup {m}
    /\ \/ /\ tasks' = tasks \ {m}
          /\ UNCHANGED <<sState, requests, pending_requests_>>
       \/ /\ tasks' = {}
          /\ sState' = [k \in Conns |->
                IF cState[k] = "none" THEN "none" ELSE "down"]
          /\ requests' = {}
          /\ pending_requests_' = 0
    /\ UNCHANGED <<callerVars, outstandings_, conn_, receiverVars, cState,
                   responses, dropped>>

-----------------------------------------------------------------------------
CallMethod(c) ==
    \/ CallMethodReject(c)
    \/ CallMethodNumber(c)
    \/ CallMethodHeaderFails(c)
    \/ CallMethodRegister(c)
    \/ CallMethodSend(c)

ServeRequest(m) == RefuseRequest(m) \/ ServeInline(m) \/ ServePooled(m)

Next ==
    \/ \E c \in Calls : CallMethod(c)
    \/ \E k \in Conns : ClientUp(k) \/ ClientDown(k)
    \/ \E m \in responses : ReceiveResponse(m)
    \/ RunDone
    \/ DestroyChannel
    \/ \E k \in Conns : ServerUp(k) \/ ServerDown(k)
    \/ \E m \in requests : ServeRequest(m)
    \/ \E m \in tasks : RunTask(m) \/ RunTaskLate(m)

Spec == Init /\ [][Next]_vars

\* A thread inside CallMethod returns; the client's loop thread takes what
\* has arrived and runs the closure; IO threads accept and dispatch; pool
\* threads run what was posted.  Nothing forces a new call, a connection, a
\* break or the destructor.
Fairness ==
    /\ \A c \in Calls : WF_vars(pc[c] # "idle" /\ CallMethod(c))
    /\ WF_vars(\E m \in responses : ReceiveResponse(m))
    /\ WF_vars(RunDone)
    /\ \A k \in Conns : WF_vars(ServerUp(k))
    /\ WF_vars(\E m \in requests : ServeRequest(m))
    /\ WF_vars(\E m \in tasks : RunTask(m) \/ RunTaskLate(m))

FairSpec == Spec /\ Fairness

-----------------------------------------------------------------------------
(* Properties.                                                             *)

PcState == {"idle", "rejected", "numbered", "registered", "returned"}

ClientTypeOK ==
    /\ alive \in BOOLEAN
    /\ id_ \in 0..MaxId
    /\ callId \in [Calls -> 0..MaxId]
    /\ pc \in [Calls -> PcState]
    /\ failed \in SUBSET Calls
    /\ outstandings_ \in [Ids -> Calls \cup {NoCall}]
    /\ conn_ \in Conns \cup {NoConn}
    /\ handling \in [call : Calls \cup {NoCall}, payload : Calls \cup {NoCall}]
    /\ completions \in [Calls -> Nat]
    /\ answer \in [Calls -> Calls \cup {NoCall}]
    /\ freed \in [Calls -> Nat]

NetTypeOK ==
    /\ cState \in [Conns -> {"none", "up", "down"}]
    /\ sState \in [Conns -> {"none", "up", "down"}]
    /\ requests \in SUBSET Message
    /\ responses \in SUBSET Message

ServerTypeOK ==
    /\ tasks \in SUBSET Message
    /\ executions \in [Calls -> Nat]
    /\ dropped \in SUBSET Calls
    /\ pending_requests_ \in Int
    /\ lateDone \in SUBSET Message

\* Every variable has its type.
TypeOK == ClientTypeOK /\ NetTypeOK /\ ServerTypeOK

\* However the calls interleave, whatever order the pool answers in and
\* however often the connection is replaced, a closure sees the reply to its
\* own call (README.md:26, calls are numbered and indexed by id).
AnswersMatch ==
    \A c \in Calls : answer[c] \in {c, NoCall}

\* A reply that can still be read always finds its call in outstandings_:
\* the entry is there before the request leaves and nothing else takes it.
NoReplyOrphaned ==
    alive => \A m \in responses : outstandings_[m.id] = m.call

\* Completions and deletions of the response object agree while the channel
\* lives, and when it is gone every call it registered was deleted exactly
\* once: by its closure or by ~RPCChannel, never by both or by neither.
ResponseFreedOnce ==
    \A c \in Calls :
        /\ completions[c] <= freed[c]
        /\ freed[c] <= 1
        /\ alive => freed[c] = completions[c]
        /\ ~alive /\ pc[c] = "returned" => freed[c] = 1

\* A call reported failed through the controller never completes as well.
FailedNeverCompletes ==
    \A c \in failed : executions[c] = 0 /\ completions[c] = 0

\* The counter StopServer reads equals the number of live server channels
\* over breaks, reconnects and restarts (RPCServer.cc OnConnection).
PendingCountsChannels ==
    pending_requests_ = Cardinality({k \in Conns : sState[k] = "up"})

\* The layer implements at-most-once calls.
Rpc == INSTANCE RpcCalls WITH
    issued <- {c \in Calls : pc[c] # "idle"}

ImplementsRpcCalls == Rpc!RpcSpec

\* A request on the wire is answered, refused by the server, or its
\* connection breaks: no interleaving of registration, dispatch and pool
\* makes the layer itself lose a call.
Settled(c, k) ==
    \/ completions[c] > 0
    \/ c \in dropped
    \/ "down" \in {cState[k], sState[k]}

Answered ==
    \A c \in Calls, k \in Conns :
        (\E m \in requests : m.call = c /\ m.conn = k) ~> Settled(c, k)

\* README.md:33 says doneCallback, after an asynchronous method ends, sends
\* the response on the connection: it needs the channel it is bound to.
DoneOnLiveChannel == lateDone = {}
-----------------------------------------------------------------------------
(* The inductive invariant behind the safety properties.                   *)

InFlight == requests \cup tasks \cup responses

\* Ids are drawn once each, and only a call that got past the counter has one.
IdInv ==
    /\ \A c \in Calls :
          /\ callId[c] <= id_
          /\ pc[c] = "idle" => callId[c] = 0
          /\ pc[c] \in {"numbered", "registered", "returned"} => callId[c] > 0
    /\ \A c, d \in Calls : callId[c] = callId[d] /\ callId[c] > 0 => c = d

\* The map holds exactly the registered calls that wait for their response.
MapInv ==
    /\ \A i \in Ids : outstandings_[i] # NoCall =>
          /\ alive
          /\ callId[outstandings_[i]] = i
          /\ pc[outstandings_[i]] \in {"registered", "returned"}
          /\ completions[outstandings_[i]] = 0
          /\ handling.call # outstandings_[i]
    /\ \A c \in Calls :
          /\ alive /\ pc[c] \in {"registered", "returned"}
          /\ completions[c] = 0 /\ handling.call # c
          => outstandings_[callId[c]] = c

\* A call has one message at most, somewhere between its send and its
\* completion, carrying its id; a reply exists only after the execution.
FlightInv ==
    /\ \A m \in InFlight :
          /\ callId[m.call] = m.id
          /\ pc[m.call] = "returned"
          /\ m.call \notin failed
          /\ completions[m.call] = 0
          /\ handling.call # m.call
    /\ \A m, n \in InFlight : m.call = n.call => m = n
    /\ \A m \in requests : m \notin tasks
    /\ \A m \in requests \cup tasks : executions[m.call] = 0
    /\ \A m \in responses : executions[m.call] = 1

\* Calls run and complete at most once, in that order, and never if failed.
ProgressInv ==
    \A c \in Calls :
        /\ executions[c] \in {0, 1}
        /\ executions[c] = 1 => pc[c] = "returned" /\ c \notin failed
        /\ completions[c] \in {0, 1}
        /\ completions[c] = 1 => executions[c] = 1
        /\ c \in failed => pc[c] \in {"rejected", "returned"}

\* The call taken off the map is about to see its own reply.
HandlingInv ==
    /\ handling.payload = handling.call
    /\ handling.call # NoCall =>
          /\ alive
          /\ completions[handling.call] = 0
          /\ executions[handling.call] = 1

\* After the destructor nobody is inside CallMethod.
DestroyedInv ==
    ~alive => \A c \in Calls : pc[c] \notin {"numbered", "registered"}

IInv ==
    /\ TypeOK
    /\ IdInv
    /\ MapInv
    /\ FlightInv
    /\ ProgressInv
    /\ HandlingInv
    /\ DestroyedInv
    /\ ResponseFreedOnce
    /\ AnswersMatch
=============================================================================
