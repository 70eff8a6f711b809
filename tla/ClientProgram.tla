---------------------------- MODULE ClientProgram ----------------------------
(***************************************************************************)
(* One run of a client program, from main to the end of the process:       *)
(* RpcClient.cc ("serial"), RpcClientConcc.cc ("parallel") or              *)
(* RpcClientWithReconn.cc ("reconnect").  The three share main; each of    *)
(* their threads owns an event loop and one client.                        *)
(*                                                                         *)
(* ServiceDiscovery appears with the life of its worker thread, its queue  *)
(* and its destruction; how a list is read call by call is the subject of  *)
(* module ServiceDiscovery, so that reading is one step here.  Servers and *)
(* ZooKeeper are external, calls are counted, and the one method called is *)
(* the one of the command line.                                            *)
(***************************************************************************)
EXTENDS Integers

CONSTANTS Clients,     \* the client threads
          Hosts,       \* the addresses servers have
          EmptyHost,   \* "", the data of a method node
          Nowhere,     \* 0.0.0.0:123, where no server is
          MaxRequests, \* bound: requests_per_client
          MaxChanges   \* bound: starts and stops of servers

ASSUME HostAssumption == EmptyHost \notin Hosts /\ Nowhere \notin Hosts
ASSUME RequestAssumption == MaxRequests \in Nat /\ MaxChanges \in Nat

Kinds == {"serial", "parallel", "reconnect"}

VARIABLES
    kind, requests, \* the program and its argument
    main,      \* where main is
    \* ServiceDiscovery
    worker,    \* where processEvents is
    deaf,      \* the worker waits on a condition variable that was overwritten
    stop_,
    events_,   \* how many events are queued
    cache_,    \* the hosts of the method, {} without an entry
    \* servers and ZooKeeper
    up,        \* addresses that accept connections
    listed,    \* addresses registered under the method node
    node,      \* the method node exists
    watched,   \* its children are watched
    fired,     \* notifications on their way to zkWatcher
    changes,
    \* the clients
    at,        \* "none", "connecting", "connected", "closing" or "left"
    addr,      \* the address of client_
    conn,      \* "none", "open", or "lost": closed by the server, not yet noticed
    doing,     \* what the event loop does: "loop", or the sleep it is in
    inflight,  \* calls sent on the connection and not answered
    remaining, \* remainingRequests_ or pendingResponses_
    done,      \* history: how often onLoginDone ran
    broke      \* history: the server left during the connection

discoveryVars == <<worker, deaf, stop_, events_, cache_>>
treeVars == <<listed, node, watched, fired>>
serverVars == <<up, changes>>
callVars == <<doing, inflight, remaining, done>>
clientVars == <<at, addr, conn, callVars, broke>>
argVars == <<kind, requests>>
vars == <<argVars, main, discoveryVars, treeVars, serverVars, clientVars>>

Init ==
    /\ kind \in Kinds /\ requests \in 0..MaxRequests
    /\ main = "arguments"
    /\ worker = "none" /\ deaf = FALSE /\ stop_ = FALSE
    /\ events_ = 0 /\ cache_ = {}
    /\ up \in SUBSET Hosts /\ listed = up
    /\ node \in BOOLEAN /\ (up # {} => node)
    /\ watched = FALSE /\ fired = 0 /\ changes = 0
    /\ at = [c \in Clients |-> "none"]
    /\ addr = [c \in Clients |-> Nowhere]
    /\ conn = [c \in Clients |-> "none"]
    /\ doing = [c \in Clients |-> "loop"]
    /\ inflight = [c \in Clients |-> 0]
    /\ remaining = [c \in Clients |-> requests]
    /\ done = [c \in Clients |-> 0]
    /\ broke = [c \in Clients |-> FALSE]

Over == main \in {"ended", "aborted"}

-----------------------------------------------------------------------------
(* main *)

MainGoes(from, to) == main = from /\ main' = to

\* Too few arguments, an unknown option or a config file that does not open:
\* the program ends before it has touched ServiceDiscovery.
Application ==
    /\ MainGoes("arguments", "construct") \/ MainGoes("arguments", "ended")
    /\ UNCHANGED <<argVars, discoveryVars, treeVars, serverVars, clientVars>>

\* instance(): worker_ starts before the members behind it are constructed.
StartWorker ==
    /\ MainGoes("construct", "members")
    /\ worker' = "running"
    /\ UNCHANGED <<argVars, deaf, stop_, events_, cache_, treeVars, serverVars, clientVars>>

\* The mutex, the condition variable, stop_ and the queue are constructed in
\* static memory, zero before: a worker that already waits may never be woken.
ConstructMembers ==
    /\ MainGoes("members", "connect")
    /\ deaf' \in {FALSE, worker = "waiting"}
    /\ stop_' = FALSE /\ events_' = 0
    /\ UNCHANGED <<argVars, worker, cache_, treeVars, serverVars, clientVars>>

\* zookeeper_init fails and Start exits, or it waits for the session.
ZkStart ==
    /\ MainGoes("connect", "init") \/ MainGoes("connect", "exit")
    /\ UNCHANGED <<argVars, discoveryVars, treeVars, serverVars, clientVars>>

\* What reading the method node leaves in the cache.
HostsNow == IF listed = {} THEN {EmptyHost} ELSE listed

\* Methods without a node get no entry and no watch.
ReadAll ==
    /\ MainGoes("init", "run")
    /\ IF node THEN cache_' = HostsNow /\ watched' = TRUE
       ELSE UNCHANGED <<cache_, watched>>
    /\ UNCHANGED <<argVars, worker, deaf, stop_, events_, listed, node, fired,
                   serverVars, clientVars>>

\* t.join() for every thread, the summary, and the return from main.
JoinClients ==
    /\ \A c \in Clients : at[c] = "left"
    /\ MainGoes("run", "exit")
    /\ UNCHANGED <<argVars, discoveryVars, treeVars, serverVars, clientVars>>

\* notify_one on queueCv_.
Woken == IF worker = "waiting" /\ ~deaf THEN "running" ELSE worker

\* Mutant of StopWorker: nobody is notified.
StopUnnoticed ==
    /\ MainGoes("exit", "join")
    /\ stop_' = TRUE
    /\ UNCHANGED <<argVars, worker, deaf, events_, cache_, treeVars, serverVars, clientVars>>

\* ~ServiceDiscovery: stop_ is set, the worker woken and joined.
StopWorker ==
    /\ MainGoes("exit", "join")
    /\ stop_' = TRUE
    /\ worker' = Woken
    /\ UNCHANGED <<argVars, deaf, events_, cache_, treeVars, serverVars, clientVars>>

JoinWorker ==
    /\ worker = "done"
    /\ MainGoes("join", "destroy")
    /\ UNCHANGED <<argVars, discoveryVars, treeVars, serverVars, clientVars>>

\* The queue and its mutex are gone already when ~ZkClient closes the session.
CloseSession ==
    /\ MainGoes("destroy", "ended")
    /\ UNCHANGED <<argVars, discoveryVars, treeVars, serverVars, clientVars>>

Main ==
    \/ Application \/ StartWorker \/ ConstructMembers \/ ZkStart \/ ReadAll
    \/ JoinClients \/ StopWorker \/ JoinWorker \/ CloseSession

-----------------------------------------------------------------------------
(* zkWatcher and processEvents *)

\* zkWatcher calls enqueueEvent.  Once the queue is destroyed anything may
\* come of it.
ZkWatcher ==
    /\ ~Over /\ fired > 0
    /\ fired' = fired - 1
    /\ IF main # "destroy"
       THEN events_' = events_ + 1 /\ worker' = Woken /\ UNCHANGED main
       ELSE main' \in {main, "aborted"} /\ UNCHANGED <<events_, worker>>
    /\ UNCHANGED <<argVars, deaf, stop_, cache_, listed, node, watched, serverVars, clientVars>>

\* The predicate of the wait is false.  While the queue is being constructed
\* it may as well be true, and the worker takes an event that is not there.
WorkerWaits ==
    /\ ~Over /\ worker = "running"
    /\ ~stop_ /\ events_ = 0
    /\ \/ worker' = "waiting" /\ UNCHANGED main
       \/ main = "members" /\ main' = "aborted" /\ UNCHANGED worker
    /\ UNCHANGED <<argVars, deaf, stop_, events_, cache_, treeVars, serverVars, clientVars>>

WorkerReturns ==
    /\ ~Over /\ worker = "running"
    /\ stop_ /\ events_ = 0
    /\ worker' = "done"
    /\ UNCHANGED <<argVars, main, deaf, stop_, events_, cache_, treeVars, serverVars, clientVars>>

\* Mutant of WorkerTakes: stop_ ends the wait, and the queue is not looked at.
TakesUnchecked ==
    /\ ~Over /\ worker = "running" /\ (events_ > 0 \/ stop_)
    /\ events_' = events_ - 1
    /\ worker' = "handling"
    /\ UNCHANGED <<argVars, main, deaf, stop_, cache_, treeVars, serverVars, clientVars>>

\* Even when stop_ is set, as long as there are events.
WorkerTakes ==
    /\ ~Over /\ worker = "running" /\ events_ > 0
    /\ events_' = events_ - 1
    /\ worker' = "handling"
    /\ UNCHANGED <<argVars, main, deaf, stop_, cache_, treeVars, serverVars, clientVars>>

HandleEvent ==
    /\ ~Over /\ worker = "handling"
    /\ cache_' = HostsNow
    /\ watched' = TRUE
    /\ worker' = "running"
    /\ UNCHANGED <<argVars, main, deaf, stop_, events_, listed, node, fired,
                   serverVars, clientVars>>

Worker == WorkerWaits \/ WorkerReturns \/ WorkerTakes \/ HandleEvent

-----------------------------------------------------------------------------
(* The clients *)

\* Client c turns to address h.
ConnectTo(c, h) ==
    /\ at' = [at EXCEPT ![c] = "connecting"]
    /\ addr' = [addr EXCEPT ![c] = h]
    /\ UNCHANGED main

\* What getAddr may return: pickHost throws without an entry, and a host
\* without a colon is not used.
GetAddr ==
    IF cache_ = {} THEN {Nowhere}
    ELSE {IF h = EmptyHost THEN Nowhere ELSE h : h \in cache_}

\* The thread of the serial and of the reconnecting client.
RunClient(c) ==
    /\ kind # "parallel"
    /\ main = "run" /\ at[c] = "none"
    /\ \E h \in GetAddr : ConnectTo(c, h)
    /\ UNCHANGED <<argVars, discoveryVars, treeVars, serverVars, conn, callVars, broke>>

\* In RpcClientConcc.cc getAddr does not look for the colon: for "" stoi
\* throws, nobody catches, and the process is terminated.
RunParallelClient(c) ==
    /\ kind = "parallel"
    /\ main = "run" /\ at[c] = "none"
    /\ \/ cache_ = {} /\ ConnectTo(c, Nowhere)
       \/ \E h \in cache_ \ {EmptyHost} : ConnectTo(c, h)
       \/ EmptyHost \in cache_ /\ main' = "aborted" /\ UNCHANGED <<at, addr>>
    /\ UNCHANGED <<argVars, discoveryVars, treeVars, serverVars, conn, callVars, broke>>

\* The connection is up and onConnection sends n calls.  A connect that is
\* refused is tried again, at the same address, as often as it takes.
Connected(c, n) ==
    /\ ~Over /\ at[c] = "connecting" /\ addr[c] \in up
    /\ at' = [at EXCEPT ![c] = "connected"]
    /\ conn' = [conn EXCEPT ![c] = "open"]
    /\ inflight' = [inflight EXCEPT ![c] = n]
    /\ UNCHANGED <<argVars, main, discoveryVars, treeVars, serverVars, addr, doing,
                   remaining, done, broke>>

\* A response arrives, and onLoginDone counts it.
LoginDone(c) ==
    /\ ~Over /\ conn[c] = "open" /\ doing[c] = "loop" /\ inflight[c] > 0
    /\ inflight' = [inflight EXCEPT ![c] = @ - 1]
    /\ remaining' = [remaining EXCEPT ![c] = @ - 1]
    /\ done' = [done EXCEPT ![c] = @ + 1]
    /\ UNCHANGED <<argVars, main, discoveryVars, treeVars, serverVars, addr, conn, broke>>

\* client_.disconnect() shuts the sending half down; the server will close.
Disconnect(c) == at' = [at EXCEPT ![c] = "closing"]

\* onLoginDone of the serial and of the reconnecting client: the loop sleeps
\* before the next call, or before it disconnects.
OnLoginDone(c) ==
    /\ LoginDone(c)
    /\ doing' = [doing EXCEPT ![c] = IF remaining[c] - 1 > 0 THEN "sleep(1)" ELSE "sleep(30)"]
    /\ UNCHANGED at

\* Mutant of OnParallelDone: the value after the decrement is taken for the one
\* before.
OnParallelDoneOff(c) ==
    /\ LoginDone(c)
    /\ IF remaining[c] = 0 THEN Disconnect(c) ELSE UNCHANGED at
    /\ UNCHANGED doing

\* onLoginDone of the parallel client: the last one disconnects.
OnParallelDone(c) ==
    /\ LoginDone(c)
    /\ IF remaining[c] = 1 THEN Disconnect(c) ELSE UNCHANGED at
    /\ UNCHANGED doing

\* What is sent on a connection the server has closed is lost.
SendNext(c) ==
    /\ ~Over /\ doing[c] = "sleep(1)"
    /\ doing' = [doing EXCEPT ![c] = "loop"]
    /\ inflight' = IF conn[c] = "open" THEN [inflight EXCEPT ![c] = @ + 1] ELSE inflight
    /\ UNCHANGED <<argVars, main, discoveryVars, treeVars, serverVars, at, addr, conn,
                   remaining, done, broke>>

Finish(c) ==
    /\ ~Over /\ doing[c] = "sleep(30)"
    /\ doing' = [doing EXCEPT ![c] = "loop"]
    /\ Disconnect(c)
    /\ UNCHANGED <<argVars, main, discoveryVars, treeVars, serverVars, addr, conn, inflight,
                   remaining, done, broke>>

\* onConnection, when the loop finds the connection closed.
NoticeLost(c) ==
    /\ ~Over /\ conn[c] = "lost" /\ doing[c] = "loop"
    /\ conn' = [conn EXCEPT ![c] = "none"]
    /\ inflight' = [inflight EXCEPT ![c] = 0]
    /\ UNCHANGED <<argVars, discoveryVars, treeVars, serverVars, doing, remaining, done, broke>>

QuitLoop(c) ==
    /\ at' = [at EXCEPT ![c] = "left"]
    /\ UNCHANGED <<addr, main>>

\* Mutant of OnDisconnected: the reconnecting client quits like the others.
OnDisconnectedQuits(c) == NoticeLost(c) /\ QuitLoop(c)

\* The serial and the parallel client quit; the reconnecting one asks for an
\* address again as long as requests remain.
OnDisconnected(c) ==
    /\ NoticeLost(c)
    /\ IF kind = "reconnect" /\ remaining[c] > 0
       THEN \E h \in GetAddr : ConnectTo(c, h)
       ELSE QuitLoop(c)

Client(c) ==
    \/ RunClient(c) \/ RunParallelClient(c)
    \/ Connected(c, IF kind = "parallel" THEN requests ELSE 1)
    \/ kind # "parallel" /\ OnLoginDone(c)
    \/ kind = "parallel" /\ OnParallelDone(c)
    \/ SendNext(c) \/ Finish(c) \/ OnDisconnected(c)

-----------------------------------------------------------------------------
(* Servers and ZooKeeper *)

\* A change of the node's children fires the watch on them.
Notify ==
    /\ watched' = FALSE
    /\ fired' = IF watched THEN fired + 1 ELSE fired

\* A server goes up and is registered.
ServerUp(h) ==
    /\ changes < MaxChanges /\ h \notin up
    /\ changes' = changes + 1
    /\ up' = up \cup {h}
    /\ node' = TRUE
    /\ listed' = listed \cup {h}
    /\ IF h \in listed THEN UNCHANGED <<watched, fired>> ELSE Notify
    /\ UNCHANGED <<argVars, main, discoveryVars, clientVars>>

\* A server goes down, and with it its connections.
Connections(h) == {c \in Clients : conn[c] = "open" /\ addr[c] = h}

ServerDown(h) ==
    /\ changes < MaxChanges /\ h \in up
    /\ changes' = changes + 1
    /\ up' = up \ {h}
    /\ conn' = [c \in Clients |-> IF c \in Connections(h) THEN "lost" ELSE conn[c]]
    /\ broke' = [c \in Clients |-> broke[c] \/ (c \in Connections(h) /\ at[c] = "connected")]
    /\ UNCHANGED <<argVars, main, discoveryVars, treeVars, at, addr, callVars>>

\* Its session ends, sooner or later.
Delist(h) ==
    /\ h \in listed \ up
    /\ listed' = listed \ {h}
    /\ Notify
    /\ UNCHANGED <<argVars, main, discoveryVars, node, serverVars, clientVars>>

\* A server closes a connection whose other half is closed.
PeerCloses(c) ==
    /\ at[c] = "closing" /\ conn[c] = "open"
    /\ conn' = [conn EXCEPT ![c] = "lost"]
    /\ UNCHANGED <<argVars, main, discoveryVars, treeVars, serverVars, at, addr, callVars, broke>>

\* What they do after the end of the program is of no interest.
External ==
    /\ ~Over
    /\ \/ \E h \in Hosts : ServerUp(h) \/ ServerDown(h) \/ Delist(h)
       \/ \E c \in Clients : PeerCloses(c)

Next == Main \/ ZkWatcher \/ Worker \/ External \/ \E c \in Clients : Client(c)

Spec == Init /\ [][Next]_vars

(* Every thread is scheduled; servers that stay up answer and close; sessions
   end.  ZooKeeper need not be reachable, and servers need not come or go. *)
Fairness ==
    /\ WF_vars(Main /\ main # "connect")
    /\ WF_vars(ZkWatcher) /\ WF_vars(Worker)
    /\ \A c \in Clients : WF_vars(Client(c)) /\ WF_vars(~Over /\ PeerCloses(c))
    /\ \A h \in Hosts : WF_vars(~Over /\ Delist(h))

FairSpec == Spec /\ Fairness

-----------------------------------------------------------------------------
(* Properties *)

Places == {"arguments", "construct", "members", "connect", "init", "run", "exit",
           "join", "destroy", "ended", "aborted"}

\* Every variable has its type.
TypeOK ==
    /\ kind \in Kinds /\ requests \in 0..MaxRequests
    /\ main \in Places
    /\ worker \in {"none", "running", "waiting", "handling", "done"}
    /\ deaf \in BOOLEAN /\ stop_ \in BOOLEAN /\ events_ \in Nat
    /\ cache_ \in SUBSET (Hosts \cup {EmptyHost})
    /\ up \in SUBSET Hosts /\ listed \in SUBSET Hosts
    /\ node \in BOOLEAN /\ watched \in BOOLEAN /\ fired \in Nat
    /\ changes \in 0..MaxChanges
    /\ at \in [Clients -> {"none", "connecting", "connected", "closing", "left"}]
    /\ addr \in [Clients -> Hosts \cup {Nowhere}]
    /\ conn \in [Clients -> {"none", "open", "lost"}]
    /\ doing \in [Clients -> {"loop", "sleep(1)", "sleep(30)"}]
    /\ inflight \in [Clients -> Nat]
    /\ remaining \in [Clients -> Int]
    /\ done \in [Clients -> Nat]
    /\ broke \in [Clients -> BOOLEAN]

(* However often servers leave and come back, no client makes a request more
   than once that was answered, and one that leaves has had all of them
   answered, unless it does not reconnect and its server left. *)
EveryRequestOnce ==
    \A c \in Clients :
        /\ done[c] <= IF requests = 0 /\ kind # "parallel" THEN 1 ELSE requests
        /\ at[c] = "left" => done[c] >= requests \/ (kind # "reconnect" /\ broke[c])

(* A client whose loop runs on a connection to a server has a call there that
   will be answered, or nothing would ever happen to it again.  The one that
   has none is the parallel client of no requests. *)
Idle(c) == at[c] = "connected" /\ conn[c] = "open" /\ doing[c] = "loop" /\ inflight[c] = 0

NeverIdle == \A c \in Clients : Idle(c) => kind = "parallel" /\ requests = 0

(* The program ends, unless ZooKeeper does not answer, a client tries to
   connect where no server is, whatever the cache has become in the meantime,
   the parallel client has no requests, or the worker cannot be woken. *)
Stuck ==
    \/ main = "connect"
    \/ \E c \in Clients : at[c] = "connecting" /\ addr[c] \notin up
    \/ \E c \in Clients : Idle(c)
    \/ main = "join" /\ deaf /\ worker = "waiting"

EndsUnlessStuck == <>Over \/ <>[]Stuck
=============================================================================
