----------------------------- MODULE RpcServer ------------------------------
(***************************************************************************)
(* The life of the RpcServer processes (src/RPCServer.cc) that publish the *)
(* same services: Run waits for a session of a local ZkClient, registers   *)
(* through it (src/Zookeeperutil.cc Create: exists, then create), starts   *)
(* the TCP server and loops; SIGINT runs StopServer and SIGTERM quits,     *)
(* both through the loop's queue, which nobody looks at before the loop;   *)
(* when Run returns its ZkClient closes the session.  Processes crash,     *)
(* exit, lose their session, and are started again.                        *)
(*                                                                         *)
(* ZooKeeper is external: persistent nodes, and ephemeral instance nodes   *)
(* that go with the session that created them.  Run visits the persistent  *)
(* nodes in one order, that of service_map and method_map: node n is a     *)
(* service, or a method of the service before it, which gets an instance   *)
(* node of the server below it.                                            *)
(***************************************************************************)
EXTENDS Integers, FiniteSets

CONSTANTS Servers,    \* the servers, "ip:port"
          NoServer,   \* no server
          N,          \* persistent nodes of the published services
          ServiceOf,  \* the service node each method node lies below
          MaxStarts,  \* bound: times each server is started
          MaxConns,   \* bound: connections a server has at once
          MaxFaults   \* bound: crashes, failed calls, lost sessions

MethodNodes == DOMAIN ServiceOf

ASSUME NodesAssumption ==
    /\ N \in Nat \ {0}
    /\ MethodNodes \subseteq 1..N
    /\ \A n \in MethodNodes : ServiceOf[n] \in 1..(n - 1)
ASSUME ServerAssumption == NoServer \notin Servers
ASSUME StartsAssumption == MaxStarts \in Nat
ASSUME ConnsAssumption == MaxConns \in Nat
ASSUME FaultsAssumption == MaxFaults \in Nat

Starts == 1..MaxStarts

VARIABLES
    \* ZooKeeper
    created,      \* persistent nodes
    lastCreator,  \* the server that created the latest of them
    owner,        \* owner[n][i]: the start of i whose session owns the
                  \* instance node of i below n, 0 if there is none
    sessions,     \* sessions[i]: the starts of i whose session is open
    faults,
    \* each server process
    start,            \* how often the server was started
    pc, at,           \* where Run is, and at which persistent node
    instance_paths_,  \* instance nodes Run went through
    skipped,          \* those of them it did not create
    pending_requests_,
    stopQueued,       \* StopServer's functor waits in the loop's queue
    quitQueued        \* and so does a quit

zkVars == <<created, lastCreator, owner, sessions>>
loopVars == <<pending_requests_, stopQueued, quitQueued>>
runVars == <<at, instance_paths_, skipped>>
vars == <<zkVars, faults, start, pc, runVars, loopVars>>

Init ==
    /\ created = {}
    /\ lastCreator = NoServer
    /\ owner = [n \in MethodNodes |-> [i \in Servers |-> 0]]
    /\ sessions = [i \in Servers |-> {}]
    /\ faults = 0
    /\ start = [i \in Servers |-> 0]
    /\ pc = [i \in Servers |-> "off"]
    /\ at = [i \in Servers |-> 1]
    /\ instance_paths_ = [i \in Servers |-> {}]
    /\ skipped = [i \in Servers |-> {}]
    /\ pending_requests_ = [i \in Servers |-> 0]
    /\ stopQueued = [i \in Servers |-> FALSE]
    /\ quitQueued = [i \in Servers |-> FALSE]

Registering == {"check", "create", "checkInstance", "createInstance"}
Looping == {"serving", "draining", "closing"}
Running(i) == pc[i] \in {"connecting"} \cup Registering \cup Looping
Connected(i) == start[i] \in sessions[i]

-----------------------------------------------------------------------------
(* Run, up to the loop.                                                    *)

\* The process starts: the signal handlers are there from now on, and Run
\* has ZkClient::Start wait for a session.
Start(i) ==
    /\ ~Running(i)
    /\ start[i] < MaxStarts
    /\ start' = [start EXCEPT ![i] = @ + 1]
    /\ pc' = [pc EXCEPT ![i] = "connecting"]
    /\ UNCHANGED <<zkVars, faults, runVars, loopVars>>

\* ZooKeeper answers, which may take for ever: the wait has no timeout.
SessionUp(i) ==
    /\ pc[i] = "connecting"
    /\ sessions' = [sessions EXCEPT ![i] = @ \cup {start[i]}]
    /\ pc' = [pc EXCEPT ![i] = "check"]
    /\ UNCHANGED <<created, lastCreator, owner, faults, start, runVars, loopVars>>

\* Mutant of Advance: one node too far.
AdvanceTooFar(i) ==
    IF at[i] > N
    THEN pc' = [pc EXCEPT ![i] = "serving"] /\ UNCHANGED at
    ELSE pc' = [pc EXCEPT ![i] = "check"] /\ at' = [at EXCEPT ![i] = @ + 1]

\* On to the next persistent node, or to server_->start() and the loop.
Advance(i) ==
    IF at[i] = N
    THEN pc' = [pc EXCEPT ![i] = "serving"] /\ UNCHANGED at
    ELSE pc' = [pc EXCEPT ![i] = "check"] /\ at' = [at EXCEPT ![i] = @ + 1]

\* Create of a persistent node returned.
NodeDone(i) ==
    IF at[i] \in MethodNodes
    THEN pc' = [pc EXCEPT ![i] = "checkInstance"] /\ UNCHANGED at
    ELSE Advance(i)

\* Create of an instance node returned; its path is recorded either way.
InstanceDone(i) ==
    /\ instance_paths_' = [instance_paths_ EXCEPT ![i] = @ \cup {at[i]}]
    /\ Advance(i)

\* The process is gone, and its memory with it.
Gone(i, how) ==
    /\ pc' = [pc EXCEPT ![i] = how]
    /\ at' = [at EXCEPT ![i] = 1]
    /\ instance_paths_' = [instance_paths_ EXCEPT ![i] = {}]
    /\ skipped' = [skipped EXCEPT ![i] = {}]
    /\ pending_requests_' = [pending_requests_ EXCEPT ![i] = 0]
    /\ stopQueued' = [stopQueued EXCEPT ![i] = FALSE]
    /\ quitQueued' = [quitQueued EXCEPT ![i] = FALSE]

\* exit(EXIT_FAILURE): no destructor closes the session.
Exit(i) == Gone(i, "exited")

\* zookeeper_init fails, and the process exits.
InitFails(i) ==
    /\ pc[i] = "connecting"
    /\ faults < MaxFaults
    /\ faults' = faults + 1
    /\ Exit(i)
    /\ UNCHANGED <<zkVars, start>>

\* zoo_exists on a persistent node: only ZNONODE leads to zoo_create.
CheckNode(i) ==
    /\ pc[i] = "check"
    /\ Connected(i)
    /\ IF at[i] \in created THEN NodeDone(i)
       ELSE pc' = [pc EXCEPT ![i] = "create"] /\ UNCHANGED at
    /\ UNCHANGED <<zkVars, faults, start, instance_paths_, skipped, loopVars>>

\* Mutant of CreateNode: whoever creates the node exits as well.
CreateAlwaysExits(i) ==
    /\ pc[i] = "create"
    /\ Connected(i)
    /\ created' = created \cup {at[i]}
    /\ lastCreator' = IF at[i] \in created THEN lastCreator ELSE i
    /\ Exit(i)
    /\ UNCHANGED <<owner, sessions, faults, start>>

\* A method node can be created only below its service node.
HasParent(n) == n \in MethodNodes => ServiceOf[n] \in created

\* zoo_create: another server may have created the node since the check, or
\* the parent may be missing; both end the process.
CreateNode(i) ==
    /\ pc[i] = "create"
    /\ Connected(i)
    /\ \/ /\ at[i] \notin created
          /\ HasParent(at[i])
          /\ created' = created \cup {at[i]}
          /\ lastCreator' = i
          /\ NodeDone(i)
          /\ UNCHANGED <<instance_paths_, skipped, loopVars>>
       \/ /\ at[i] \in created \/ ~HasParent(at[i])
          /\ Exit(i)
          /\ UNCHANGED <<created, lastCreator>>
    /\ UNCHANGED <<owner, sessions, faults, start>>

\* zoo_exists on the server's own instance node: one left by an earlier
\* start, whose session has not expired yet, is taken for this one's.
CheckInstance(i) ==
    /\ pc[i] = "checkInstance"
    /\ Connected(i)
    /\ \/ /\ owner[at[i]][i] # 0
          /\ skipped' = [skipped EXCEPT ![i] = @ \cup {at[i]}]
          /\ InstanceDone(i)
       \/ /\ owner[at[i]][i] = 0
          /\ pc' = [pc EXCEPT ![i] = "createInstance"]
          /\ UNCHANGED <<at, skipped, instance_paths_>>
    /\ UNCHANGED <<zkVars, faults, start, loopVars>>

\* Mutant of CreateInstance: the path is recorded, the node not created.
InstanceNotCreated(i) ==
    /\ pc[i] = "createInstance"
    /\ Connected(i)
    /\ InstanceDone(i)
    /\ UNCHANGED <<zkVars, faults, start, skipped, loopVars>>

\* zoo_create with ZOO_EPHEMERAL, below a method node that may be missing.
CreateInstance(i) ==
    /\ pc[i] = "createInstance"
    /\ Connected(i)
    /\ \/ /\ at[i] \in created
          /\ owner' = [owner EXCEPT ![at[i]][i] = start[i]]
          /\ InstanceDone(i)
          /\ UNCHANGED <<skipped, loopVars>>
       \/ /\ at[i] \notin created
          /\ Exit(i)
          /\ UNCHANGED owner
    /\ UNCHANGED <<created, lastCreator, sessions, faults, start>>

\* A call fails because the session is gone, or the connection just was.
CallFails(i) ==
    \/ ~Connected(i) /\ UNCHANGED faults
    \/ faults < MaxFaults /\ faults' = faults + 1

\* zoo_exists fails: Create returns as if the node were there.
CheckFails(i) ==
    /\ CallFails(i)
    /\ \/ /\ pc[i] = "check"
          /\ NodeDone(i)
          /\ UNCHANGED <<skipped, instance_paths_>>
       \/ /\ pc[i] = "checkInstance"
          /\ skipped' = [skipped EXCEPT ![i] = @ \cup {at[i]}]
          /\ InstanceDone(i)
    /\ UNCHANGED <<zkVars, start, loopVars>>

\* zoo_create fails: the process exits.
CreateFails(i) ==
    /\ CallFails(i)
    /\ pc[i] \in {"create", "createInstance"}
    /\ Exit(i)
    /\ UNCHANGED <<zkVars, start>>

-----------------------------------------------------------------------------
(* Sessions.                                                               *)

\* The session of start s ends, and its ephemeral nodes go.
CloseSession(i, s) ==
    /\ sessions' = [sessions EXCEPT ![i] = @ \ {s}]
    /\ owner' = [n \in MethodNodes |->
          [owner[n] EXCEPT ![i] = IF @ = s THEN 0 ELSE @]]

\* ZooKeeper gives up on the session of a process that is gone.
Expire(i, s) ==
    /\ s \in sessions[i]
    /\ s # start[i] \/ ~Running(i)
    /\ CloseSession(i, s)
    /\ UNCHANGED <<created, lastCreator, faults, start, pc, runVars, loopVars>>

\* A running server loses its session; global_watcher does nothing about it.
LoseSession(i) ==
    /\ faults < MaxFaults
    /\ Running(i)
    /\ Connected(i)
    /\ faults' = faults + 1
    /\ CloseSession(i, start[i])
    /\ UNCHANGED <<created, lastCreator, start, pc, runVars, loopVars>>

Crash(i) ==
    /\ faults < MaxFaults
    /\ Running(i)
    /\ faults' = faults + 1
    /\ Gone(i, "crashed")
    /\ UNCHANGED <<zkVars, start>>

-----------------------------------------------------------------------------
(* The loop, the signals and the end of Run.                               *)

OnConnectionUp(i) ==
    /\ pc[i] = "serving"
    /\ pending_requests_[i] < MaxConns
    /\ pending_requests_' = [pending_requests_ EXCEPT ![i] = @ + 1]
    /\ UNCHANGED <<zkVars, faults, start, pc, runVars, stopQueued, quitQueued>>

OnConnectionDown(i) ==
    /\ pc[i] \in Looping
    /\ pending_requests_[i] > 0
    /\ pending_requests_' = [pending_requests_ EXCEPT ![i] = @ - 1]
    /\ UNCHANGED <<zkVars, faults, start, pc, runVars, stopQueued, quitQueued>>

\* SIGINT: StopServer.  Cleanup deletes through the member zkclient_, which
\* was never started (Run's local one is): nothing happens in ZooKeeper.
SigInt(i) ==
    /\ Running(i)
    /\ ~stopQueued[i]
    /\ stopQueued' = [stopQueued EXCEPT ![i] = TRUE]
    /\ UNCHANGED <<zkVars, faults, start, pc, runVars, pending_requests_,
                   quitQueued>>

\* SIGTERM queues the quit itself.
SigTerm(i) ==
    /\ Running(i)
    /\ ~quitQueued[i]
    /\ quitQueued' = [quitQueued EXCEPT ![i] = TRUE]
    /\ UNCHANGED <<zkVars, faults, start, pc, runVars, pending_requests_,
                   stopQueued>>

\* Mutant of StopFunctor: no quit while connections are left.
StopWhenIdle(i) ==
    /\ pc[i] = "serving"
    /\ stopQueued[i]
    /\ pending_requests_[i] = 0
    /\ stopQueued' = [stopQueued EXCEPT ![i] = FALSE]
    /\ quitQueued' = [quitQueued EXCEPT ![i] = TRUE]
    /\ pc' = [pc EXCEPT ![i] = "closing"]
    /\ UNCHANGED <<zkVars, faults, start, runVars, pending_requests_>>

\* StopServer's functor: no more accepts; with connections left the loop
\* thread first sleeps.
StopFunctor(i) ==
    /\ pc[i] = "serving"
    /\ stopQueued[i]
    /\ stopQueued' = [stopQueued EXCEPT ![i] = FALSE]
    /\ \/ /\ pending_requests_[i] = 0
          /\ pc' = [pc EXCEPT ![i] = "closing"]
          /\ quitQueued' = [quitQueued EXCEPT ![i] = TRUE]
       \/ /\ pending_requests_[i] # 0
          /\ pc' = [pc EXCEPT ![i] = "draining"]
          /\ UNCHANGED quitQueued
    /\ UNCHANGED <<zkVars, faults, start, runVars, pending_requests_>>

\* sleep(1) is over, whatever the connections do.
SleepOver(i) ==
    /\ pc[i] = "draining"
    /\ pc' = [pc EXCEPT ![i] = "closing"]
    /\ quitQueued' = [quitQueued EXCEPT ![i] = TRUE]
    /\ UNCHANGED <<zkVars, faults, start, runVars, pending_requests_,
                   stopQueued>>

\* Mutant of QuitLoop: the session stays open.
KeepSession(i) ==
    /\ pc[i] \in {"serving", "closing"}
    /\ quitQueued[i]
    /\ Gone(i, "ended")
    /\ UNCHANGED <<zkVars, faults, start>>

\* The loop quits and Run returns: ~ZkClient closes the session.  Then
\* ~RpcServer calls Cleanup again, on the member, and closes what
\* connections are left.
QuitLoop(i) ==
    /\ pc[i] \in {"serving", "closing"}
    /\ quitQueued[i]
    /\ Gone(i, "ended")
    /\ CloseSession(i, start[i])
    /\ UNCHANGED <<created, lastCreator, faults, start>>

-----------------------------------------------------------------------------
Register(i) ==
    \/ CheckNode(i)
    \/ CreateNode(i)
    \/ CheckInstance(i)
    \/ CreateInstance(i)
    \/ CheckFails(i)
    \/ CreateFails(i)

Loop(i) == StopFunctor(i) \/ SleepOver(i) \/ QuitLoop(i)

Next ==
    \E i \in Servers :
        \/ Start(i)
        \/ SessionUp(i)
        \/ InitFails(i)
        \/ Register(i)
        \/ \E s \in Starts : Expire(i, s)
        \/ LoseSession(i)
        \/ Crash(i)
        \/ OnConnectionUp(i)
        \/ OnConnectionDown(i)
        \/ SigInt(i)
        \/ SigTerm(i)
        \/ Loop(i)

Spec == Init /\ [][Next]_vars

\* The main thread goes on, in Run and in the loop.  Nothing has to start,
\* fail or be signalled, no client has to disconnect, and ZooKeeper need never
\* answer the one who waits for a session.
Fairness == \A i \in Servers : WF_vars(Register(i)) /\ WF_vars(Loop(i))

FairSpec == Spec /\ Fairness

-----------------------------------------------------------------------------
(* Properties.                                                             *)

\* Every variable has its type.
TypeOK ==
    /\ created \in SUBSET (1..N)
    /\ lastCreator \in Servers \cup {NoServer}
    /\ owner \in [MethodNodes -> [Servers -> 0..MaxStarts]]
    /\ sessions \in [Servers -> SUBSET Starts]
    /\ faults \in 0..MaxFaults
    /\ start \in [Servers -> 0..MaxStarts]
    /\ pc \in [Servers -> {"off", "connecting", "exited", "crashed", "ended"}
                             \cup Registering \cup Looping]
    /\ at \in [Servers -> 1..N]
    /\ instance_paths_ \in [Servers -> SUBSET MethodNodes]
    /\ skipped \in [Servers -> SUBSET MethodNodes]
    /\ pending_requests_ \in [Servers -> 0..MaxConns]
    /\ stopQueued \in [Servers -> BOOLEAN]
    /\ quitQueued \in [Servers -> BOOLEAN]

\* A server that got to its loop and still has its session is listed under
\* every method, except where zoo_exists found a leftover of an earlier start
\* or failed: no other server, no expiry of an older session of its own and
\* no signal takes a node from it.
RegistrationLasts ==
    \A i \in Servers : pc[i] \in Looping /\ Connected(i) =>
        /\ instance_paths_[i] = MethodNodes
        /\ \A n \in MethodNodes : owner[n][i] = start[i] \/ n \in skipped[i]

\* Losing the race for a persistent node ends a server (Zookeeperutil.cc:79),
\* but never all of them: whoever created the latest node goes on.
RaceHasWinner ==
    faults = 0 /\ (\E i \in Servers : pc[i] = "exited")
    => \E i \in Servers : pc[i] # "exited"

\* When Run has returned, no node of the process is left, although Cleanup
\* deletes none, unless it took over one of a session still to expire.
EndedIsUnregistered ==
    \A i \in Servers, n \in MethodNodes :
        pc[i] = "ended" => owner[n][i] # start[i]

\* Without faults a server that has its session and starts to register brings
\* the service up: it reaches its loop, or a server that beat it to a node does.
SomeoneServes ==
    \A i \in Servers :
        pc[i] = "check" ~> faults > 0 \/ \E j \in Servers : pc[j] = "serving"

\* README.md:324: after SIGINT the process ends, even if the signal came while
\* it was still registering, or connecting, and if no client ever disconnects.
\* Only as long as ZkClient::Start waits for ZooKeeper, maybe for ever, does
\* the signal stay in the queue of a loop that has not begun.
StopEnds ==
    \A i \in Servers :
        stopQueued[i] /\ pc[i] # "connecting" ~> ~Running(i)

\* README.md:333: several servers can register under the same path.
NobodyExits ==
    faults = 0 => \A i \in Servers : pc[i] # "exited"

\* README.md:302: Cleanup deletes all the instance nodes and closes the
\* session, so after StopServer has called it no recorded node is left.
CleanupUnregisters ==
    [][\A i \in Servers : SigInt(i) =>
          \A n \in instance_paths_[i] : owner'[n][i] # start[i]]_vars

\* README.md:234: a server registers itself so that clients can find it.
\* Whoever serves on a live session should be found, once the sessions of
\* its earlier starts are over.
ServingIsListed ==
    \A i \in Servers, n \in MethodNodes :
        pc[i] = "serving" /\ sessions[i] = {start[i]} => owner[n][i] = start[i]

-----------------------------------------------------------------------------
(* The inductive invariant behind the safety properties.                   *)

\* An ephemeral node belongs to an open session of a start of its server,
\* and a clean end closes the session.
SessionOf(i) ==
    /\ sessions[i] \subseteq 1..start[i]
    /\ pc[i] # "off" => start[i] > 0
    /\ pc[i] = "ended" => ~Connected(i)
    /\ \A n \in MethodNodes : owner[n][i] # 0 => owner[n][i] \in sessions[i]

SessionInv == \A i \in Servers : SessionOf(i)

\* Run is done with the methods before at[i]; it has recorded them, and while
\* the session lives their nodes are there, or were taken to be.
Passed(i, n) == n < at[i] \/ pc[i] \in Looping

RegisterOf(i) ==
    /\ ~Running(i) \/ pc[i] = "connecting" => at[i] = 1
    /\ pc[i] \in {"checkInstance", "createInstance"} => at[i] \in MethodNodes
    /\ pc[i] = "createInstance" => owner[at[i]][i] = 0
    /\ Running(i) => \A n \in MethodNodes : Passed(i, n) =>
          /\ n \in instance_paths_[i]
          /\ Connected(i) => owner[n][i] = start[i] \/ n \in skipped[i]

RegisterInv == \A i \in Servers : RegisterOf(i)

\* As long as nothing failed, Run goes through the nodes in order, and a
\* server that is about to lose a race, or has, did not create the latest.
NoFaultOf(i) ==
    /\ pc[i] \in Registering \cup Looping => Connected(i)
    /\ pc[i] \in Registering => \A n \in 1..N : n < at[i] => n \in created
    /\ pc[i] \in {"checkInstance", "createInstance"} => at[i] \in created
    /\ (pc[i] = "create" /\ at[i] \in created) \/ pc[i] = "exited" =>
          lastCreator \notin {i, NoServer}

NoFaultInv == faults = 0 => \A i \in Servers : NoFaultOf(i)

IInv == TypeOK /\ SessionInv /\ RegisterInv /\ NoFaultInv
=============================================================================
