-------------------------- MODULE ServiceDiscovery --------------------------
(***************************************************************************)
(* ServiceDiscovery (src/ServiceDiscovery.cc): the client's cache of the   *)
(* instances registered in ZooKeeper under each service/method node.       *)
(*                                                                         *)
(* Threads.  The main thread runs init once; the ZooKeeper client's        *)
(* completion thread calls zkWatcher, which only queues; worker_ runs      *)
(* processEvents and handleEvent.  init and handleEvent read a method the  *)
(* same way, one ZooKeeper call after the other: list the children and     *)
(* leave a watch, read the data of each child and leave a watch, then      *)
(* store the list under cache_mutex_.  Between any two calls the tree and  *)
(* the other thread may move.                                              *)
(*                                                                         *)
(* ZooKeeper is external: a tree whose method nodes persist, one-shot      *)
(* watches, notifications delivered in order.  Any call may fail (the      *)
(* connection is lost, the session has expired) and then leaves no watch;  *)
(* nobody looks at its return code.  A node's data is the instance and how *)
(* often its data was overwritten (RpcServer never does).                  *)
(***************************************************************************)
EXTENDS Integers, Sequences, FiniteSets

CONSTANTS Methods,     \* the service/method nodes
          Instances,   \* the server instances, "ip:port"
          AtFirst,     \* the sets of them a method node may have at first
          EmptyHost,   \* the data of a method node: ""
          Garbage,     \* an uninitialised buffer taken for a host
          Own,         \* not a child: the data of the node itself
          MaxChanges,  \* bound: registrations and removals
          MaxWrites,   \* bound: overwrites of a node's data
          MaxFaults    \* bound: failed calls, lost sessions

ASSUME BoundsAssumption ==
    MaxChanges \in Nat /\ MaxWrites \in Nat /\ MaxFaults \in Nat
ASSUME OwnAssumption == Own \notin Instances
ASSUME AtFirstAssumption == AtFirst \subseteq SUBSET Instances

MethodPath(m) == <<m>>
InstancePath(m, i) == <<m, i>>
NoPath == <<>>
Paths == {MethodPath(m) : m \in Methods}
            \cup {InstancePath(m, i) : m \in Methods, i \in Instances}
Fetchers == {"init", "worker"}
Reads == Instances \cup {Own}
IdleFetch == [path |-> NoPath, left |-> {}, got |-> {}, failed |-> FALSE]

VARIABLES
    \* ZooKeeper
    children,    \* instances registered under each method
    version,     \* overwrites of each instance node since it was created
    childWatch,  \* methods whose list of children is watched
    dataWatch,   \* instance paths whose data is watched
    fired,       \* notifications on their way to the client
    changes, writes,
    \* what goes wrong between the client and ZooKeeper
    faults,
    expired,     \* the session is over, and with it every later call
    blind,       \* methods whose list was asked for last by a failed call
    \* the client
    todo,        \* methods init has not stored yet
    events_,     \* paths queued for the worker
    fetch,       \* what each thread is reading, and whether a call failed
    cache_,      \* hosts by method, {} without an entry
    lastWriter,  \* the thread that stored cache_[m] last
    broken,      \* methods whose stored hosts come of a failed call
    crashed      \* the process died of an uninitialised String_vector

zkVars == <<children, version, changes, writes>>
watchVars == <<childWatch, dataWatch, fired>>
lossVars == <<faults, expired, blind>>
cacheVars == <<todo, cache_, lastWriter, broken>>
vars == <<zkVars, watchVars, lossVars, cacheVars, events_, fetch, crashed>>

Init ==
    /\ children \in [Methods -> AtFirst]
    /\ version = [m \in Methods |-> [i \in Instances |-> 0]]
    /\ childWatch = {}
    /\ dataWatch = {}
    /\ fired = <<>>
    /\ changes = 0
    /\ writes = 0
    /\ faults = 0
    /\ expired = FALSE
    /\ blind = {}
    /\ todo = Methods
    /\ events_ = <<>>
    /\ fetch = [f \in Fetchers |-> IdleFetch]
    /\ cache_ = [m \in Methods |-> {}]
    /\ lastWriter = [m \in Methods |-> "none"]
    /\ broken = {}
    /\ crashed = FALSE

-----------------------------------------------------------------------------
(* The servers and ZooKeeper.                                              *)

\* A change of m's children uses up the watch on them.
NotifyChildren(m) ==
    /\ childWatch' = childWatch \ {m}
    /\ fired' = IF m \in childWatch THEN Append(fired, MethodPath(m)) ELSE fired

\* A server registers its ephemeral node.
Register(m, i) ==
    /\ changes < MaxChanges
    /\ i \notin children[m]
    /\ changes' = changes + 1
    /\ children' = [children EXCEPT ![m] = @ \cup {i}]
    /\ version' = [version EXCEPT ![m][i] = 0]
    /\ NotifyChildren(m)
    /\ UNCHANGED <<writes, dataWatch, lossVars, cacheVars, events_, fetch,
                   crashed>>

\* The node goes; its data watch fires as ZOO_DELETED_EVENT, which zkWatcher
\* ignores.
Unregister(m, i) ==
    /\ changes < MaxChanges
    /\ i \in children[m]
    /\ changes' = changes + 1
    /\ children' = [children EXCEPT ![m] = @ \ {i}]
    /\ dataWatch' = dataWatch \ {InstancePath(m, i)}
    /\ NotifyChildren(m)
    /\ UNCHANGED <<version, writes, lossVars, cacheVars, events_, fetch, crashed>>

\* Somebody overwrites the data of an instance node.
WriteData(m, i) ==
    /\ writes < MaxWrites
    /\ i \in children[m]
    /\ writes' = writes + 1
    /\ version' = [version EXCEPT ![m][i] = @ + 1]
    /\ dataWatch' = dataWatch \ {InstancePath(m, i)}
    /\ fired' = IF InstancePath(m, i) \in dataWatch
                THEN Append(fired, InstancePath(m, i)) ELSE fired
    /\ UNCHANGED <<children, changes, childWatch, lossVars, cacheVars, events_,
                   fetch, crashed>>

\* The session expires: its watches are gone, and of the notifications under
\* way only the first may still come.  The events that tell of it are of type
\* ZOO_SESSION_EVENT, which neither zkWatcher nor global_watcher acts on.
LoseSession ==
    /\ ~crashed
    /\ ~expired
    /\ faults < MaxFaults
    /\ faults' = faults + 1
    /\ expired' = TRUE
    /\ childWatch' = {}
    /\ dataWatch' = {}
    /\ \E n \in 0..Len(fired) : fired' = SubSeq(fired, 1, n)
    /\ UNCHANGED <<zkVars, blind, cacheVars, events_, fetch, crashed>>

-----------------------------------------------------------------------------
(* zkWatcher and enqueueEvent, on the ZooKeeper client's thread.           *)

ZkWatcher ==
    /\ ~crashed
    /\ fired # <<>>
    /\ events_' = Append(events_, Head(fired))
    /\ fired' = Tail(fired)
    /\ UNCHANGED <<zkVars, childWatch, dataWatch, lossVars, cacheVars, fetch,
                   crashed>>

-----------------------------------------------------------------------------
(* init and handleEvent.                                                   *)

Host(m, i) == <<i, version[m][i]>>

\* A call fails because the session is gone, or the connection just was.
CallFails ==
    \/ expired /\ UNCHANGED faults
    \/ faults < MaxFaults /\ faults' = faults + 1

Works == ~expired /\ UNCHANGED faults

\* Thread f is left with the nodes it has to read the data of.
StartFetch(f, p, left, failed) ==
    fetch' = [fetch EXCEPT ![f] =
                [path |-> p, left |-> left, got |-> {}, failed |-> failed]]

\* Mutant of ListInstances: GetChildren, which leaves no watch.
ListWithoutWatch(f, m) ==
    /\ Works
    /\ StartFetch(f, MethodPath(m), IF children[m] = {} THEN {Own} ELSE children[m],
                  FALSE)
    /\ blind' = blind \ {m}
    /\ UNCHANGED <<childWatch, crashed>>

\* GetChildrenW on a method node.  Without children the method node's own
\* data is to be read.
ListInstances(f, m) ==
    /\ Works
    /\ StartFetch(f, MethodPath(m), IF children[m] = {} THEN {Own} ELSE children[m],
                  FALSE)
    /\ childWatch' = childWatch \cup {m}
    /\ blind' = blind \ {m}
    /\ UNCHANGED crashed

\* GetChildrenW fails and nobody looks: the String_vector is uninitialised.
\* The process dies of it; or its count happens to be negative, and there is
\* nothing to read; or it happens to be 0, and the node's own data is read.
ListFailed(f, p) ==
    /\ \/ crashed' = TRUE /\ UNCHANGED fetch
       \/ StartFetch(f, p, {}, TRUE) /\ UNCHANGED crashed
       \/ StartFetch(f, p, {Own}, TRUE) /\ UNCHANGED crashed
    /\ UNCHANGED childWatch

\* The call on a method node, which exists, fails: no watch is left.
ListFails(f, m) ==
    /\ CallFails
    /\ ListFailed(f, MethodPath(m))
    /\ blind' = blind \cup {m}

\* The same code on an instance node: it has no children, so its own data
\* becomes the only host of the method.
ListInstanceNode(m, i) ==
    /\ i \in children[m]
    /\ Works
    /\ StartFetch("worker", InstancePath(m, i), {Own}, FALSE)
    /\ UNCHANGED <<childWatch, blind, crashed>>

\* On an instance node the call also fails when the node is gone.
ListInstanceNodeFails(m, i) ==
    /\ CallFails \/ (i \notin children[m] /\ UNCHANGED faults)
    /\ ListFailed("worker", InstancePath(m, i))
    /\ UNCHANGED blind

\* GetChildren of a service fails, or of the root: it returns no children, and
\* init passes over the methods S there are.
InitSkips(S) ==
    /\ ~crashed
    /\ S # {}
    /\ S \subseteq todo
    /\ fetch["init"] = IdleFetch
    /\ CallFails
    /\ todo' = todo \ S
    /\ UNCHANGED <<zkVars, watchVars, expired, blind, cache_, lastWriter, broken,
                   events_, fetch, crashed>>

\* init turns to the next method.
InitMethod(m) ==
    /\ ~crashed
    /\ m \in todo
    /\ fetch["init"] = IdleFetch
    /\ ListInstances("init", m) \/ ListFails("init", m)
    /\ UNCHANGED <<zkVars, dataWatch, fired, expired, cacheVars, events_>>

\* The worker takes the next event and starts on its path.
HandleEvent ==
    /\ ~crashed
    /\ events_ # <<>>
    /\ fetch["worker"] = IdleFetch
    /\ events_' = Tail(events_)
    /\ \/ \E m \in Methods :
             /\ Head(events_) = MethodPath(m)
             /\ ListInstances("worker", m) \/ ListFails("worker", m)
       \/ \E m \in Methods, i \in Instances :
             /\ Head(events_) = InstancePath(m, i)
             /\ ListInstanceNode(m, i) \/ ListInstanceNodeFails(m, i)
    /\ UNCHANGED <<zkVars, dataWatch, fired, expired, cacheVars>>

\* A host was read.
Got(f, x, host, failed) ==
    fetch' = [fetch EXCEPT ![f].left = @ \ {x}, ![f].got = @ \cup {host},
                           ![f].failed = @ \/ failed]

\* x stands for the data of the instance node (m, i).
IsInstance(f, x, m, i) ==
    \/ fetch[f].path = MethodPath(m) /\ x = i
    \/ fetch[f].path = InstancePath(m, i) /\ x = Own

\* Mutant of ReadHost: the child's name is taken for its data.
NameForData(f, x) ==
    /\ ~crashed
    /\ x \in fetch[f].left
    /\ Works
    /\ Got(f, x, x, FALSE)
    /\ UNCHANGED <<zkVars, watchVars, expired, blind, cacheVars, events_, crashed>>

\* GetDataW on the next child, or on the node itself.  A method node has no
\* data; for a child that has gone since the list was read, the call fails,
\* and the buffer was never written.
ReadHost(f, x) ==
    /\ ~crashed
    /\ x \in fetch[f].left
    /\ Works
    /\ \/ /\ x = Own
          /\ \E m \in Methods : fetch[f].path = MethodPath(m)
          /\ Got(f, x, EmptyHost, FALSE)
          /\ UNCHANGED dataWatch
       \/ \E m \in Methods, i \in Instances :
             /\ IsInstance(f, x, m, i)
             /\ \/ /\ i \in children[m]
                   /\ Got(f, x, Host(m, i), FALSE)
                   /\ dataWatch' = dataWatch \cup {InstancePath(m, i)}
                \/ /\ i \notin children[m]
                   /\ Got(f, x, Garbage, FALSE)
                   /\ UNCHANGED dataWatch
    /\ UNCHANGED <<zkVars, childWatch, fired, expired, blind, cacheVars, events_,
                   crashed>>

\* GetDataW fails although the node is there: the same unwritten buffer.
ReadFails(f, x) ==
    /\ ~crashed
    /\ x \in fetch[f].left
    /\ CallFails
    /\ Got(f, x, Garbage, TRUE)
    /\ UNCHANGED <<zkVars, watchVars, expired, blind, cacheVars, events_, crashed>>

\* Mutant of StoreHosts: the hosts are added to what is there.
AppendHosts(f) ==
    LET m == fetch[f].path[1] IN
    /\ ~crashed
    /\ fetch[f] # IdleFetch
    /\ fetch[f].left = {}
    /\ cache_' = [cache_ EXCEPT ![m] = @ \cup fetch[f].got]
    /\ lastWriter' = [lastWriter EXCEPT ![m] = f]
    /\ broken' = IF fetch[f].failed THEN broken \cup {m} ELSE broken \ {m}
    /\ fetch' = [fetch EXCEPT ![f] = IdleFetch]
    /\ todo' = IF f = "init" THEN todo \ {m} ELSE todo
    /\ UNCHANGED <<zkVars, watchVars, lossVars, events_, crashed>>

\* cache_[key] = hosts, under cache_mutex_.
StoreHosts(f) ==
    LET m == fetch[f].path[1] IN
    /\ ~crashed
    /\ fetch[f] # IdleFetch
    /\ fetch[f].left = {}
    /\ cache_' = [cache_ EXCEPT ![m] = fetch[f].got]
    /\ lastWriter' = [lastWriter EXCEPT ![m] = f]
    /\ broken' = IF fetch[f].failed THEN broken \cup {m} ELSE broken \ {m}
    /\ fetch' = [fetch EXCEPT ![f] = IdleFetch]
    /\ todo' = IF f = "init" THEN todo \ {m} ELSE todo
    /\ UNCHANGED <<zkVars, watchVars, lossVars, events_, crashed>>

\* What pickHost may return for m; nothing when it throws.
PickHost(m) == cache_[m]

-----------------------------------------------------------------------------
Fetching(f) ==
    StoreHosts(f) \/ \E x \in Reads : ReadHost(f, x) \/ ReadFails(f, x)

Next ==
    \/ \E m \in Methods, i \in Instances :
          Register(m, i) \/ Unregister(m, i) \/ WriteData(m, i)
    \/ LoseSession
    \/ ZkWatcher
    \/ \E m \in Methods : InitMethod(m)
    \/ \E S \in SUBSET todo : InitSkips(S)
    \/ HandleEvent
    \/ \E f \in Fetchers : Fetching(f)

Spec == Init /\ [][Next]_vars

\* The main thread, the ZooKeeper client's thread and the worker go on; no
\* server has to register or leave, and no call to fail.
Fairness ==
    /\ WF_vars(\E m \in Methods : InitMethod(m))
    /\ WF_vars(ZkWatcher)
    /\ WF_vars(HandleEvent)
    /\ \A f \in Fetchers : WF_vars(Fetching(f))

FairSpec == Spec /\ Fairness

-----------------------------------------------------------------------------
(* Properties.                                                             *)

Hosts == (Instances \X (0..MaxWrites)) \cup {EmptyHost, Garbage}
FetchState == [path : Paths \cup {NoPath}, left : SUBSET Reads,
               got : SUBSET Hosts, failed : BOOLEAN]

\* Every variable has its type.
TypeOK ==
    /\ children \in [Methods -> SUBSET Instances]
    /\ version \in [Methods -> [Instances -> 0..MaxWrites]]
    /\ childWatch \in SUBSET Methods
    /\ dataWatch \in SUBSET Paths
    /\ fired \in Seq(Paths)
    /\ changes \in 0..MaxChanges
    /\ writes \in 0..MaxWrites
    /\ faults \in 0..MaxFaults
    /\ expired \in BOOLEAN
    /\ blind \in SUBSET Methods
    /\ todo \in SUBSET Methods
    /\ events_ \in Seq(Paths)
    /\ fetch \in [Fetchers -> FetchState]
    /\ cache_ \in [Methods -> SUBSET Hosts]
    /\ lastWriter \in [Methods -> {"none"} \cup Fetchers]
    /\ broken \in SUBSET Methods
    /\ crashed \in BOOLEAN

\* A notification about m's children that no thread has acted on yet.
Pending(m) ==
    \/ \E n \in DOMAIN fired : fired[n] = MethodPath(m)
    \/ \E n \in DOMAIN events_ : events_[n] = MethodPath(m)

\* Some thread has asked for the list of m's instances.
Listed(m) ==
    \/ lastWriter[m] # "none"
    \/ \E f \in Fetchers : fetch[f].path = MethodPath(m)

\* What init and handleEvent make of the tree as it is.
HostsNow(m) ==
    IF children[m] = {} THEN {EmptyHost}
    ELSE {Host(m, i) : i \in children[m]}

\* A change of the instances goes unnoticed only behind a failure: once a list
\* was asked for the node is watched or a notification for it is under way,
\* however notifications, re-registrations, failing calls and the two reading
\* threads interleave, unless the last call for that very list failed (the code
\* stores what it has and never asks again) or the session is over.
WatchCovered ==
    \A m \in Methods : Listed(m) /\ ~expired =>
        m \in childWatch \/ Pending(m) \/ m \in blind

\* When the worker stored a method's hosts last and is not behind, the cache
\* is what ZooKeeper holds, whatever failed before or for other methods: only
\* a failed call among those the stored hosts come from excuses it, the end of
\* the session or of the process, and an overwrite of node data.
WorkerCacheFresh ==
    \A m \in Methods :
        /\ writes = 0
        /\ lastWriter[m] = "worker"
        /\ ~Pending(m)
        /\ fetch["worker"].path # MethodPath(m)
        /\ m \notin broken /\ ~expired /\ ~crashed
        => cache_[m] = HostsNow(m)

\* README.md:88: node changes are listened for and cache_ is updated by
\* itself.  When nothing is under way any more, the cache should be right.
QuietCacheFresh ==
    \A m \in Methods :
        /\ m \notin todo
        /\ \A f \in Fetchers : fetch[f] = IdleFetch
        /\ fired = <<>> /\ events_ = <<>>
        => cache_[m] = HostsNow(m)

\* README.md:99: pickHost selects an instance, or throws if there is none.
PickIsAnInstance ==
    \A m \in Methods : PickHost(m) \cap {EmptyHost, Garbage} = {}

\* After init a change that was notified reaches the cache: the worker gets
\* to it, whatever it is doing, and does not stop at an older state (as long
\* as nobody overwrites node data).  What can stop it is a failed call of its
\* own for that method, which the code does not repeat, the end of the session,
\* or of the process.
ChangesReachCache ==
    \A m \in Methods :
        todo = {} /\ Pending(m) ~>
            \/ cache_[m] = HostsNow(m) \/ writes > 0
            \/ m \in broken \/ expired \/ crashed

-----------------------------------------------------------------------------
(* The inductive invariant behind WatchCovered and WorkerCacheFresh.       *)

\* A thread reads an instance node's data only as its own list; what is left
\* to read and what was read belong to the path.
FetchInv ==
    /\ fetch["init"].path \in {NoPath} \cup {MethodPath(m) : m \in Methods}
    /\ \A f \in Fetchers :
          fetch[f].path = NoPath <=> fetch[f] = IdleFetch

\* A node was overwritten at most as often as any node was.
VersionInv ==
    \A m \in Methods, i \in Instances : version[m][i] <= writes

\* Before anybody overwrites data all events are about methods.
NoWritesInv ==
    writes = 0 =>
        /\ \A n \in DOMAIN fired : \E m \in Methods : fired[n] = MethodPath(m)
        /\ \A n \in DOMAIN events_ : \E m \in Methods : events_[n] = MethodPath(m)
        /\ fetch["worker"].path \in {NoPath} \cup {MethodPath(m) : m \in Methods}

\* An instance node is watched, and heard of, only after its method's list
\* was read.
InstanceListed(p) ==
    \A m \in Methods, i \in Instances : p = InstancePath(m, i) => Listed(m)

DataInv ==
    /\ \A p \in dataWatch : InstanceListed(p)
    /\ \A n \in DOMAIN fired : InstanceListed(fired[n])
    /\ \A n \in DOMAIN events_ : InstanceListed(events_[n])
    /\ InstanceListed(fetch["worker"].path)

\* A list the worker is reading, or has stored, without a failed call is still
\* watched, or a newer notification is under way: init may fail to list the
\* method after it, but that takes no watch away.
WorkerWatched ==
    \A m \in Methods :
        /\ writes = 0 /\ ~expired
        /\ IF fetch["worker"].path = MethodPath(m) THEN ~fetch["worker"].failed
           ELSE lastWriter[m] = "worker" /\ m \notin broken /\ ~crashed
        => m \in childWatch \/ Pending(m)

\* What the worker has read of a method's list is still true unless a newer
\* notification is under way or a call failed.
WorkerReadsFresh ==
    LET left == fetch["worker"].left
        got == fetch["worker"].got IN
    \A m \in Methods :
        /\ writes = 0
        /\ fetch["worker"].path = MethodPath(m)
        /\ ~Pending(m)
        /\ ~expired /\ ~fetch["worker"].failed
        => IF children[m] = {}
           THEN (left = {Own} /\ got = {}) \/ (left = {} /\ got = {EmptyHost})
           ELSE left \subseteq children[m]
                /\ got = {<<i, 0>> : i \in children[m] \ left}

IInv ==
    /\ TypeOK
    /\ FetchInv
    /\ VersionInv
    /\ NoWritesInv
    /\ WatchCovered
    /\ WorkerWatched
    /\ WorkerReadsFresh
    /\ DataInv
    /\ WorkerCacheFresh
=============================================================================
