-------------------------- MODULE ClientProgramProofs --------------------------
(***************************************************************************)
(* Proofs about ClientProgram: no client makes an answered request again,  *)
(* and none is left in a loop where nothing can happen any more, whatever  *)
(* the number of clients, hosts, requests and changes.                     *)
(*                                                                         *)
(* The invariant says, for each client, how the place it is at, the state  *)
(* of its connection, the calls in flight, the counter of the requests     *)
(* that remain and the number of answers go together.                      *)
(***************************************************************************)
EXTENDS ClientProgram, TLAPS

\* A client without connection has nothing on it; the counter counts answers.
Linked(c) ==
    /\ remaining[c] = requests - done[c]
    /\ at[c] \in {"none", "connecting", "left"} =>
          conn[c] = "none" /\ doing[c] = "loop" /\ inflight[c] = 0
    /\ at[c] \in {"connected", "closing"} => conn[c] \in {"open", "lost"}

\* The serial and the reconnecting client: one call at a time.
OneByOne(c) ==
    /\ inflight[c] <= 1
    /\ at[c] = "none" => done[c] = 0
    /\ at[c] = "connecting" => remaining[c] > 0 \/ done[c] = 0
    /\ doing[c] = "sleep(1)" => at[c] = "connected" /\ remaining[c] > 0 /\ inflight[c] = 0
    /\ doing[c] = "sleep(30)" => at[c] = "connected" /\ remaining[c] <= 0 /\ inflight[c] = 0
    /\ at[c] = "closing" => remaining[c] <= 0 /\ inflight[c] = 0
    /\ at[c] = "connected" /\ doing[c] = "loop" /\ conn[c] = "open" => inflight[c] = 1
    /\ inflight[c] = 1 => doing[c] = "loop" /\ (remaining[c] > 0 \/ done[c] = 0)
    /\ remaining[c] >= 0 \/ (requests = 0 /\ done[c] = 1)
    /\ at[c] = "left" => remaining[c] <= 0 \/ (kind = "serial" /\ broke[c])
    /\ kind = "serial" /\ at[c] = "connected" /\ conn[c] = "lost" => broke[c]

\* The parallel client: all calls at once.
AllAtOnce(c) ==
    /\ doing[c] = "loop"
    /\ remaining[c] >= 0
    /\ at[c] \in {"none", "connecting"} => done[c] = 0
    /\ at[c] = "connected" => inflight[c] = remaining[c] /\ (remaining[c] > 0 \/ requests = 0)
    /\ at[c] = "closing" => remaining[c] = 0 /\ inflight[c] = 0
    /\ at[c] = "left" => remaining[c] = 0 \/ broke[c]
    /\ at[c] = "connected" /\ conn[c] = "lost" => broke[c]

ClientInv(c) ==
    /\ Linked(c)
    /\ kind # "parallel" => OneByOne(c)
    /\ kind = "parallel" => AllAtOnce(c)

IInv == TypeOK /\ \A c \in Clients : ClientInv(c)

-----------------------------------------------------------------------------
(* Types. *)

LEMMA InitType == Init => TypeOK
<1> SUFFICES ASSUME Init PROVE TypeOK
    OBVIOUS
<1>1. requests \in 0..MaxRequests /\ requests \in Int /\ 0 \in 0..MaxChanges
      BY RequestAssumption DEF Init
<1>2. [c \in Clients |-> requests] \in [Clients -> Int]
      BY <1>1
<1>3. [c \in Clients |-> Nowhere] \in [Clients -> Hosts \cup {Nowhere}]
      OBVIOUS
<1>4. /\ [c \in Clients |-> 0] \in [Clients -> Nat]
      /\ [c \in Clients |-> FALSE] \in [Clients -> BOOLEAN]
      OBVIOUS
<1> QED
    BY <1>1, <1>2, <1>3, <1>4 DEF Init, TypeOK, Places

\* What reading the method node returns is a set of hosts, or "" alone.
LEMMA HostsNowType == TypeOK => HostsNow \in SUBSET (Hosts \cup {EmptyHost})
BY DEF TypeOK, HostsNow

LEMMA MainType == TypeOK /\ Main => TypeOK'
<1> SUFFICES ASSUME TypeOK, Main PROVE TypeOK'
    OBVIOUS
<1> USE DEF TypeOK, MainGoes, Places
<1>1. CASE Application
      BY <1>1 DEF Application, argVars, discoveryVars, treeVars, serverVars, clientVars, callVars
<1>2. CASE StartWorker
      BY <1>2 DEF StartWorker, argVars, treeVars, serverVars, clientVars, callVars
<1>3. CASE ConstructMembers
      BY <1>3 DEF ConstructMembers, argVars, treeVars, serverVars, clientVars, callVars
<1>4. CASE ZkStart
      BY <1>4 DEF ZkStart, argVars, discoveryVars, treeVars, serverVars, clientVars, callVars
<1>5. CASE ReadAll
      BY <1>5, HostsNowType DEF ReadAll, argVars, serverVars, clientVars, callVars
<1>6. CASE JoinClients
      BY <1>6 DEF JoinClients, argVars, discoveryVars, treeVars, serverVars, clientVars, callVars
<1>7. CASE StopWorker
      BY <1>7 DEF StopWorker, Woken, argVars, treeVars, serverVars, clientVars, callVars
<1>8. CASE JoinWorker
      BY <1>8 DEF JoinWorker, argVars, discoveryVars, treeVars, serverVars, clientVars, callVars
<1>9. CASE CloseSession
      BY <1>9 DEF CloseSession, argVars, discoveryVars, treeVars, serverVars, clientVars, callVars
<1> QED
    BY <1>1, <1>2, <1>3, <1>4, <1>5, <1>6, <1>7, <1>8, <1>9 DEF Main

LEMMA WorkerType == TypeOK /\ (ZkWatcher \/ Worker) => TypeOK'
<1> SUFFICES ASSUME TypeOK, ZkWatcher \/ Worker PROVE TypeOK'
    OBVIOUS
<1> USE DEF TypeOK, Places
<1>1. CASE ZkWatcher
      BY <1>1 DEF ZkWatcher, Woken, argVars, serverVars, clientVars, callVars
<1>2. CASE WorkerWaits
      BY <1>2 DEF WorkerWaits, argVars, treeVars, serverVars, clientVars, callVars
<1>3. CASE WorkerReturns
      BY <1>3 DEF WorkerReturns, argVars, treeVars, serverVars, clientVars, callVars
<1>4. CASE WorkerTakes
      BY <1>4 DEF WorkerTakes, argVars, treeVars, serverVars, clientVars, callVars
<1>5. CASE HandleEvent
      BY <1>5, HostsNowType DEF HandleEvent, argVars, serverVars, clientVars, callVars
<1> QED
    BY <1>1, <1>2, <1>3, <1>4, <1>5 DEF Worker

\* A watch that fires is gone, and the notification is on its way.
LEMMA NotifyType == TypeOK /\ Notify => watched' \in BOOLEAN /\ fired' \in Nat
<1> SUFFICES ASSUME TypeOK, Notify PROVE watched' \in BOOLEAN /\ fired' \in Nat
    OBVIOUS
<1>1. watched' \in BOOLEAN
      BY DEF Notify
<1>2. fired \in Nat
      BY DEF TypeOK
<1>3. fired' = fired + 1 \/ fired' = fired
      BY DEF Notify
<1> QED
    BY <1>1, <1>2, <1>3

LEMMA ExternalType == TypeOK /\ External => TypeOK'
<1> SUFFICES ASSUME TypeOK, External PROVE TypeOK'
    OBVIOUS
<1> USE RequestAssumption DEF TypeOK
<1>1. ASSUME NEW h \in Hosts, ServerUp(h) PROVE TypeOK'
  <2>1. up \cup {h} \in SUBSET Hosts /\ listed \cup {h} \in SUBSET Hosts
        OBVIOUS
  <2>2. changes + 1 \in 0..MaxChanges
        BY <1>1 DEF ServerUp
  <2>3. watched' \in BOOLEAN /\ fired' \in Nat
    <3>1. CASE h \in listed
          BY <1>1, <3>1 DEF ServerUp
    <3>2. CASE h \notin listed
          BY <1>1, <3>2, NotifyType DEF ServerUp
    <3> QED
        BY <3>1, <3>2
  <2> QED
      BY <1>1, <2>1, <2>2, <2>3 DEF ServerUp, argVars, discoveryVars, clientVars, callVars
<1>2. ASSUME NEW h \in Hosts, ServerDown(h) PROVE TypeOK'
  <2>1. up \ {h} \in SUBSET Hosts
        OBVIOUS
  <2>2. changes + 1 \in 0..MaxChanges
        BY <1>2 DEF ServerDown
  <2>3. conn' \in [Clients -> {"none", "open", "lost"}]
        BY <1>2 DEF ServerDown
  <2>4. broke' \in [Clients -> BOOLEAN]
        BY <1>2 DEF ServerDown
  <2> QED
      BY <1>2, <2>1, <2>2, <2>3, <2>4
      DEF ServerDown, argVars, discoveryVars, treeVars, callVars
<1>3. ASSUME NEW h \in Hosts, Delist(h) PROVE TypeOK'
      BY <1>3, NotifyType DEF Delist, argVars, discoveryVars, serverVars, clientVars, callVars
<1>4. ASSUME NEW c \in Clients, PeerCloses(c) PROVE TypeOK'
      BY <1>4 DEF PeerCloses, argVars, discoveryVars, treeVars, serverVars, callVars
<1> QED
    BY <1>1, <1>2, <1>3, <1>4 DEF External

\* An address a client may be given is a host or nowhere.
LEMMA AddressType == TypeOK => GetAddr \subseteq Hosts \cup {Nowhere}
BY DEF TypeOK, GetAddr

LEMMA ClientType == ASSUME NEW c \in Clients, TypeOK, Client(c) PROVE TypeOK'
<1> USE AddressType, RequestAssumption DEF TypeOK
<1>1. CASE RunClient(c)
      BY <1>1 DEF RunClient, ConnectTo, argVars, discoveryVars, treeVars, serverVars, callVars
<1>2. CASE RunParallelClient(c)
      BY <1>2 DEF RunParallelClient, ConnectTo, Places, argVars, discoveryVars, treeVars,
                  serverVars, callVars
<1>3. CASE Connected(c, IF kind = "parallel" THEN requests ELSE 1)
      BY <1>3 DEF Connected, argVars, discoveryVars, treeVars, serverVars
<1>4. CASE OnLoginDone(c)
      BY <1>4 DEF OnLoginDone, LoginDone, argVars, discoveryVars, treeVars, serverVars
<1>5. CASE OnParallelDone(c)
      BY <1>5 DEF OnParallelDone, LoginDone, Disconnect, argVars, discoveryVars, treeVars,
                  serverVars
<1>6. CASE SendNext(c)
      BY <1>6 DEF SendNext, argVars, discoveryVars, treeVars, serverVars
<1>7. CASE Finish(c)
      BY <1>7 DEF Finish, Disconnect, argVars, discoveryVars, treeVars, serverVars
<1>8. CASE OnDisconnected(c)
      BY <1>8 DEF OnDisconnected, NoticeLost, QuitLoop, ConnectTo, argVars, discoveryVars,
                  treeVars, serverVars
<1> QED
    BY <1>1, <1>2, <1>3, <1>4, <1>5, <1>6, <1>7, <1>8 DEF Client

\* Every step keeps the types.
LEMMA TypeStep == TypeOK /\ [Next]_vars => TypeOK'
<1> SUFFICES ASSUME TypeOK, [Next]_vars PROVE TypeOK'
    OBVIOUS
<1>1. CASE UNCHANGED vars
      BY <1>1 DEF TypeOK, vars, argVars, discoveryVars, treeVars, serverVars, clientVars, callVars
<1> QED
    BY <1>1, MainType, WorkerType, ExternalType, ClientType DEF Next

\* The type invariant: TypeOK is inductive.
THEOREM ProgramTypeOK == Spec => []TypeOK
BY InitType, TypeStep, PTL DEF Spec

-----------------------------------------------------------------------------
(* The clients. *)

LEMMA InitClient == Init => \A c \in Clients : ClientInv(c)
<1> SUFFICES ASSUME Init, NEW c \in Clients PROVE ClientInv(c)
    OBVIOUS
<1>1. requests \in Nat
      BY RequestAssumption DEF Init
<1>2. /\ at[c] = "none" /\ conn[c] = "none" /\ doing[c] = "loop" /\ inflight[c] = 0
      /\ remaining[c] = requests /\ done[c] = 0
      BY DEF Init
<1> QED
    BY <1>1, <1>2 DEF ClientInv, Linked, OneByOne, AllAtOnce

\* What a step does not touch.
Untouched(c) ==
    /\ UNCHANGED argVars
    /\ at'[c] = at[c] /\ conn'[c] = conn[c] /\ doing'[c] = doing[c]
    /\ inflight'[c] = inflight[c] /\ remaining'[c] = remaining[c] /\ done'[c] = done[c]
    /\ broke'[c] = broke[c]

LEMMA UntouchedClient ==
    ASSUME NEW c \in Clients, ClientInv(c), Untouched(c) PROVE ClientInv(c)'
BY DEF Untouched, ClientInv, Linked, OneByOne, AllAtOnce, argVars

\* main, the worker and zkWatcher do not touch the clients.
LEMMA OthersClient ==
    ASSUME NEW c \in Clients, ClientInv(c), Main \/ ZkWatcher \/ Worker PROVE ClientInv(c)'
<1> SUFFICES Untouched(c)
    BY UntouchedClient
<1> UNCHANGED <<argVars, clientVars>>
  <2>1. CASE Main
        BY <2>1 DEF Main, Application, StartWorker, ConstructMembers, ZkStart, ReadAll,
                    JoinClients, StopWorker, JoinWorker, CloseSession
  <2>2. CASE ZkWatcher
        BY <2>2 DEF ZkWatcher
  <2>3. CASE Worker
        BY <2>3 DEF Worker, WorkerWaits, WorkerReturns, WorkerTakes, HandleEvent
  <2> QED
      BY <2>1, <2>2, <2>3
<1> QED
    BY DEF Untouched, clientVars, callVars

\* A server that leaves or closes loses the connections to it, and a client
\* that was at work there knows that from then on.
LEMMA ExternalClient ==
    ASSUME TypeOK, NEW c \in Clients, ClientInv(c), External PROVE ClientInv(c)'
<1>1. ASSUME NEW h \in Hosts, ServerUp(h) \/ Delist(h) PROVE ClientInv(c)'
      BY <1>1, UntouchedClient DEF ServerUp, Delist, Untouched, clientVars, callVars
<1>2. ASSUME NEW h \in Hosts, ServerDown(h) PROVE ClientInv(c)'
  <2>1. UNCHANGED <<argVars, at, callVars>>
        BY <1>2 DEF ServerDown
  <2>2. CASE conn[c] = "open" /\ addr[c] = h
    <3>1. conn'[c] = "lost" /\ (at[c] = "connected" => broke'[c])
          BY <1>2, <2>2 DEF ServerDown, Connections, TypeOK
    <3> QED
        BY <2>1, <2>2, <3>1
        DEF ClientInv, Linked, OneByOne, AllAtOnce, argVars, callVars
  <2>3. CASE ~(conn[c] = "open" /\ addr[c] = h)
    <3>1. conn'[c] = conn[c] /\ broke'[c] = broke[c]
          BY <1>2, <2>3 DEF ServerDown, Connections, TypeOK
    <3> QED
        BY <2>1, <3>1, UntouchedClient DEF Untouched, callVars
  <2> QED
      BY <2>2, <2>3
<1>3. ASSUME NEW d \in Clients, PeerCloses(d) PROVE ClientInv(c)'
  <2>1. CASE c = d
        BY <1>3, <2>1
        DEF PeerCloses, TypeOK, ClientInv, Linked, OneByOne, AllAtOnce, argVars, callVars
  <2>2. CASE c # d
        BY <1>3, <2>2, UntouchedClient DEF PeerCloses, Untouched, TypeOK, callVars
  <2> QED
      BY <2>1, <2>2
<1> QED
    BY <1>1, <1>2, <1>3 DEF External

\* A step of another client changes nothing here.
LEMMA OtherClient ==
    ASSUME TypeOK, NEW c \in Clients, ClientInv(c),
           NEW d \in Clients, d # c, Client(d)
    PROVE  ClientInv(c)'
<1> SUFFICES Untouched(c)
    BY UntouchedClient
<1> USE DEF Untouched, TypeOK
<1>1. CASE RunClient(d) \/ RunParallelClient(d)
      BY <1>1 DEF RunClient, RunParallelClient, ConnectTo, callVars
<1>2. CASE Connected(d, IF kind = "parallel" THEN requests ELSE 1)
      BY <1>2 DEF Connected
<1>3. CASE OnLoginDone(d) \/ OnParallelDone(d)
      BY <1>3 DEF OnLoginDone, OnParallelDone, LoginDone, Disconnect
<1>4. CASE SendNext(d) \/ Finish(d)
      BY <1>4 DEF SendNext, Finish, Disconnect
<1>5. CASE OnDisconnected(d)
      BY <1>5 DEF OnDisconnected, NoticeLost, QuitLoop, ConnectTo
<1> QED
    BY <1>1, <1>2, <1>3, <1>4, <1>5 DEF Client

\* Its own steps.  Types is all the steps below need to know about them.
Types(c) ==
    /\ requests \in Nat /\ kind \in Kinds
    /\ inflight[c] \in Nat /\ remaining[c] \in Int /\ done[c] \in Nat
    /\ at[c] \in {"none", "connecting", "connected", "closing", "left"}

LEMMA TypesOfClient == ASSUME TypeOK, NEW c \in Clients PROVE Types(c)
BY RequestAssumption DEF TypeOK, Types

LEMMA StartClient ==
    ASSUME TypeOK, NEW c \in Clients, ClientInv(c), RunClient(c) \/ RunParallelClient(c)
    PROVE  ClientInv(c)'
<1>1. Types(c)
      BY TypesOfClient
<1>2. UNCHANGED <<argVars, conn, callVars, broke>>
      BY DEF RunClient, RunParallelClient
<1>3. at[c] = "none" /\ (at'[c] = "connecting" \/ at'[c] = at[c])
      BY DEF RunClient, RunParallelClient, ConnectTo, TypeOK
<1> QED
    BY <1>1, <1>2, <1>3 DEF Types, ClientInv, Linked, OneByOne, AllAtOnce, argVars, callVars

LEMMA ConnectedClient ==
    ASSUME TypeOK, NEW c \in Clients, ClientInv(c),
           Connected(c, IF kind = "parallel" THEN requests ELSE 1)
    PROVE  ClientInv(c)'
<1>1. Types(c)
      BY TypesOfClient
<1>2. /\ UNCHANGED <<argVars, doing, remaining, done, broke>>
      /\ at[c] = "connecting" /\ at'[c] = "connected" /\ conn'[c] = "open"
      /\ inflight'[c] = IF kind = "parallel" THEN requests ELSE 1
      BY DEF Connected, TypeOK
<1> QED
    BY <1>1, <1>2 DEF Types, ClientInv, Linked, OneByOne, AllAtOnce, argVars

\* The answer to the call in flight: the client is connected, for only then
\* there is one.
LEMMA LoginDoneClient ==
    ASSUME TypeOK, NEW c \in Clients, ClientInv(c), kind # "parallel", OnLoginDone(c)
    PROVE  ClientInv(c)'
<1>1. Types(c)
      BY TypesOfClient
<1>2. /\ UNCHANGED <<argVars, at, conn, broke>>
      /\ conn[c] = "open" /\ doing[c] = "loop" /\ inflight[c] > 0
      /\ inflight'[c] = inflight[c] - 1
      /\ remaining'[c] = remaining[c] - 1 /\ done'[c] = done[c] + 1
      /\ doing'[c] = IF remaining[c] - 1 > 0 THEN "sleep(1)" ELSE "sleep(30)"
      BY DEF OnLoginDone, LoginDone, TypeOK
<1>3. OneByOne(c) /\ Linked(c) /\ inflight[c] = 1
      BY <1>1, <1>2 DEF ClientInv, OneByOne, Types
<1>4. at[c] = "connected"
      BY <1>1, <1>2, <1>3 DEF Types, Linked, OneByOne
<1>5. remaining'[c] >= 0 \/ (requests' = 0 /\ done'[c] = 1)
      BY <1>1, <1>2, <1>3 DEF Types, Linked, OneByOne, argVars
<1>6. Linked(c)'
      BY <1>1, <1>2, <1>3, <1>4 DEF Types, Linked, argVars
<1>7. OneByOne(c)'
      BY <1>1, <1>2, <1>3, <1>4, <1>5 DEF Types, OneByOne, argVars
<1> QED
    BY <1>2, <1>6, <1>7 DEF ClientInv, argVars

LEMMA ParallelDoneClient ==
    ASSUME TypeOK, NEW c \in Clients, ClientInv(c), kind = "parallel", OnParallelDone(c)
    PROVE  ClientInv(c)'
<1>1. Types(c)
      BY TypesOfClient
<1>2. /\ UNCHANGED <<argVars, conn, doing, broke>>
      /\ conn[c] = "open" /\ inflight[c] > 0
      /\ inflight'[c] = inflight[c] - 1
      /\ remaining'[c] = remaining[c] - 1 /\ done'[c] = done[c] + 1
      /\ at'[c] = IF remaining[c] = 1 THEN "closing" ELSE at[c]
      BY DEF OnParallelDone, LoginDone, Disconnect, TypeOK
<1>3. AllAtOnce(c) /\ Linked(c)
      BY DEF ClientInv
<1>4. at[c] = "connected" /\ inflight[c] = remaining[c]
      BY <1>1, <1>2, <1>3 DEF Types, Linked, AllAtOnce
<1>5. Linked(c)'
      BY <1>1, <1>2, <1>3, <1>4 DEF Types, Linked, argVars
<1>6. AllAtOnce(c)'
      BY <1>1, <1>2, <1>3, <1>4 DEF Types, AllAtOnce, argVars
<1> QED
    BY <1>2, <1>5, <1>6 DEF ClientInv, argVars

LEMMA SleepClient ==
    ASSUME TypeOK, NEW c \in Clients, ClientInv(c), SendNext(c) \/ Finish(c)
    PROVE  ClientInv(c)'
<1>1. Types(c)
      BY TypesOfClient
<1>2. CASE SendNext(c)
  <2>1. /\ UNCHANGED <<argVars, at, conn, remaining, done, broke>>
        /\ doing[c] = "sleep(1)" /\ doing'[c] = "loop"
        /\ inflight'[c] = IF conn[c] = "open" THEN inflight[c] + 1 ELSE inflight[c]
        BY <1>2 DEF SendNext, TypeOK
  <2> QED
      BY <1>1, <2>1 DEF Types, ClientInv, Linked, OneByOne, AllAtOnce, argVars
<1>3. CASE Finish(c)
  <2>1. /\ UNCHANGED <<argVars, conn, inflight, remaining, done, broke>>
        /\ doing[c] = "sleep(30)" /\ doing'[c] = "loop" /\ at'[c] = "closing"
        BY <1>3 DEF Finish, Disconnect, TypeOK
  <2> QED
      BY <1>1, <2>1 DEF Types, ClientInv, Linked, OneByOne, AllAtOnce, argVars
<1> QED
    BY <1>2, <1>3

\* The connection is gone: the reconnecting client turns to a new address
\* while requests remain, the others quit.
LEMMA DisconnectedClient ==
    ASSUME TypeOK, NEW c \in Clients, ClientInv(c), OnDisconnected(c)
    PROVE  ClientInv(c)'
<1>1. Types(c)
      BY TypesOfClient
<1>2. /\ UNCHANGED <<argVars, doing, remaining, done, broke>>
      /\ conn[c] = "lost" /\ doing[c] = "loop" /\ conn'[c] = "none" /\ inflight'[c] = 0
      BY DEF OnDisconnected, NoticeLost, TypeOK
<1>3. at[c] \in {"connected", "closing"}
      BY <1>1, <1>2 DEF Types, ClientInv, Linked
<1>4. CASE kind = "reconnect" /\ remaining[c] > 0
  <2>1. at'[c] = "connecting"
        BY <1>4 DEF OnDisconnected, ConnectTo, TypeOK
  <2> QED
      BY <1>1, <1>2, <1>3, <1>4, <2>1
      DEF Types, ClientInv, Linked, OneByOne, AllAtOnce, argVars
<1>5. CASE ~(kind = "reconnect" /\ remaining[c] > 0)
  <2>1. at'[c] = "left"
        BY <1>5 DEF OnDisconnected, QuitLoop, TypeOK
  <2> QED
      BY <1>1, <1>2, <1>3, <1>5, <2>1
      DEF Types, ClientInv, Linked, OneByOne, AllAtOnce, argVars, Kinds
<1> QED
    BY <1>4, <1>5

LEMMA OwnClient ==
    ASSUME TypeOK, NEW c \in Clients, ClientInv(c), Client(c) PROVE ClientInv(c)'
BY StartClient, ConnectedClient, LoginDoneClient, ParallelDoneClient, SleepClient,
   DisconnectedClient DEF Client

LEMMA Inductive == IInv /\ [Next]_vars => IInv'
<1> SUFFICES ASSUME IInv, [Next]_vars, NEW c \in Clients PROVE ClientInv(c)'
    BY TypeStep DEF IInv
<1>1. TypeOK /\ ClientInv(c)
      BY DEF IInv
<1>2. CASE UNCHANGED vars
      BY <1>1, <1>2, UntouchedClient DEF vars, Untouched, clientVars, callVars
<1>3. CASE \E d \in Clients : Client(d)
  <2> PICK d \in Clients : Client(d)
      BY <1>3
  <2> QED
      BY <1>1, OwnClient, OtherClient
<1> QED
    BY <1>1, <1>2, <1>3, OthersClient, ExternalClient DEF Next

LEMMA Invariance == Spec => []IInv
<1>1. Init => IInv
      BY InitType, InitClient DEF IInv
<1> QED
    BY <1>1, Inductive, PTL DEF Spec

\* Whatever servers do, no client repeats an answered request, and one that
\* leaves has had all of them answered or does not reconnect.
THEOREM ProgramEveryRequestOnce == Spec => []EveryRequestOnce
<1>1. IInv => EveryRequestOnce
  <2> SUFFICES ASSUME IInv, NEW c \in Clients
               PROVE  /\ done[c] <= IF requests = 0 /\ kind # "parallel" THEN 1 ELSE requests
                      /\ at[c] = "left" => done[c] >= requests \/ (kind # "reconnect" /\ broke[c])
      BY DEF EveryRequestOnce
  <2>1. Types(c) /\ ClientInv(c)
        BY TypesOfClient DEF IInv
  <2> QED
      BY <2>1 DEF Types, ClientInv, Linked, OneByOne, AllAtOnce
<1> QED
    BY <1>1, Invariance, PTL

\* A connected client has something to wait for, but for the parallel one of
\* no requests.
THEOREM ProgramNeverIdle == Spec => []NeverIdle
<1>1. IInv => NeverIdle
  <2> SUFFICES ASSUME IInv, NEW c \in Clients, Idle(c)
               PROVE  kind = "parallel" /\ requests = 0
      BY DEF NeverIdle
  <2>1. Types(c) /\ ClientInv(c)
        BY TypesOfClient DEF IInv
  <2> QED
      BY <2>1 DEF Idle, Types, ClientInv, Linked, OneByOne, AllAtOnce
<1> QED
    BY <1>1, Invariance, PTL
=============================================================================
