-------------------------- MODULE RpcServerProofs ---------------------------
(***************************************************************************)
(* Proofs about RpcServer: IInv is inductive for any servers, nodes and    *)
(* bounds, and its safety properties follow.                               *)
(***************************************************************************)
EXTENDS RpcServer, TLAPS

States == {"off", "connecting", "exited", "crashed", "ended"} \cup Registering \cup Looping

-----------------------------------------------------------------------------
(* What the shared parts of the actions do to the types.                   *)

\* A process that is gone keeps the types of its variables.
LEMMA GoneType ==
  ASSUME TypeOK, NEW i \in Servers, NEW how \in States, Gone(i, how)
  PROVE  /\ pc' \in [Servers -> States]
         /\ at' \in [Servers -> 1..N]
         /\ instance_paths_' \in [Servers -> SUBSET MethodNodes]
         /\ skipped' \in [Servers -> SUBSET MethodNodes]
         /\ pending_requests_' \in [Servers -> 0..MaxConns]
         /\ stopQueued' \in [Servers -> BOOLEAN]
         /\ quitQueued' \in [Servers -> BOOLEAN]
<1>1. 1 \in 1..N /\ 0 \in 0..MaxConns
  BY NodesAssumption, ConnsAssumption
<1>. QED
  BY <1>1 DEF Gone, TypeOK, States

\* Advance stays among the nodes.
LEMMA AdvanceType ==
  ASSUME TypeOK, NEW i \in Servers, Advance(i)
  PROVE  pc' \in [Servers -> States] /\ at' \in [Servers -> 1..N]
<1>1. CASE at[i] = N
  BY <1>1 DEF Advance, TypeOK, States, Looping
<1>2. CASE at[i] # N
  <2>0. at[i] \in 1..N /\ N \in Nat
    BY NodesAssumption DEF TypeOK
  <2>1. at[i] + 1 \in 1..N
    BY <1>2, <2>0
  <2>. QED
    BY <1>2, <2>1 DEF Advance, TypeOK, States, Registering
<1>. QED
  BY <1>1, <1>2

\* So does the return of Create from a persistent node.
LEMMA NodeDoneType ==
  ASSUME TypeOK, NEW i \in Servers, NodeDone(i)
  PROVE  pc' \in [Servers -> States] /\ at' \in [Servers -> 1..N]
<1>1. CASE at[i] \in MethodNodes
  BY <1>1 DEF NodeDone, TypeOK, States, Registering
<1>2. CASE at[i] \notin MethodNodes
  BY <1>2, AdvanceType DEF NodeDone
<1>. QED
  BY <1>1, <1>2

\* And from an instance node.
LEMMA InstanceDoneType ==
  ASSUME TypeOK, NEW i \in Servers, InstanceDone(i), at[i] \in MethodNodes
  PROVE  /\ pc' \in [Servers -> States] /\ at' \in [Servers -> 1..N]
         /\ instance_paths_' \in [Servers -> SUBSET MethodNodes]
BY AdvanceType DEF InstanceDone, TypeOK

-----------------------------------------------------------------------------
(* Each action preserves IInv.                                             *)

\* The natural numbers behind the types.
LEMMA Numbers ==
  ASSUME TypeOK
  PROVE  /\ faults \in Nat
         /\ \A j \in Servers : start[j] \in Nat /\ at[j] \in Nat
         /\ \A j \in Servers, n \in MethodNodes : n \in Nat /\ owner[n][j] \in Nat
<1>1. \A n \in MethodNodes : n \in Nat
  BY NodesAssumption
<1>2. faults \in Nat
  BY FaultsAssumption DEF TypeOK
<1>3. \A j \in Servers : start[j] \in Nat /\ at[j] \in Nat
  BY StartsAssumption, NodesAssumption DEF TypeOK
<1>4. \A j \in Servers, n \in MethodNodes : owner[n][j] \in Nat
  BY StartsAssumption DEF TypeOK
<1>. QED
  BY <1>1, <1>2, <1>3, <1>4

\* What the invariant says of server j, apart from faults, is about these.
Same(j) ==
    /\ pc'[j] = pc[j]
    /\ at'[j] = at[j]
    /\ start'[j] = start[j]
    /\ sessions'[j] = sessions[j]
    /\ instance_paths_'[j] = instance_paths_[j]
    /\ skipped'[j] = skipped[j]
    /\ \A n \in MethodNodes : owner'[n][j] = owner[n][j]

\* A step that leaves them alone keeps it.
LEMMA SameKeeps ==
  ASSUME NEW j \in Servers, Same(j), SessionOf(j), RegisterOf(j)
  PROVE  SessionOf(j)' /\ RegisterOf(j)'
<1>1. Running(j)' = Running(j) /\ Connected(j)' = Connected(j)
  BY DEF Same, Running, Connected
<1>2. SessionOf(j)'
  BY <1>1 DEF Same, SessionOf
<1>3. \A n \in MethodNodes : Passed(j, n)' = Passed(j, n)
  BY DEF Same, Passed
<1>4. pc[j] = "createInstance" => at[j] \in MethodNodes
  BY DEF RegisterOf
<1>5. RegisterOf(j)'
  BY <1>1, <1>3, <1>4 DEF Same, RegisterOf
<1>. QED
  BY <1>2, <1>5

\* The same for what holds without faults.
LEMMA SameKeepsNoFault ==
  ASSUME NEW j \in Servers, Same(j), NoFaultOf(j),
         UNCHANGED <<created, lastCreator>>
  PROVE  NoFaultOf(j)'
<1>1. Running(j)' = Running(j) /\ Connected(j)' = Connected(j)
  BY DEF Same, Running, Connected
<1>. QED
  BY <1>1 DEF Same, NoFaultOf

\* So the invariant has to be shown for the server that moved only.
LEMMA OneMoves ==
  ASSUME IInv, TypeOK', NEW i \in Servers,
         \A j \in Servers : j # i => Same(j),
         SessionOf(i)', RegisterOf(i)',
         \/ faults' # 0
         \/ /\ UNCHANGED <<faults, created, lastCreator>>
            /\ faults = 0 => NoFaultOf(i)'
  PROVE  IInv'
<1>1. SessionInv' /\ RegisterInv'
  <2>. SUFFICES ASSUME NEW j \in Servers PROVE SessionOf(j)' /\ RegisterOf(j)'
    BY DEF SessionInv, RegisterInv
  <2>1. CASE j = i
    BY <2>1
  <2>2. CASE j # i
    BY <2>2, SameKeeps DEF IInv, SessionInv, RegisterInv
  <2>. QED
    BY <2>1, <2>2
<1>2. NoFaultInv'
  <2>1. CASE faults' # 0
    BY <2>1 DEF NoFaultInv
  <2>2. CASE UNCHANGED <<faults, created, lastCreator>> /\ faults = 0
                /\ NoFaultOf(i)'
    <3>. SUFFICES ASSUME NEW j \in Servers PROVE NoFaultOf(j)'
      BY DEF NoFaultInv
    <3>1. CASE j = i
      BY <2>2, <3>1
    <3>2. CASE j # i
      BY <2>2, <3>2, SameKeepsNoFault DEF IInv, NoFaultInv
    <3>. QED
      BY <3>1, <3>2
  <2>. QED
    BY <2>1, <2>2
<1>. QED
  BY <1>1, <1>2 DEF IInv

-----------------------------------------------------------------------------
\* No method node comes before the first node.
LEMMA NothingPassed == \A n \in MethodNodes : ~(n < 1)
<1>1. \A n \in MethodNodes : n \in 1..N
  BY NodesAssumption
<1>. QED
  BY <1>1, NodesAssumption

LEMMA StartIInv ==
  ASSUME IInv, NEW i \in Servers, Start(i)
  PROVE  IInv'
<1>. USE DEF IInv
<1>1. /\ start' = [start EXCEPT ![i] = start[i] + 1]
      /\ pc' = [pc EXCEPT ![i] = "connecting"]
      /\ ~Running(i) /\ start[i] < MaxStarts
      /\ UNCHANGED <<created, lastCreator, owner, sessions, faults, at,
                     instance_paths_, skipped, pending_requests_, stopQueued,
                     quitQueued>>
  BY DEF Start, zkVars, runVars, loopVars
<1>2. start[i] + 1 \in 0..MaxStarts
  BY <1>1, StartsAssumption DEF TypeOK
<1>3. TypeOK'
  BY <1>1, <1>2 DEF TypeOK
<1>4. \A j \in Servers : j # i => Same(j)
  BY <1>1 DEF Same, TypeOK
<1>5. pc'[i] = "connecting" /\ start'[i] = start[i] + 1
  BY <1>1 DEF TypeOK
<1>6. SessionOf(i)'
  <2>1. SessionOf(i) /\ start[i] \in Nat
    BY Numbers DEF SessionInv
  <2>. QED
    BY <1>1, <1>5, <2>1 DEF SessionOf
<1>7. at[i] = 1
  BY <1>1 DEF RegisterInv, RegisterOf
<1>8. \A n \in MethodNodes : ~Passed(i, n)'
  BY <1>1, <1>5, <1>7, NothingPassed DEF Passed, Looping
<1>9. RegisterOf(i)'
  BY <1>1, <1>5, <1>7, <1>8 DEF RegisterOf
<1>10. NoFaultOf(i)'
  BY <1>5 DEF NoFaultOf, Registering, Looping
<1>. QED
  BY <1>1, <1>3, <1>4, <1>6, <1>9, <1>10, OneMoves

\* Run gets its session, and is past no node yet.
LEMMA SessionUpIInv ==
  ASSUME IInv, NEW i \in Servers, SessionUp(i)
  PROVE  IInv'
<1>. USE DEF IInv
<1>1. /\ sessions' = [sessions EXCEPT ![i] = sessions[i] \cup {start[i]}]
      /\ pc' = [pc EXCEPT ![i] = "check"]
      /\ pc[i] = "connecting"
      /\ UNCHANGED <<created, lastCreator, owner, faults, start, at,
                     instance_paths_, skipped, pending_requests_, stopQueued,
                     quitQueued>>
  BY DEF SessionUp, runVars, loopVars
<1>2. start[i] \in 1..start[i] /\ start[i] \in Starts
  <2>1. start[i] > 0 /\ start[i] \in 0..MaxStarts /\ MaxStarts \in Nat
    BY <1>1, StartsAssumption DEF SessionInv, SessionOf, TypeOK
  <2>. QED
    BY <2>1 DEF Starts
<1>3. TypeOK'
  BY <1>1, <1>2 DEF TypeOK, Registering
<1>4. \A j \in Servers : j # i => Same(j)
  BY <1>1 DEF Same, TypeOK
<1>5. pc'[i] = "check" /\ sessions'[i] = sessions[i] \cup {start[i]}
  BY <1>1 DEF TypeOK
<1>6. SessionOf(i)'
  <2>1. SessionOf(i)
    BY DEF SessionInv
  <2>. QED
    BY <1>1, <1>2, <1>5, <2>1 DEF SessionOf
<1>7. at[i] = 1
  BY <1>1 DEF RegisterInv, RegisterOf
<1>8. \A n \in MethodNodes : ~Passed(i, n)'
  BY <1>1, <1>5, <1>7, NothingPassed DEF Passed, Looping
<1>9. RegisterOf(i)'
  BY <1>1, <1>5, <1>7, <1>8 DEF RegisterOf, Running, Registering
<1>10. NoFaultOf(i)'
  <2>1. \A n \in 1..N : ~(n < 1)
    OBVIOUS
  <2>. QED
    BY <1>1, <1>5, <1>7, <2>1 DEF NoFaultOf, Connected
<1>. QED
  BY <1>1, <1>3, <1>4, <1>6, <1>9, <1>10, OneMoves

-----------------------------------------------------------------------------
(* Run.                                                                    *)

\* Where Advance leads, and what Run is past then.
LEMMA AdvanceStep ==
  ASSUME TypeOK, NEW i \in Servers, Advance(i), pc[i] \in Registering
  PROVE  /\ \A j \in Servers : j # i => pc'[j] = pc[j] /\ at'[j] = at[j]
         /\ pc'[i] \in {"check", "serving"}
         /\ \A n \in 1..N : n < at'[i] /\ pc'[i] = "check" => n < at[i] \/ n = at[i]
         /\ \A n \in MethodNodes : Passed(i, n)' => Passed(i, n) \/ n = at[i]
<1>1. /\ at[i] \in Nat /\ \A n \in 1..N : n \in Nat /\ n <= N
      /\ \A n \in MethodNodes : n \in 1..N
  BY Numbers, NodesAssumption
<1>2. CASE at[i] = N
  <2>1. pc' = [pc EXCEPT ![i] = "serving"] /\ at' = at
    BY <1>2 DEF Advance
  <2>2. pc'[i] = "serving"
    BY <2>1 DEF TypeOK
  <2>3. \A n \in MethodNodes : n < at[i] \/ n = at[i]
    BY <1>1, <1>2
  <2>. QED
    BY <1>1, <2>1, <2>2, <2>3 DEF Passed, TypeOK
<1>3. CASE at[i] # N
  <2>1. pc' = [pc EXCEPT ![i] = "check"] /\ at' = [at EXCEPT ![i] = at[i] + 1]
    BY <1>3 DEF Advance
  <2>2. pc'[i] = "check" /\ at'[i] = at[i] + 1
    BY <2>1 DEF TypeOK
  <2>3. \A n \in 1..N : n < at'[i] => n < at[i] \/ n = at[i]
    BY <1>1, <2>2
  <2>4. \A n \in MethodNodes : Passed(i, n)' => n < at'[i]
    BY <2>2 DEF Passed, Looping
  <2>5. \A n \in MethodNodes : Passed(i, n)' => Passed(i, n) \/ n = at[i]
    BY <1>1, <2>3, <2>4 DEF Passed
  <2>6. \A j \in Servers : j # i => pc'[j] = pc[j] /\ at'[j] = at[j]
    BY <2>1 DEF TypeOK
  <2>. QED
    BY <2>2, <2>3, <2>5, <2>6
<1>. QED
  BY <1>2, <1>3

\* The return of Create from a persistent node takes Run past that node if it
\* is not a method.
LEMMA NodeDoneStep ==
  ASSUME TypeOK, NEW i \in Servers, NodeDone(i), pc[i] \in Registering
  PROVE  /\ \A j \in Servers : j # i => pc'[j] = pc[j] /\ at'[j] = at[j]
         /\ pc'[i] \in {"check", "serving", "checkInstance"}
         /\ pc'[i] = "checkInstance" => at'[i] = at[i] /\ at[i] \in MethodNodes
         /\ \A n \in 1..N : n < at'[i] /\ pc'[i] \in Registering
               => n < at[i] \/ n = at[i]
         /\ \A n \in MethodNodes : Passed(i, n)' => Passed(i, n)
<1>1. CASE at[i] \in MethodNodes
  <2>1. pc' = [pc EXCEPT ![i] = "checkInstance"] /\ at' = at
    BY <1>1 DEF NodeDone
  <2>. QED
    BY <1>1, <2>1 DEF Passed, TypeOK, Looping
<1>2. CASE at[i] \notin MethodNodes
  <2>1. Advance(i)
    BY <1>2 DEF NodeDone
  <2>. QED
    BY <1>2, <2>1, AdvanceStep DEF Registering
<1>. QED
  BY <1>1, <1>2

LEMMA CheckNodeIInv ==
  ASSUME IInv, NEW i \in Servers, CheckNode(i)
  PROVE  IInv'
<1>. USE DEF IInv
<1>1. /\ pc[i] = "check" /\ Connected(i)
      /\ UNCHANGED <<created, lastCreator, owner, sessions, faults, start,
                     instance_paths_, skipped, pending_requests_, stopQueued,
                     quitQueued>>
  BY DEF CheckNode, zkVars, loopVars
<1>2. Running(i) /\ pc[i] \in Registering
  BY <1>1 DEF Running, Registering
<1>3. SessionOf(i) /\ RegisterOf(i) /\ (faults = 0 => NoFaultOf(i))
  BY DEF SessionInv, RegisterInv, NoFaultInv
<1>4. \A n \in MethodNodes : Passed(i, n) =>
          n \in instance_paths_[i] /\ (owner[n][i] = start[i] \/ n \in skipped[i])
  BY <1>1, <1>2, <1>3 DEF RegisterOf
<1>5. Connected(i)'
  BY <1>1 DEF Connected
<1>6. CASE at[i] \in created /\ NodeDone(i)
  <2>1. TypeOK'
    BY <1>1, <1>6, NodeDoneType DEF TypeOK, States
  <2>2. /\ \A j \in Servers : j # i => pc'[j] = pc[j] /\ at'[j] = at[j]
        /\ pc'[i] \in {"check", "serving", "checkInstance"}
        /\ pc'[i] = "checkInstance" => at'[i] = at[i] /\ at[i] \in MethodNodes
        /\ \A n \in 1..N : n < at'[i] /\ pc'[i] \in Registering
              => n < at[i] \/ n = at[i]
        /\ \A n \in MethodNodes : Passed(i, n)' => Passed(i, n)
    BY <1>2, <1>6, NodeDoneStep
  <2>3. \A j \in Servers : j # i => Same(j)
    BY <1>1, <2>2 DEF Same
  <2>4. Running(i)'
    BY <2>2 DEF Running, Registering, Looping
  <2>5. SessionOf(i)'
    BY <1>1, <1>2, <1>3, <1>5, <2>2 DEF SessionOf
  <2>6. RegisterOf(i)'
    BY <1>1, <1>4, <2>2, <2>4 DEF RegisterOf
  <2>7. faults = 0 => NoFaultOf(i)'
    BY <1>1, <1>2, <1>3, <1>5, <1>6, <2>2 DEF NoFaultOf
  <2>. QED
    BY <1>1, <2>1, <2>3, <2>5, <2>6, <2>7, OneMoves
<1>7. CASE /\ at[i] \notin created
           /\ pc' = [pc EXCEPT ![i] = "create"]
           /\ UNCHANGED at
  <2>1. TypeOK'
    BY <1>1, <1>7 DEF TypeOK, Registering
  <2>2. pc'[i] = "create" /\ \A j \in Servers : j # i => pc'[j] = pc[j]
    BY <1>7 DEF TypeOK
  <2>3. \A j \in Servers : j # i => Same(j)
    BY <1>1, <1>7, <2>2 DEF Same
  <2>4. Running(i)' /\ pc'[i] \in Registering /\ pc'[i] \notin Looping
    BY <2>2 DEF Running, Registering, Looping
  <2>5. SessionOf(i)'
    BY <1>1, <1>2, <1>3, <1>5, <2>2 DEF SessionOf
  <2>6. RegisterOf(i)'
    BY <1>1, <1>4, <1>7, <2>2, <2>4 DEF RegisterOf, Passed
  <2>7. faults = 0 => NoFaultOf(i)'
    BY <1>1, <1>2, <1>3, <1>5, <1>7, <2>2 DEF NoFaultOf
  <2>. QED
    BY <1>1, <2>1, <2>3, <2>5, <2>6, <2>7, OneMoves
<1>. QED
  BY <1>6, <1>7 DEF CheckNode

\* The process is gone.  What the invariant asks of it then depends on how,
\* and on its nodes and sessions.
LEMMA GoneStep ==
  ASSUME TypeOK, NEW i \in Servers,
         NEW how \in {"exited", "crashed", "ended"}, Gone(i, how)
  PROVE  /\ \A j \in Servers : j # i =>
               /\ pc'[j] = pc[j]
               /\ at'[j] = at[j]
               /\ instance_paths_'[j] = instance_paths_[j]
               /\ skipped'[j] = skipped[j]
         /\ pc'[i] = how
         /\ ~Running(i)'
         /\ RegisterOf(i)'
<1>1. /\ pc' = [pc EXCEPT ![i] = how]
      /\ at' = [at EXCEPT ![i] = 1]
      /\ instance_paths_' = [instance_paths_ EXCEPT ![i] = {}]
      /\ skipped' = [skipped EXCEPT ![i] = {}]
  BY DEF Gone
<1>2. pc'[i] = how /\ at'[i] = 1
  BY <1>1 DEF TypeOK
<1>3. how \notin Registering /\ how \notin Looping
  BY DEF Registering, Looping
<1>4. ~Running(i)'
  BY <1>2, <1>3 DEF Running
<1>5. RegisterOf(i)'
  BY <1>2, <1>4 DEF RegisterOf
<1>. QED
  BY <1>1, <1>2, <1>4, <1>5 DEF TypeOK

\* exit, with the nodes and the session left as they are.
LEMMA ExitKeeps ==
  ASSUME IInv, NEW i \in Servers, Exit(i), Running(i),
         UNCHANGED <<created, lastCreator, owner, sessions, start>>,
         \/ UNCHANGED faults /\ (faults = 0 => lastCreator \notin {i, NoServer})
         \/ faults' \in 0..MaxFaults /\ faults' # 0
  PROVE  IInv'
<1>. USE DEF IInv
<1>1. Gone(i, "exited")
  BY DEF Exit
<1>2. /\ \A j \in Servers : j # i =>
               /\ pc'[j] = pc[j]
               /\ at'[j] = at[j]
               /\ instance_paths_'[j] = instance_paths_[j]
               /\ skipped'[j] = skipped[j]
      /\ pc'[i] = "exited"
      /\ ~Running(i)'
      /\ RegisterOf(i)'
  BY <1>1, GoneStep
<1>3. TypeOK'
  BY <1>1, GoneType DEF TypeOK, States
<1>4. \A j \in Servers : j # i => Same(j)
  BY <1>2 DEF Same
<1>5. SessionOf(i)'
  <2>1. SessionOf(i) /\ pc[i] # "off"
    BY DEF SessionInv, Running, Registering, Looping
  <2>. QED
    BY <1>2, <2>1 DEF SessionOf
<1>6. UNCHANGED faults /\ faults = 0 => NoFaultOf(i)'
  BY <1>2 DEF NoFaultOf, Registering, Looping
<1>. QED
  BY <1>2, <1>3, <1>4, <1>5, <1>6, OneMoves

\* zoo_create of a persistent node.
LEMMA CreateNodeIInv ==
  ASSUME IInv, NEW i \in Servers, CreateNode(i)
  PROVE  IInv'
<1>. USE DEF IInv
<1>1. /\ pc[i] = "create" /\ Connected(i)
      /\ UNCHANGED <<owner, sessions, faults, start>>
  BY DEF CreateNode
<1>2. Running(i) /\ pc[i] \in Registering
  BY <1>1 DEF Running, Registering
<1>3. SessionOf(i) /\ RegisterOf(i) /\ (faults = 0 => NoFaultOf(i))
  BY DEF SessionInv, RegisterInv, NoFaultInv
<1>4. CASE /\ at[i] \in created \/ ~HasParent(at[i])
           /\ Exit(i)
           /\ UNCHANGED <<created, lastCreator>>
  <2>1. faults = 0 => HasParent(at[i])
    <3>. SUFFICES ASSUME faults = 0, at[i] \in MethodNodes
                  PROVE  ServiceOf[at[i]] \in created
      BY DEF HasParent
    <3>1. ServiceOf[at[i]] \in 1..(at[i] - 1) /\ at[i] \in 1..N /\ N \in Nat
      BY NodesAssumption
    <3>2. ServiceOf[at[i]] \in 1..N /\ ServiceOf[at[i]] < at[i]
      BY <3>1
    <3>. QED
      BY <1>2, <1>3, <3>2 DEF NoFaultOf
  <2>2. faults = 0 => lastCreator \notin {i, NoServer}
    BY <1>1, <1>3, <1>4, <2>1 DEF NoFaultOf
  <2>. QED
    BY <1>1, <1>2, <1>4, <2>2, ExitKeeps
<1>5. CASE /\ at[i] \notin created
           /\ created' = created \cup {at[i]}
           /\ lastCreator' = i
           /\ NodeDone(i)
           /\ UNCHANGED <<instance_paths_, skipped, pending_requests_,
                          stopQueued, quitQueued>>
  <2>1. TypeOK'
    BY <1>1, <1>5, NodeDoneType DEF TypeOK, States
  <2>2. /\ \A j \in Servers : j # i => pc'[j] = pc[j] /\ at'[j] = at[j]
        /\ pc'[i] \in {"check", "serving", "checkInstance"}
        /\ pc'[i] = "checkInstance" => at'[i] = at[i] /\ at[i] \in MethodNodes
        /\ \A n \in 1..N : n < at'[i] /\ pc'[i] \in Registering
              => n < at[i] \/ n = at[i]
        /\ \A n \in MethodNodes : Passed(i, n)' => Passed(i, n)
    BY <1>2, <1>5, NodeDoneStep
  <2>3. Connected(i)' /\ Running(i)'
    BY <1>1, <2>2 DEF Connected, Running, Registering, Looping
  <2>4. SessionOf(i)'
    BY <1>1, <1>2, <1>3, <2>2, <2>3 DEF SessionOf
  <2>5. RegisterOf(i)'
    <3>1. \A n \in MethodNodes : Passed(i, n) =>
            n \in instance_paths_[i] /\ (owner[n][i] = start[i] \/ n \in skipped[i])
      BY <1>1, <1>2, <1>3 DEF RegisterOf
    <3>. QED
      BY <1>1, <1>5, <2>2, <2>3, <3>1 DEF RegisterOf
  <2>6. \A j \in Servers : j # i => Same(j)
    BY <1>1, <1>5, <2>2 DEF Same
  <2>7. SessionInv' /\ RegisterInv'
    BY <2>4, <2>5, <2>6, SameKeeps DEF SessionInv, RegisterInv
  <2>8. NoFaultInv'
    <3>. SUFFICES ASSUME faults = 0, NEW j \in Servers PROVE NoFaultOf(j)'
      BY <1>1 DEF NoFaultInv
    <3>1. CASE j = i
      BY <1>2, <1>3, <1>5, <2>2, <2>3, <3>1 DEF NoFaultOf
    <3>2. CASE j # i
      <4>1. /\ NoFaultOf(j)
            /\ pc'[j] = pc[j] /\ at'[j] = at[j]
            /\ Connected(j)' = Connected(j) /\ Running(j)' = Running(j)
        BY <1>1, <2>6, <3>2 DEF NoFaultInv, Same, Connected, Running
      <4>2. lastCreator' \notin {j, NoServer}
        BY <1>5, <3>2, ServerAssumption
      <4>. QED
        BY <1>5, <4>1, <4>2 DEF NoFaultOf
    <3>. QED
      BY <3>1, <3>2
  <2>. QED
    BY <2>1, <2>7, <2>8
<1>. QED
  BY <1>4, <1>5 DEF CreateNode, loopVars

\* Create returned from the instance node of the method at[i], which is now
\* there or skipped.
LEMMA InstanceDoneKeeps ==
  ASSUME IInv, NEW i \in Servers, InstanceDone(i),
         pc[i] \in {"checkInstance", "createInstance"},
         TypeOK',
         UNCHANGED <<created, lastCreator, sessions, start>>,
         \A n \in MethodNodes, j \in Servers : j # i => owner'[n][j] = owner[n][j],
         \A n \in MethodNodes :
            n # at[i] => owner'[n][i] = owner[n][i],
         \A j \in Servers : j # i => skipped'[j] = skipped[j],
         skipped[i] \subseteq skipped'[i],
         owner'[at[i]][i] # 0 => owner'[at[i]][i] \in sessions[i],
         Connected(i) => owner'[at[i]][i] = start[i] \/ at[i] \in skipped'[i],
         UNCHANGED faults \/ faults' # 0
  PROVE  IInv'
<1>. USE DEF IInv
<1>1. pc[i] \in Registering /\ Running(i)
  BY DEF Registering, Running
<1>2. SessionOf(i) /\ RegisterOf(i) /\ (faults = 0 => NoFaultOf(i))
  BY DEF SessionInv, RegisterInv, NoFaultInv
<1>3. at[i] \in MethodNodes
  BY <1>2 DEF RegisterOf
<1>4. /\ \A j \in Servers : j # i => pc'[j] = pc[j] /\ at'[j] = at[j]
      /\ pc'[i] \in {"check", "serving"}
      /\ \A n \in 1..N : n < at'[i] /\ pc'[i] = "check" => n < at[i] \/ n = at[i]
      /\ \A n \in MethodNodes : Passed(i, n)' => Passed(i, n) \/ n = at[i]
  BY <1>1, AdvanceStep DEF InstanceDone
<1>5. /\ instance_paths_'[i] = instance_paths_[i] \cup {at[i]}
      /\ \A j \in Servers : j # i => instance_paths_'[j] = instance_paths_[j]
  BY DEF InstanceDone, TypeOK
<1>6. \A j \in Servers : j # i => Same(j)
  BY <1>4, <1>5 DEF Same
<1>7. Connected(i)' = Connected(i) /\ Running(i)'
  BY <1>4 DEF Connected, Running, Registering, Looping
<1>8. SessionOf(i)'
  <2>1. \A n \in MethodNodes : owner'[n][i] # 0 => owner'[n][i] \in sessions[i]
    BY <1>2 DEF SessionOf
  <2>. QED
    BY <1>1, <1>2, <1>4, <2>1 DEF SessionOf
<1>9. RegisterOf(i)'
  <2>1. SUFFICES ASSUME NEW n \in MethodNodes, Passed(i, n)'
                 PROVE  /\ n \in instance_paths_'[i]
                        /\ Connected(i) => owner'[n][i] = start[i] \/ n \in skipped'[i]
    BY <1>4, <1>7 DEF RegisterOf
  <2>2. CASE n = at[i]
    BY <1>5, <2>2
  <2>3. CASE n # at[i]
    BY <1>1, <1>2, <1>4, <1>5, <2>1, <2>3 DEF RegisterOf
  <2>. QED
    BY <2>2, <2>3
<1>10. UNCHANGED faults /\ faults = 0 => NoFaultOf(i)'
  <2>. SUFFICES ASSUME UNCHANGED faults, faults = 0 PROVE NoFaultOf(i)'
    OBVIOUS
  <2>1. NoFaultOf(i) /\ Connected(i)'
    BY <1>1, <1>2, <1>7 DEF NoFaultOf
  <2>2. at[i] \in created /\ \A n \in 1..N : n < at[i] => n \in created
    BY <1>1, <2>1 DEF NoFaultOf
  <2>3. pc'[i] \in Registering => pc'[i] = "check"
    BY <1>4 DEF Registering
  <2>. QED
    BY <1>4, <2>1, <2>2, <2>3 DEF NoFaultOf
<1>. QED
  BY <1>6, <1>8, <1>9, <1>10, OneMoves

LEMMA CheckInstanceIInv ==
  ASSUME IInv, NEW i \in Servers, CheckInstance(i)
  PROVE  IInv'
<1>. USE DEF IInv
<1>1. /\ pc[i] = "checkInstance" /\ Connected(i)
      /\ UNCHANGED <<created, lastCreator, owner, sessions, faults, start,
                     pending_requests_, stopQueued, quitQueued>>
  BY DEF CheckInstance, zkVars, loopVars
<1>2. Running(i) /\ pc[i] \in Registering
  BY <1>1 DEF Running, Registering
<1>3. SessionOf(i) /\ RegisterOf(i) /\ (faults = 0 => NoFaultOf(i))
  BY DEF SessionInv, RegisterInv, NoFaultInv
<1>4. at[i] \in MethodNodes
  BY <1>1, <1>3 DEF RegisterOf
<1>5. CASE /\ owner[at[i]][i] # 0
           /\ skipped' = [skipped EXCEPT ![i] = skipped[i] \cup {at[i]}]
           /\ InstanceDone(i)
  <2>1. TypeOK'
    BY <1>1, <1>4, <1>5, InstanceDoneType DEF TypeOK, States
  <2>2. /\ skipped'[i] = skipped[i] \cup {at[i]}
        /\ \A j \in Servers : j # i => skipped'[j] = skipped[j]
    BY <1>5 DEF TypeOK
  <2>3. owner[at[i]][i] # 0 => owner[at[i]][i] \in sessions[i]
    BY <1>3, <1>4 DEF SessionOf
  <2>. QED
    BY <1>1, <1>5, <2>1, <2>2, <2>3, InstanceDoneKeeps
<1>6. CASE /\ owner[at[i]][i] = 0
           /\ pc' = [pc EXCEPT ![i] = "createInstance"]
           /\ UNCHANGED <<at, skipped, instance_paths_>>
  <2>1. TypeOK'
    BY <1>1, <1>6 DEF TypeOK, Registering
  <2>2. pc'[i] = "createInstance" /\ \A j \in Servers : j # i => pc'[j] = pc[j]
    BY <1>6 DEF TypeOK
  <2>3. \A j \in Servers : j # i => Same(j)
    BY <1>1, <1>6, <2>2 DEF Same
  <2>4. /\ Running(i)' /\ Connected(i)'
        /\ pc[i] \notin Looping /\ pc'[i] \notin Looping
    BY <1>1, <2>2 DEF Running, Connected, Registering, Looping
  <2>5. SessionOf(i)'
    BY <1>1, <1>2, <1>3, <2>2, <2>4 DEF SessionOf
  <2>6. RegisterOf(i)'
    BY <1>1, <1>2, <1>3, <1>4, <1>6, <2>2, <2>4 DEF RegisterOf, Passed
  <2>7. faults = 0 => NoFaultOf(i)'
    BY <1>1, <1>2, <1>3, <1>6, <2>2, <2>4 DEF NoFaultOf
  <2>. QED
    BY <1>1, <2>1, <2>3, <2>5, <2>6, <2>7, OneMoves
<1>. QED
  BY <1>5, <1>6 DEF CheckInstance

LEMMA CreateInstanceIInv ==
  ASSUME IInv, NEW i \in Servers, CreateInstance(i)
  PROVE  IInv'
<1>. USE DEF IInv
<1>1. /\ pc[i] = "createInstance" /\ Connected(i)
      /\ UNCHANGED <<created, lastCreator, sessions, faults, start>>
  BY DEF CreateInstance
<1>2. Running(i) /\ pc[i] \in Registering
  BY <1>1 DEF Running, Registering
<1>3. SessionOf(i) /\ RegisterOf(i) /\ (faults = 0 => NoFaultOf(i))
  BY DEF SessionInv, RegisterInv, NoFaultInv
<1>4. at[i] \in MethodNodes
  BY <1>1, <1>3 DEF RegisterOf
<1>5. CASE /\ owner' = [owner EXCEPT ![at[i]][i] = start[i]]
           /\ InstanceDone(i)
           /\ UNCHANGED <<skipped, pending_requests_, stopQueued, quitQueued>>
  <2>1. start[i] \in 0..MaxStarts
    BY DEF TypeOK
  <2>2. owner' \in [MethodNodes -> [Servers -> 0..MaxStarts]]
    BY <1>4, <1>5, <2>1 DEF TypeOK
  <2>3. TypeOK'
    BY <1>1, <1>4, <1>5, <2>2, InstanceDoneType DEF TypeOK, States
  <2>4. /\ owner'[at[i]][i] = start[i]
        /\ \A n \in MethodNodes, j \in Servers : j # i => owner'[n][j] = owner[n][j]
        /\ \A n \in MethodNodes : n # at[i] => owner'[n][i] = owner[n][i]
    BY <1>4, <1>5 DEF TypeOK
  <2>5. start[i] \in sessions[i]
    BY <1>1 DEF Connected
  <2>. QED
    BY <1>1, <1>5, <2>3, <2>4, <2>5, InstanceDoneKeeps
<1>6. CASE /\ at[i] \notin created
           /\ Exit(i)
           /\ UNCHANGED owner
  <2>1. faults # 0
    BY <1>1, <1>3, <1>6 DEF NoFaultOf
  <2>. QED
    BY <1>1, <1>2, <1>6, <2>1, ExitKeeps
<1>. QED
  BY <1>5, <1>6 DEF CreateInstance, loopVars

\* A call that fails is a fault, unless one was there before.
LEMMA CallFailsFault ==
  ASSUME IInv, NEW i \in Servers, CallFails(i), pc[i] \in Registering
  PROVE  faults' \in 0..MaxFaults /\ faults' # 0
<1>1. faults \in 0..MaxFaults /\ MaxFaults \in Nat
  BY FaultsAssumption DEF IInv, TypeOK
<1>2. CASE ~Connected(i) /\ UNCHANGED faults
  <2>1. faults # 0
    BY <1>2 DEF IInv, NoFaultInv, NoFaultOf
  <2>. QED
    BY <1>1, <1>2, <2>1
<1>3. CASE faults < MaxFaults /\ faults' = faults + 1
  BY <1>1, <1>3
<1>. QED
  BY <1>2, <1>3 DEF CallFails

LEMMA CheckFailsIInv ==
  ASSUME IInv, NEW i \in Servers, CheckFails(i)
  PROVE  IInv'
<1>. USE DEF IInv
<1>1. /\ pc[i] \in {"check", "checkInstance"}
      /\ UNCHANGED <<created, lastCreator, owner, sessions, start,
                     pending_requests_, stopQueued, quitQueued>>
  BY DEF CheckFails, zkVars, loopVars
<1>2. Running(i) /\ pc[i] \in Registering
  BY <1>1 DEF Running, Registering
<1>3. SessionOf(i) /\ RegisterOf(i)
  BY DEF SessionInv, RegisterInv
<1>4. faults' \in 0..MaxFaults /\ faults' # 0
  BY <1>2, CallFailsFault DEF CheckFails
<1>5. CASE pc[i] = "check" /\ NodeDone(i) /\ UNCHANGED <<skipped, instance_paths_>>
  <2>1. TypeOK'
    BY <1>1, <1>4, <1>5, NodeDoneType DEF TypeOK, States
  <2>2. /\ \A j \in Servers : j # i => pc'[j] = pc[j] /\ at'[j] = at[j]
        /\ pc'[i] \in {"check", "serving", "checkInstance"}
        /\ pc'[i] = "checkInstance" => at'[i] = at[i] /\ at[i] \in MethodNodes
        /\ \A n \in MethodNodes : Passed(i, n)' => Passed(i, n)
    BY <1>2, <1>5, NodeDoneStep
  <2>3. \A j \in Servers : j # i => Same(j)
    BY <1>1, <1>5, <2>2 DEF Same
  <2>4. Running(i)' /\ Connected(i)' = Connected(i)
    BY <1>1, <2>2 DEF Running, Connected, Registering, Looping
  <2>5. SessionOf(i)'
    BY <1>1, <1>2, <1>3, <2>2, <2>4 DEF SessionOf
  <2>6. RegisterOf(i)'
    BY <1>1, <1>2, <1>3, <1>5, <2>2, <2>4 DEF RegisterOf
  <2>. QED
    BY <1>4, <2>1, <2>3, <2>5, <2>6, OneMoves
<1>6. CASE /\ pc[i] = "checkInstance"
           /\ skipped' = [skipped EXCEPT ![i] = skipped[i] \cup {at[i]}]
           /\ InstanceDone(i)
  <2>1. at[i] \in MethodNodes
    BY <1>3, <1>6 DEF RegisterOf
  <2>2. TypeOK'
    BY <1>1, <1>4, <1>6, <2>1, InstanceDoneType DEF TypeOK, States
  <2>3. /\ skipped'[i] = skipped[i] \cup {at[i]}
        /\ \A j \in Servers : j # i => skipped'[j] = skipped[j]
    BY <1>6 DEF TypeOK
  <2>4. owner[at[i]][i] # 0 => owner[at[i]][i] \in sessions[i]
    BY <1>3, <2>1 DEF SessionOf
  <2>. QED
    BY <1>1, <1>4, <1>6, <2>2, <2>3, <2>4, InstanceDoneKeeps
<1>. QED
  BY <1>5, <1>6 DEF CheckFails

LEMMA CreateFailsIInv ==
  ASSUME IInv, NEW i \in Servers, CreateFails(i)
  PROVE  IInv'
<1>1. /\ pc[i] \in {"create", "createInstance"} /\ Exit(i) /\ CallFails(i)
      /\ UNCHANGED <<created, lastCreator, owner, sessions, start>>
  BY DEF CreateFails, zkVars
<1>2. Running(i)
  BY <1>1 DEF Running, Registering
<1>3. faults' \in 0..MaxFaults /\ faults' # 0
  <2>1. pc[i] \in Registering
    BY <1>1 DEF Registering
  <2>. QED
    BY <1>1, <2>1, CallFailsFault
<1>. QED
  BY <1>1, <1>2, <1>3, ExitKeeps

\* zookeeper_init fails before there is anything to lose.
LEMMA InitFailsIInv ==
  ASSUME IInv, NEW i \in Servers, InitFails(i)
  PROVE  IInv'
<1>1. /\ pc[i] = "connecting" /\ Exit(i)
      /\ faults < MaxFaults /\ faults' = faults + 1
      /\ UNCHANGED <<created, lastCreator, owner, sessions, start>>
  BY DEF InitFails, zkVars
<1>2. Running(i)
  BY <1>1 DEF Running
<1>3. faults' \in 0..MaxFaults /\ faults' # 0
  BY <1>1, FaultsAssumption DEF IInv, TypeOK
<1>. QED
  BY <1>1, <1>2, <1>3, ExitKeeps

-----------------------------------------------------------------------------
(* Sessions.                                                               *)

\* A session that is closed takes its nodes along and no others.
LEMMA CloseSessionStep ==
  ASSUME TypeOK, NEW i \in Servers, NEW s \in Starts, CloseSession(i, s)
  PROVE  /\ sessions' \in [Servers -> SUBSET Starts]
         /\ owner' \in [MethodNodes -> [Servers -> 0..MaxStarts]]
         /\ sessions'[i] = sessions[i] \ {s}
         /\ \A j \in Servers : j # i => sessions'[j] = sessions[j]
         /\ \A n \in MethodNodes, j \in Servers : j # i => owner'[n][j] = owner[n][j]
         /\ \A n \in MethodNodes :
               owner'[n][i] = IF owner[n][i] = s THEN 0 ELSE owner[n][i]
<1>1. sessions' = [sessions EXCEPT ![i] = sessions[i] \ {s}]
  BY DEF CloseSession
<1>2. owner' = [n \in MethodNodes |-> [owner[n] EXCEPT
                   ![i] = IF owner[n][i] = s THEN 0 ELSE owner[n][i]]]
  BY DEF CloseSession
<1>3. \A n \in MethodNodes : owner[n] \in [Servers -> 0..MaxStarts]
  BY DEF TypeOK
<1>4. 0 \in 0..MaxStarts
  BY StartsAssumption
<1>5. /\ \A n \in MethodNodes, j \in Servers : j # i => owner'[n][j] = owner[n][j]
      /\ \A n \in MethodNodes :
            owner'[n][i] = IF owner[n][i] = s THEN 0 ELSE owner[n][i]
  BY <1>2, <1>3
<1>6. owner' \in [MethodNodes -> [Servers -> 0..MaxStarts]]
  <2>1. \A n \in MethodNodes : [owner[n] EXCEPT ![i] =
            IF owner[n][i] = s THEN 0 ELSE owner[n][i]] \in [Servers -> 0..MaxStarts]
    BY <1>3, <1>4
  <2>. QED
    BY <1>2, <2>1
<1>7. /\ sessions' \in [Servers -> SUBSET Starts]
      /\ sessions'[i] = sessions[i] \ {s}
      /\ \A j \in Servers : j # i => sessions'[j] = sessions[j]
  BY <1>1 DEF TypeOK
<1>. QED
  BY <1>5, <1>6, <1>7

\* What the invariant says of nodes and sessions survives it.
LEMMA CloseSessionKeeps ==
  ASSUME IInv, NEW i \in Servers, NEW s \in Starts, CloseSession(i, s),
         UNCHANGED <<start, pc, at, instance_paths_, skipped>>
  PROVE  /\ \A j \in Servers : j # i => Same(j)
         /\ SessionOf(i)'
         /\ RegisterOf(i)'
<1>1. /\ sessions'[i] = sessions[i] \ {s}
      /\ \A j \in Servers : j # i => sessions'[j] = sessions[j]
      /\ \A n \in MethodNodes, j \in Servers : j # i => owner'[n][j] = owner[n][j]
      /\ \A n \in MethodNodes :
            owner'[n][i] = IF owner[n][i] = s THEN 0 ELSE owner[n][i]
  BY CloseSessionStep DEF IInv
<1>2. SessionOf(i) /\ RegisterOf(i)
  BY DEF IInv, SessionInv, RegisterInv
<1>3. \A j \in Servers : j # i => Same(j)
  BY <1>1 DEF Same
<1>4. /\ Running(i)' = Running(i)
      /\ Connected(i)' => Connected(i) /\ start[i] # s
      /\ \A n \in MethodNodes : Passed(i, n)' = Passed(i, n)
  BY <1>1 DEF Running, Connected, Passed
<1>5. SessionOf(i)'
  BY <1>1, <1>2, <1>4 DEF SessionOf
<1>6. pc[i] = "createInstance" => owner'[at[i]][i] = 0
  BY <1>1, <1>2 DEF RegisterOf
<1>7. RegisterOf(i)'
  BY <1>1, <1>2, <1>4, <1>6 DEF RegisterOf
<1>. QED
  BY <1>3, <1>5, <1>7

LEMMA ExpireIInv ==
  ASSUME IInv, NEW i \in Servers, NEW s \in Starts, Expire(i, s)
  PROVE  IInv'
<1>. USE DEF IInv
<1>1. /\ s # start[i] \/ ~Running(i)
      /\ CloseSession(i, s)
      /\ UNCHANGED <<created, lastCreator, faults, start, pc, at,
                     instance_paths_, skipped, pending_requests_, stopQueued,
                     quitQueued>>
  BY DEF Expire, runVars, loopVars
<1>2. TypeOK'
  BY <1>1, CloseSessionStep DEF TypeOK
<1>3. /\ \A j \in Servers : j # i => Same(j)
      /\ SessionOf(i)'
      /\ RegisterOf(i)'
  BY <1>1, CloseSessionKeeps
<1>4. faults = 0 => NoFaultOf(i)'
  <2>1. sessions'[i] = sessions[i] \ {s}
    BY <1>1, CloseSessionStep
  <2>2. pc[i] \in Registering \cup Looping /\ Connected(i) => Connected(i)'
    BY <1>1, <2>1 DEF Running, Connected
  <2>. QED
    BY <1>1, <2>2 DEF NoFaultInv, NoFaultOf
<1>. QED
  BY <1>1, <1>2, <1>3, <1>4, OneMoves

LEMMA LoseSessionIInv ==
  ASSUME IInv, NEW i \in Servers, LoseSession(i)
  PROVE  IInv'
<1>. USE DEF IInv
<1>1. /\ faults < MaxFaults /\ faults' = faults + 1
      /\ Connected(i)
      /\ CloseSession(i, start[i])
      /\ UNCHANGED <<created, lastCreator, start, pc, at, instance_paths_,
                     skipped, pending_requests_, stopQueued, quitQueued>>
  BY DEF LoseSession, runVars, loopVars
<1>2. start[i] \in Starts
  BY <1>1 DEF Connected, TypeOK
<1>3. faults' \in 0..MaxFaults /\ faults' # 0
  BY <1>1, FaultsAssumption DEF TypeOK
<1>4. TypeOK'
  BY <1>1, <1>2, <1>3, CloseSessionStep DEF TypeOK
<1>5. /\ \A j \in Servers : j # i => Same(j)
      /\ SessionOf(i)'
      /\ RegisterOf(i)'
  BY <1>1, <1>2, CloseSessionKeeps
<1>. QED
  BY <1>3, <1>4, <1>5, OneMoves

LEMMA CrashIInv ==
  ASSUME IInv, NEW i \in Servers, Crash(i)
  PROVE  IInv'
<1>. USE DEF IInv
<1>1. /\ faults < MaxFaults /\ faults' = faults + 1
      /\ Gone(i, "crashed")
      /\ UNCHANGED <<created, lastCreator, owner, sessions, start>>
  BY DEF Crash, zkVars
<1>2. faults' \in 0..MaxFaults /\ faults' # 0
  BY <1>1, FaultsAssumption DEF TypeOK
<1>3. TypeOK'
  BY <1>1, <1>2, GoneType DEF TypeOK, States
<1>4. /\ \A j \in Servers : j # i =>
               /\ pc'[j] = pc[j]
               /\ at'[j] = at[j]
               /\ instance_paths_'[j] = instance_paths_[j]
               /\ skipped'[j] = skipped[j]
      /\ pc'[i] = "crashed"
      /\ ~Running(i)'
      /\ RegisterOf(i)'
  BY <1>1, GoneStep
<1>5. \A j \in Servers : j # i => Same(j)
  BY <1>1, <1>4 DEF Same
<1>6. SessionOf(i)'
  <2>1. SessionOf(i) /\ pc[i] # "off"
    BY DEF Crash, SessionInv, Running, Registering, Looping
  <2>. QED
    BY <1>1, <1>4, <2>1 DEF SessionOf
<1>. QED
  BY <1>2, <1>3, <1>4, <1>5, <1>6, OneMoves

-----------------------------------------------------------------------------
(* The loop.                                                               *)

\* A step of the loop, or a signal, that leaves where Run is.
LEMMA LoopKeeps ==
  ASSUME IInv, TypeOK', NEW i \in Servers,
         UNCHANGED <<created, lastCreator, owner, sessions, faults, start, at,
                     instance_paths_, skipped>>,
         \/ UNCHANGED pc
         \/ /\ pc[i] \in Looping
            /\ \E p \in Looping : pc' = [pc EXCEPT ![i] = p]
  PROVE  IInv'
<1>. USE DEF IInv
<1>1. \A j \in Servers : /\ j # i => pc'[j] = pc[j]
                         /\ \/ pc'[j] = pc[j]
                            \/ pc[j] \in Looping /\ pc'[j] \in Looping
  <2>1. CASE UNCHANGED pc
    BY <2>1
  <2>2. CASE pc[i] \in Looping /\ \E p \in Looping : pc' = [pc EXCEPT ![i] = p]
    <3>1. PICK p \in Looping : pc' = [pc EXCEPT ![i] = p]
      BY <2>2
    <3>. QED
      BY <2>2, <3>1 DEF TypeOK
  <2>. QED
    BY <2>1, <2>2
<1>2. \A j \in Servers : j # i => Same(j)
  BY <1>1 DEF Same
<1>3. SessionOf(i) /\ RegisterOf(i) /\ (faults = 0 => NoFaultOf(i))
  BY DEF SessionInv, RegisterInv, NoFaultInv
<1>4. Running(i)' = Running(i) /\ Connected(i)' = Connected(i)
  BY <1>1 DEF Running, Connected
<1>5. \A n \in MethodNodes : Passed(i, n)' = Passed(i, n)
  BY <1>1 DEF Passed
<1>6. CASE pc'[i] = pc[i]
  <2>1. Same(i)
    BY <1>6 DEF Same
  <2>. QED
    BY <1>2, <1>3, <2>1, SameKeeps, SameKeepsNoFault, OneMoves
<1>7. CASE pc[i] \in Looping /\ pc'[i] \in Looping
  <2>1. /\ pc'[i] \notin Registering /\ pc'[i] # "ended" /\ pc'[i] # "exited"
        /\ pc[i] # "off" /\ pc'[i] # "connecting"
        /\ pc'[i] \notin {"create", "checkInstance", "createInstance"}
    BY <1>7 DEF Looping, Registering
  <2>2. SessionOf(i)'
    BY <1>3, <1>4, <2>1 DEF SessionOf
  <2>3. RegisterOf(i)'
    BY <1>3, <1>4, <1>5, <2>1 DEF RegisterOf
  <2>4. faults = 0 => NoFaultOf(i)'
    BY <1>3, <1>4, <2>1 DEF NoFaultOf
  <2>. QED
    BY <1>2, <2>2, <2>3, <2>4, OneMoves
<1>. QED
  BY <1>1, <1>6, <1>7

LEMMA OnConnectionUpIInv ==
  ASSUME IInv, NEW i \in Servers, OnConnectionUp(i)
  PROVE  IInv'
<1>1. /\ pending_requests_[i] < MaxConns
      /\ pending_requests_' =
            [pending_requests_ EXCEPT ![i] = pending_requests_[i] + 1]
      /\ UNCHANGED <<created, lastCreator, owner, sessions, faults, start, at,
                     instance_paths_, skipped, pc, stopQueued, quitQueued>>
  BY DEF OnConnectionUp, zkVars, runVars
<1>2. pending_requests_[i] + 1 \in 0..MaxConns
  BY <1>1, ConnsAssumption DEF IInv, TypeOK
<1>3. TypeOK'
  BY <1>1, <1>2 DEF IInv, TypeOK
<1>. QED
  BY <1>1, <1>3, LoopKeeps

LEMMA OnConnectionDownIInv ==
  ASSUME IInv, NEW i \in Servers, OnConnectionDown(i)
  PROVE  IInv'
<1>1. /\ pending_requests_[i] > 0
      /\ pending_requests_' =
            [pending_requests_ EXCEPT ![i] = pending_requests_[i] - 1]
      /\ UNCHANGED <<created, lastCreator, owner, sessions, faults, start, at,
                     instance_paths_, skipped, pc, stopQueued, quitQueued>>
  BY DEF OnConnectionDown, zkVars, runVars
<1>2. pending_requests_[i] - 1 \in 0..MaxConns
  BY <1>1, ConnsAssumption DEF IInv, TypeOK
<1>3. TypeOK'
  BY <1>1, <1>2 DEF IInv, TypeOK
<1>. QED
  BY <1>1, <1>3, LoopKeeps

LEMMA SignalIInv ==
  ASSUME IInv, NEW i \in Servers, SigInt(i) \/ SigTerm(i)
  PROVE  IInv'
<1>1. UNCHANGED <<created, lastCreator, owner, sessions, faults, start, at,
                  instance_paths_, skipped, pc>>
  BY DEF SigInt, SigTerm, zkVars, runVars
<1>2. TypeOK'
  BY DEF IInv, TypeOK, SigInt, SigTerm, zkVars, runVars
<1>. QED
  BY <1>1, <1>2, LoopKeeps

LEMMA StopFunctorIInv ==
  ASSUME IInv, NEW i \in Servers, StopFunctor(i)
  PROVE  IInv'
<1>1. /\ pc[i] = "serving"
      /\ UNCHANGED <<created, lastCreator, owner, sessions, faults, start, at,
                     instance_paths_, skipped, pending_requests_>>
      /\ stopQueued' = [stopQueued EXCEPT ![i] = FALSE]
      /\ \/ quitQueued' = [quitQueued EXCEPT ![i] = TRUE]
         \/ UNCHANGED quitQueued
  BY DEF StopFunctor, zkVars, runVars
<1>2. PICK p \in {"closing", "draining"} : pc' = [pc EXCEPT ![i] = p]
  BY DEF StopFunctor
<1>3. p \in Looping /\ pc[i] \in Looping
  BY <1>1 DEF Looping
<1>4. TypeOK'
  BY <1>1, <1>2, <1>3 DEF IInv, TypeOK
<1>. QED
  BY <1>1, <1>2, <1>3, <1>4, LoopKeeps

LEMMA SleepOverIInv ==
  ASSUME IInv, NEW i \in Servers, SleepOver(i)
  PROVE  IInv'
<1>1. /\ pc[i] = "draining" /\ pc' = [pc EXCEPT ![i] = "closing"]
      /\ UNCHANGED <<created, lastCreator, owner, sessions, faults, start, at,
                     instance_paths_, skipped, pending_requests_, stopQueued>>
      /\ quitQueued' = [quitQueued EXCEPT ![i] = TRUE]
  BY DEF SleepOver, zkVars, runVars
<1>2. pc[i] \in Looping /\ "closing" \in Looping
  BY <1>1 DEF Looping
<1>3. TypeOK'
  BY <1>1, <1>2 DEF IInv, TypeOK
<1>. QED
  BY <1>1, <1>2, <1>3, LoopKeeps

LEMMA QuitLoopIInv ==
  ASSUME IInv, NEW i \in Servers, QuitLoop(i)
  PROVE  IInv'
<1>. USE DEF IInv
<1>1. /\ pc[i] \in Looping
      /\ Gone(i, "ended")
      /\ CloseSession(i, start[i])
      /\ UNCHANGED <<created, lastCreator, faults, start>>
  BY DEF QuitLoop, Looping
<1>2. SessionOf(i) /\ pc[i] # "off"
  BY <1>1 DEF SessionInv, Looping
<1>3. start[i] \in Starts
  BY <1>2, StartsAssumption DEF SessionOf, TypeOK, Starts
<1>4. /\ sessions' \in [Servers -> SUBSET Starts]
      /\ owner' \in [MethodNodes -> [Servers -> 0..MaxStarts]]
      /\ sessions'[i] = sessions[i] \ {start[i]}
      /\ \A j \in Servers : j # i => sessions'[j] = sessions[j]
      /\ \A n \in MethodNodes, j \in Servers : j # i => owner'[n][j] = owner[n][j]
      /\ \A n \in MethodNodes :
            owner'[n][i] = IF owner[n][i] = start[i] THEN 0 ELSE owner[n][i]
  BY <1>1, <1>3, CloseSessionStep
<1>5. /\ \A j \in Servers : j # i =>
               /\ pc'[j] = pc[j]
               /\ at'[j] = at[j]
               /\ instance_paths_'[j] = instance_paths_[j]
               /\ skipped'[j] = skipped[j]
      /\ pc'[i] = "ended"
      /\ ~Running(i)'
      /\ RegisterOf(i)'
  BY <1>1, GoneStep
<1>6. TypeOK'
  BY <1>1, <1>4, GoneType DEF TypeOK, States
<1>7. \A j \in Servers : j # i => Same(j)
  BY <1>1, <1>4, <1>5 DEF Same
<1>8. SessionOf(i)'
  BY <1>1, <1>2, <1>4, <1>5 DEF SessionOf, Connected
<1>9. faults = 0 => NoFaultOf(i)'
  BY <1>5 DEF NoFaultOf, Registering, Looping
<1>. QED
  BY <1>1, <1>5, <1>6, <1>7, <1>8, <1>9, OneMoves

-----------------------------------------------------------------------------
(* The theorems.                                                           *)

LEMMA InitIInv == Init => IInv
<1>. SUFFICES ASSUME Init PROVE IInv
  OBVIOUS
<1>. USE DEF Init
<1>1. 1 \in 1..N /\ 0 \in 0..MaxStarts /\ 0 \in 0..MaxConns /\ 0 \in 0..MaxFaults
  BY NodesAssumption, StartsAssumption, ConnsAssumption, FaultsAssumption
<1>2. TypeOK
  BY <1>1 DEF TypeOK
<1>3. \A j \in Servers : ~Running(j)
  BY DEF Running, Registering, Looping
<1>4. SessionInv
  BY <1>3 DEF SessionInv, SessionOf
<1>5. RegisterInv
  BY <1>3 DEF RegisterInv, RegisterOf
<1>6. NoFaultInv
  BY DEF NoFaultInv, NoFaultOf, Registering, Looping
<1>. QED
  BY <1>2, <1>4, <1>5, <1>6 DEF IInv

LEMMA NextIInv == IInv /\ [Next]_vars => IInv'
<1>. SUFFICES ASSUME IInv, [Next]_vars PROVE IInv'
  OBVIOUS
<1>1. CASE UNCHANGED vars
  <2>1. UNCHANGED <<created, lastCreator, owner, sessions, faults, start, pc, at,
                    instance_paths_, skipped, pending_requests_, stopQueued,
                    quitQueued>>
    BY <1>1 DEF vars, zkVars, runVars, loopVars
  <2>2. TypeOK' /\ \A j \in Servers : Same(j)
    BY <2>1 DEF IInv, TypeOK, Same
  <2>3. SessionInv' /\ RegisterInv' /\ NoFaultInv'
    BY <2>1, <2>2, SameKeeps, SameKeepsNoFault
       DEF IInv, SessionInv, RegisterInv, NoFaultInv
  <2>. QED
    BY <2>2, <2>3 DEF IInv
<1>2. CASE Next
  <2>1. PICK i \in Servers :
           \/ Start(i)
           \/ SessionUp(i)
           \/ InitFails(i)
           \/ Register(i)
           \/ \E s \in Starts : Expire(i, s)
           \/ LoseSession(i)
           \/ Crash(i)
           \/ OnConnectionUp(i)
           \/ OnConnectionDown(i)
           \/ SigInt(i)
           \/ SigTerm(i)
           \/ Loop(i)
    BY <1>2 DEF Next
  <2>2. CASE Register(i)
    BY <2>2, CheckNodeIInv, CreateNodeIInv, CheckInstanceIInv,
       CreateInstanceIInv, CheckFailsIInv, CreateFailsIInv DEF Register
  <2>3. CASE Loop(i)
    BY <2>3, StopFunctorIInv, SleepOverIInv, QuitLoopIInv DEF Loop
  <2>. QED
    BY <2>1, <2>2, <2>3, StartIInv, SessionUpIInv, InitFailsIInv, ExpireIInv, LoseSessionIInv, CrashIInv,
       OnConnectionUpIInv, OnConnectionDownIInv, SignalIInv
<1>. QED
  BY <1>1, <1>2

\* IInv holds in every reachable state of every instance.
THEOREM Invariance == Spec => []IInv
<1>. QED
  BY InitIInv, NextIInv, PTL DEF Spec

\* Every variable keeps its type.
THEOREM TypeCorrect == Spec => []TypeOK
<1>1. IInv => TypeOK
  BY DEF IInv
<1>. QED
  BY <1>1, Invariance, PTL

\* What a server registered stays registered as long as its session
\* (RPCServer.cc Run, Zookeeperutil.cc Create).
THEOREM RegistrationLastsHolds == Spec => []RegistrationLasts
<1>1. IInv => RegistrationLasts
  <2>. SUFFICES ASSUME IInv, NEW i \in Servers, pc[i] \in Looping, Connected(i)
                PROVE  /\ instance_paths_[i] = MethodNodes
                       /\ \A n \in MethodNodes :
                             owner[n][i] = start[i] \/ n \in skipped[i]
    BY DEF RegistrationLasts
  <2>1. RegisterOf(i) /\ Running(i) /\ \A n \in MethodNodes : Passed(i, n)
    BY DEF IInv, RegisterInv, Running, Passed
  <2>2. instance_paths_[i] \subseteq MethodNodes
    BY DEF IInv, TypeOK
  <2>. QED
    BY <2>1, <2>2 DEF RegisterOf
<1>. QED
  BY <1>1, Invariance, PTL

\* Whoever created the latest persistent node goes on (Zookeeperutil.cc
\* Create exits in the servers that were slower).
THEOREM RaceHasWinnerHolds == Spec => []RaceHasWinner
<1>1. IInv => RaceHasWinner
  <2>. SUFFICES ASSUME IInv, faults = 0, NEW i \in Servers, pc[i] = "exited"
                PROVE  \E j \in Servers : pc[j] # "exited"
    BY DEF RaceHasWinner
  <2>1. lastCreator \in Servers
    BY DEF IInv, TypeOK, NoFaultInv, NoFaultOf
  <2>2. pc[lastCreator] # "exited"
    BY <2>1 DEF IInv, NoFaultInv, NoFaultOf
  <2>. QED
    BY <2>1, <2>2
<1>. QED
  BY <1>1, Invariance, PTL

\* A process whose Run returned left no node of its own (~ZkClient).
THEOREM EndedIsUnregisteredHolds == Spec => []EndedIsUnregistered
<1>1. IInv => EndedIsUnregistered
  <2>. SUFFICES ASSUME IInv, NEW i \in Servers, NEW n \in MethodNodes,
                       pc[i] = "ended", owner[n][i] = start[i]
                PROVE  FALSE
    BY DEF EndedIsUnregistered
  <2>1. SessionOf(i) /\ ~Connected(i)
    BY DEF IInv, SessionInv, SessionOf
  <2>2. start[i] # 0
    BY <2>1, Numbers DEF SessionOf, IInv
  <2>. QED
    BY <2>1, <2>2 DEF SessionOf, Connected
<1>. QED
  BY <1>1, Invariance, PTL
=============================================================================
