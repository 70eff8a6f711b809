-------------------------- MODULE RpcChannelProofs --------------------------
(***************************************************************************)
(* What the model checker shows of RpcChannel on small instances, for any  *)
(* set of calls and any number of ids and connections.                     *)
(*                                                                         *)
(* None of the safety properties is inductive.  That a reply finds its own *)
(* call needs that ids are unique (IdInv), that the map holds exactly the  *)
(* registered calls that wait (MapInv), and that a call has one message in *)
(* flight, sent after its registration (FlightInv).  IInv is their         *)
(* conjunction with what a call's progress implies.  One lemma per action  *)
(* shows that the action preserves it, one step per conjunct the action    *)
(* can disturb; Invariance puts them together, the theorems about the      *)
(* properties follow from it, and so does the refinement of RpcCalls.      *)
(***************************************************************************)
EXTENDS RpcChannel, FiniteSetTheorems, TLAPS

\* A set whose elements are all equal has at most one.
LEMMA NoneOrOne ==
    ASSUME NEW S, \A i, j \in S : i = j
    PROVE  Cardinality(S) = IF S = {} THEN 0 ELSE 1
<1>1. CASE S = {}
  BY <1>1, FS_EmptySet
<1>2. CASE S # {}
  <2>1. PICK i \in S : TRUE
    BY <1>2
  <2>2. S = {i}
    BY <2>1
  <2>. QED
    BY <1>2, <2>2, FS_Singleton
<1>. QED
  BY <1>1, <1>2

\* A request that does not serialize keeps the invariant.
LEMMA CallMethodRejectIInv ==
    ASSUME IInv, NEW c \in Calls, CallMethodReject(c)
    PROVE  IInv'
<1>. USE NoCallAssumption, MaxIdAssumption, MaxConnAssumption DEF IInv,
    TypeOK, CallMethodReject, callerVars, receiverVars, netVars, serverVars,
    Ids, Conns, InFlight, PcState
<1>1. ClientTypeOK'
  BY DEF ClientTypeOK
<1>2. IdInv'
  BY DEF ClientTypeOK, IdInv
<1>3. MapInv'
  BY DEF ClientTypeOK, MapInv, IdInv, ProgressInv, HandlingInv
<1>4. FlightInv'
  BY DEF ClientTypeOK, NetTypeOK, ServerTypeOK, Message, MapInv, IdInv,
    ProgressInv, FlightInv, HandlingInv
<1>5. ProgressInv'
  BY DEF ClientTypeOK, ServerTypeOK, ProgressInv, FlightInv, HandlingInv
<1>6. DestroyedInv'
  BY DEF ClientTypeOK, DestroyedInv
<1>7. ResponseFreedOnce'
  BY DEF ClientTypeOK, ResponseFreedOnce, MapInv, HandlingInv,
    ProgressInv, DestroyedInv, IdInv
<1>8. (NetTypeOK /\ ServerTypeOK /\ HandlingInv /\ AnswersMatch)'
  BY DEF NetTypeOK, ServerTypeOK, HandlingInv, AnswersMatch
<1>. QED
  BY <1>1, <1>2, <1>3, <1>4, <1>5, <1>6, <1>7, <1>8

\* Drawing an id keeps ids unique.
LEMMA CallMethodNumberIInv ==
    ASSUME IInv, NEW c \in Calls, CallMethodNumber(c)
    PROVE  IInv'
<1>. USE NoCallAssumption, MaxIdAssumption, MaxConnAssumption DEF IInv,
    TypeOK, CallMethodNumber, callerVars, receiverVars, netVars, serverVars,
    Ids, Conns, InFlight, PcState
<1>1. ClientTypeOK'
  BY DEF ClientTypeOK
<1>2. IdInv'
  BY DEF ClientTypeOK, IdInv
<1>3. MapInv'
  BY DEF ClientTypeOK, MapInv, IdInv, ProgressInv, HandlingInv
<1>4. FlightInv'
  BY DEF ClientTypeOK, NetTypeOK, ServerTypeOK, Message, MapInv, IdInv,
    ProgressInv, FlightInv, HandlingInv
<1>5. ProgressInv'
  BY DEF ClientTypeOK, ServerTypeOK, ProgressInv, FlightInv, HandlingInv
<1>6. DestroyedInv'
  BY DEF ClientTypeOK, DestroyedInv
<1>7. ResponseFreedOnce'
  BY DEF ClientTypeOK, ResponseFreedOnce, MapInv, HandlingInv,
    ProgressInv, DestroyedInv, IdInv
<1>8. (NetTypeOK /\ ServerTypeOK /\ HandlingInv /\ AnswersMatch)'
  BY DEF NetTypeOK, ServerTypeOK, HandlingInv, AnswersMatch
<1>. QED
  BY <1>1, <1>2, <1>3, <1>4, <1>5, <1>6, <1>7, <1>8

\* Giving up after the id was drawn keeps the invariant.
LEMMA CallMethodHeaderFailsIInv ==
    ASSUME IInv, NEW c \in Calls, CallMethodHeaderFails(c)
    PROVE  IInv'
<1>. USE NoCallAssumption, MaxIdAssumption, MaxConnAssumption DEF IInv,
    TypeOK, CallMethodHeaderFails, callerVars, receiverVars, netVars,
    serverVars, Ids, Conns, InFlight, PcState
<1>1. ClientTypeOK'
  BY DEF ClientTypeOK
<1>2. IdInv'
  BY DEF ClientTypeOK, IdInv
<1>3. MapInv'
  BY DEF ClientTypeOK, MapInv, IdInv, ProgressInv, HandlingInv
<1>4. FlightInv'
  BY DEF ClientTypeOK, NetTypeOK, ServerTypeOK, Message, MapInv, IdInv,
    ProgressInv, FlightInv, HandlingInv
<1>5. ProgressInv'
  BY DEF ClientTypeOK, ServerTypeOK, ProgressInv, FlightInv, HandlingInv
<1>6. DestroyedInv'
  BY DEF ClientTypeOK, DestroyedInv
<1>7. ResponseFreedOnce'
  BY DEF ClientTypeOK, ResponseFreedOnce, MapInv, HandlingInv,
    ProgressInv, DestroyedInv, IdInv
<1>8. (NetTypeOK /\ ServerTypeOK /\ HandlingInv /\ AnswersMatch)'
  BY DEF NetTypeOK, ServerTypeOK, HandlingInv, AnswersMatch
<1>. QED
  BY <1>1, <1>2, <1>3, <1>4, <1>5, <1>6, <1>7, <1>8

\* Registering fills the one free slot of the call's id.
LEMMA CallMethodRegisterIInv ==
    ASSUME IInv, NEW c \in Calls, CallMethodRegister(c)
    PROVE  IInv'
<1>. USE NoCallAssumption, MaxIdAssumption, MaxConnAssumption DEF IInv,
    TypeOK, CallMethodRegister, callerVars, receiverVars, netVars, serverVars,
    Ids, Conns, InFlight, PcState
<1>1. ClientTypeOK'
  BY DEF ClientTypeOK
<1>2. IdInv'
  BY DEF ClientTypeOK, IdInv
<1>3. MapInv'
  <2>1. callId[c] \in Ids /\ callId[c] \in DOMAIN outstandings_
    BY DEF ClientTypeOK, IdInv
  <2>2. completions[c] = 0 /\ executions[c] = 0 /\ handling.call # c
    BY DEF ServerTypeOK, ClientTypeOK, ProgressInv, HandlingInv
  <2>3. outstandings_'[callId[c]] = c
    BY <2>1 DEF ClientTypeOK
  <2>4. \A i \in Ids : i # callId[c] => outstandings_'[i] = outstandings_[i]
    BY <2>1 DEF ClientTypeOK
  <2>5. \A d \in Calls : d # c => pc'[d] = pc[d]
    BY DEF ClientTypeOK
  <2>6. pc'[c] = "registered" /\ alive
    BY DEF ClientTypeOK, DestroyedInv
  <2>7. \A d \in Calls : callId[d] = callId[c] => d = c
    BY <2>1 DEF IdInv, ClientTypeOK
  <2>8. \A d \in Calls : callId[d] \in Ids \/ callId[d] = 0
    BY DEF ClientTypeOK
  <2>9. \A d \in Calls : pc[d] \in {"registered", "returned"} => callId[d] \in Ids
    BY <2>8 DEF IdInv
  <2>10. ASSUME NEW i \in Ids, outstandings_'[i] # NoCall
         PROVE  LET d == outstandings_'[i] IN
                /\ alive
                /\ callId[d] = i
                /\ pc'[d] \in {"registered", "returned"}
                /\ completions[d] = 0
                /\ handling.call # d
    <3>1. CASE i = callId[c]
      BY <3>1, <2>2, <2>3, <2>6
    <3>2. CASE i # callId[c]
      <4>1. outstandings_'[i] = outstandings_[i] /\ outstandings_[i] \in Calls
        BY <3>2, <2>4, <2>10 DEF ClientTypeOK
      <4>2. callId[outstandings_[i]] = i
        BY <4>1, <2>10 DEF MapInv
      <4>. QED
        BY <4>1, <4>2, <3>2, <2>5, <2>10 DEF MapInv
    <3>. QED
      BY <3>1, <3>2
  <2>11. ASSUME NEW d \in Calls, alive, pc'[d] \in {"registered", "returned"},
                completions[d] = 0, handling.call # d
         PROVE  outstandings_'[callId[d]] = d
    BY <2>11, <2>3, <2>4, <2>5, <2>7, <2>9 DEF MapInv
  <2>. QED
    BY <2>10, <2>11 DEF MapInv
<1>4. FlightInv'
  BY DEF ClientTypeOK, NetTypeOK, ServerTypeOK, Message, MapInv, IdInv,
    ProgressInv, FlightInv, HandlingInv
<1>5. ProgressInv'
  BY DEF ClientTypeOK, ServerTypeOK, ProgressInv, FlightInv, HandlingInv
<1>6. DestroyedInv'
  BY DEF ClientTypeOK, DestroyedInv
<1>7. ResponseFreedOnce'
  BY DEF ClientTypeOK, ResponseFreedOnce, MapInv, HandlingInv,
    ProgressInv, DestroyedInv, IdInv
<1>8. (NetTypeOK /\ ServerTypeOK /\ HandlingInv /\ AnswersMatch)'
  BY DEF NetTypeOK, ServerTypeOK, HandlingInv, AnswersMatch
<1>. QED
  BY <1>1, <1>2, <1>3, <1>4, <1>5, <1>6, <1>7, <1>8

\* Sending puts the call's first message in flight, after its registration.
LEMMA CallMethodSendIInv ==
    ASSUME IInv, NEW c \in Calls, CallMethodSend(c)
    PROVE  IInv'
<1>. USE NoCallAssumption, MaxIdAssumption, MaxConnAssumption DEF IInv,
    TypeOK, CallMethodSend, callerVars, receiverVars, netVars, serverVars,
    Ids, Conns, InFlight, NoConn, PcState
<1>1. ClientTypeOK'
  BY DEF ClientTypeOK
<1>2. NetTypeOK'
  <2>1. callId[c] \in Ids
    BY DEF ClientTypeOK, IdInv
  <2>2. conn_ # NoConn => [conn |-> conn_, id |-> callId[c], call |-> c] \in Message
    BY <2>1 DEF ClientTypeOK, Message
  <2>. QED
    BY <2>2 DEF NetTypeOK
<1>3. IdInv'
  BY DEF ClientTypeOK, IdInv
<1>4. MapInv'
  BY DEF ClientTypeOK, MapInv, IdInv, ProgressInv, HandlingInv
<1>5. FlightInv'
  BY DEF ClientTypeOK, NetTypeOK, ServerTypeOK, Message, MapInv, IdInv,
    ProgressInv, FlightInv, HandlingInv
<1>6. ProgressInv'
  BY DEF ClientTypeOK, ServerTypeOK, ProgressInv, FlightInv, HandlingInv
<1>7. DestroyedInv'
  BY DEF ClientTypeOK, DestroyedInv
<1>8. ResponseFreedOnce'
  BY DEF ClientTypeOK, ResponseFreedOnce, MapInv, HandlingInv,
    ProgressInv, DestroyedInv, IdInv
<1>9. (ServerTypeOK /\ HandlingInv /\ AnswersMatch)'
  BY DEF ServerTypeOK, HandlingInv, AnswersMatch
<1>. QED
  BY <1>1, <1>2, <1>3, <1>4, <1>5, <1>6, <1>7, <1>8, <1>9

\* A new client connection disturbs only the connection states.
LEMMA ClientUpIInv ==
    ASSUME IInv, NEW k \in Conns, ClientUp(k)
    PROVE  IInv'
<1>. USE NoCallAssumption, MaxIdAssumption, MaxConnAssumption DEF IInv,
    TypeOK, ClientUp, callerVars, receiverVars, netVars, serverVars, Idle,
    Ids, Conns, InFlight, NoConn
<1>1. ClientTypeOK'
  BY DEF ClientTypeOK
<1>2. NetTypeOK'
  BY DEF NetTypeOK
<1>3. (ServerTypeOK /\ IdInv /\ MapInv /\ FlightInv /\ ProgressInv /\
      HandlingInv /\ DestroyedInv /\ ResponseFreedOnce /\ AnswersMatch)'
  BY DEF ServerTypeOK, IdInv, MapInv, FlightInv, ProgressInv, HandlingInv,
    DestroyedInv, ResponseFreedOnce, AnswersMatch
<1>. QED
  BY <1>1, <1>2, <1>3

\* Losing unread responses disturbs no bookkeeping.
LEMMA ClientDownIInv ==
    ASSUME IInv, NEW k \in Conns, ClientDown(k)
    PROVE  IInv'
<1>. USE NoCallAssumption, MaxIdAssumption, MaxConnAssumption DEF IInv,
    TypeOK, ClientDown, callerVars, receiverVars, netVars, serverVars, Idle,
    Ids, Conns, InFlight
<1>1. NetTypeOK'
  BY DEF NetTypeOK
<1>2. FlightInv'
  BY DEF ClientTypeOK, NetTypeOK, ServerTypeOK, Message, MapInv, IdInv,
    ProgressInv, FlightInv, HandlingInv
<1>3. (ClientTypeOK /\ ServerTypeOK /\ IdInv /\ MapInv /\ ProgressInv /\
      HandlingInv /\ DestroyedInv /\ ResponseFreedOnce /\ AnswersMatch)'
  BY DEF ClientTypeOK, ServerTypeOK, IdInv, MapInv, ProgressInv,
    HandlingInv, DestroyedInv, ResponseFreedOnce, AnswersMatch
<1>. QED
  BY <1>1, <1>2, <1>3

\* The reply takes its own call off the map.
LEMMA ReceiveResponseIInv ==
    ASSUME IInv, NEW m \in responses, ReceiveResponse(m)
    PROVE  IInv'
<1>. USE NoCallAssumption, MaxIdAssumption, MaxConnAssumption DEF IInv,
    TypeOK, ReceiveResponse, callerVars, receiverVars, netVars, serverVars,
    Idle, Ids, Conns, InFlight
<1>0. m \in Message /\ m.call \in Calls /\ m.id \in Ids /\ m.conn \in Conns
  BY DEF NetTypeOK, ServerTypeOK, Message
<1>1. ClientTypeOK'
  <2>1. outstandings_[m.id] # NoCall =>
           [call |-> outstandings_[m.id], payload |-> m.call]
              \in [call : Calls \cup {NoCall}, payload : Calls \cup {NoCall}]
    BY <1>0 DEF ClientTypeOK
  <2>. QED
    BY <1>0, <2>1 DEF ClientTypeOK
<1>2. NetTypeOK'
  BY <1>0 DEF NetTypeOK
<1>3. MapInv'
  <2>1. CASE outstandings_[m.id] = NoCall
    BY <2>1 DEF MapInv
  <2>2. CASE outstandings_[m.id] # NoCall
    <3>1. handling'.call = outstandings_[m.id] /\ handling.call = NoCall
      BY <2>2
    <3>2. \A i \in Ids : outstandings_'[i] =
                            IF i = m.id THEN NoCall ELSE outstandings_[i]
      BY <1>0, <2>2 DEF ClientTypeOK
    <3>3. outstandings_[m.id] \in Calls /\ callId[outstandings_[m.id]] = m.id
      BY <1>0, <2>2 DEF ClientTypeOK, MapInv
    <3>4. ASSUME NEW i \in Ids, outstandings_'[i] # NoCall
          PROVE  LET d == outstandings_'[i] IN
                 /\ alive
                 /\ callId[d] = i
                 /\ pc[d] \in {"registered", "returned"}
                 /\ completions[d] = 0
                 /\ handling'.call # d
      <4>1. i # m.id /\ outstandings_'[i] = outstandings_[i]
        BY <3>2, <3>4
      <4>2. callId[outstandings_[i]] = i
        BY <4>1, <3>4 DEF MapInv
      <4>. QED
        BY <4>1, <4>2, <3>1, <3>3, <3>4 DEF MapInv
    <3>5. ASSUME NEW d \in Calls, alive, pc[d] \in {"registered", "returned"},
                 completions[d] = 0, handling'.call # d
          PROVE  outstandings_'[callId[d]] = d
      <4>1. d # NoCall
        OBVIOUS
      <4>2. outstandings_[callId[d]] = d
        BY <3>1, <3>5, <4>1 DEF MapInv
      <4>3. callId[d] \in Ids
        BY <3>5 DEF ClientTypeOK, IdInv
      <4>. QED
        BY <3>1, <3>2, <3>5, <4>2, <4>3
    <3>. QED
      BY <3>4, <3>5, <2>2 DEF MapInv
  <2>. QED
    BY <2>1, <2>2
<1>4. FlightInv'
  BY <1>0 DEF ClientTypeOK, NetTypeOK, ServerTypeOK, Message, MapInv,
    IdInv, ProgressInv, FlightInv, HandlingInv
<1>5. HandlingInv'
  BY <1>0 DEF ClientTypeOK, ServerTypeOK, MapInv, FlightInv, ProgressInv,
    HandlingInv, IdInv
<1>6. (ServerTypeOK /\ IdInv /\ ProgressInv /\ DestroyedInv /\
      ResponseFreedOnce /\ AnswersMatch)'
  BY DEF ServerTypeOK, IdInv, ProgressInv, DestroyedInv,
    ResponseFreedOnce, AnswersMatch
<1>. QED
  BY <1>1, <1>2, <1>3, <1>4, <1>5, <1>6

\* The closure completes the call that was taken off the map.
LEMMA RunDoneIInv ==
    ASSUME IInv, RunDone
    PROVE  IInv'
<1>. USE NoCallAssumption, MaxIdAssumption, MaxConnAssumption DEF IInv,
    TypeOK, RunDone, callerVars, receiverVars, netVars, serverVars, Idle, Ids,
    Conns, InFlight
<1>0. /\ handling.call \in Calls /\ handling.payload = handling.call
     /\ completions[handling.call] = 0
     /\ handling'.call = NoCall /\ handling'.payload = NoCall
  <2>1. handling = [call |-> handling.call, payload |-> handling.payload]
    BY DEF ClientTypeOK
  <2>2. handling.payload = handling.call
    BY DEF HandlingInv
  <2>3. handling.call # NoCall
    BY <2>1, <2>2
  <2>. QED
    BY <2>2, <2>3 DEF ClientTypeOK, HandlingInv
<1>1. ClientTypeOK'
  <2>1. answer' \in [Calls -> Calls \cup {NoCall}]
    BY <1>0 DEF ClientTypeOK
  <2>2. completions' \in [Calls -> Nat] /\ freed' \in [Calls -> Nat]
    BY <1>0 DEF ClientTypeOK
  <2>3. handling' \in [call : Calls \cup {NoCall}, payload : Calls \cup {NoCall}]
    OBVIOUS
  <2>. QED
    BY <2>1, <2>2, <2>3 DEF ClientTypeOK
<1>2. MapInv'
  <2>1. \A d \in Calls : completions'[d] =
                           IF d = handling.call THEN 1 ELSE completions[d]
    BY <1>0 DEF ClientTypeOK
  <2>2. \A i \in Ids : outstandings_[i] # NoCall => outstandings_[i] \in Calls
    BY DEF ClientTypeOK
  <2>. QED
    BY <1>0, <2>1, <2>2 DEF MapInv
<1>3. FlightInv'
  BY <1>0 DEF ClientTypeOK, NetTypeOK, ServerTypeOK, Message, MapInv,
    IdInv, ProgressInv, FlightInv, HandlingInv
<1>4. ProgressInv'
  BY <1>0 DEF ClientTypeOK, ServerTypeOK, ProgressInv, FlightInv,
    HandlingInv
<1>5. HandlingInv'
  BY <1>0 DEF ClientTypeOK, ServerTypeOK, MapInv, FlightInv, ProgressInv,
    HandlingInv, IdInv
<1>6. ResponseFreedOnce'
  BY <1>0 DEF ClientTypeOK, ResponseFreedOnce, MapInv, HandlingInv,
    ProgressInv, DestroyedInv, IdInv
<1>7. AnswersMatch'
  BY <1>0 DEF ClientTypeOK, AnswersMatch, HandlingInv
<1>8. (NetTypeOK /\ ServerTypeOK /\ IdInv /\ DestroyedInv)'
  BY DEF NetTypeOK, ServerTypeOK, IdInv, DestroyedInv
<1>. QED
  BY <1>1, <1>2, <1>3, <1>4, <1>5, <1>6, <1>7, <1>8

\* The destructor deletes each response still outstanding, once.
LEMMA DestroyChannelIInv ==
    ASSUME IInv, DestroyChannel
    PROVE  IInv'
<1>. USE NoCallAssumption, MaxIdAssumption, MaxConnAssumption DEF IInv,
    TypeOK, DestroyChannel, callerVars, receiverVars, netVars, serverVars,
    Idle, Ids, Conns, InFlight
<1>0. ASSUME NEW c \in Calls
      PROVE  Cardinality({i \in Ids : outstandings_[i] = c}) =
               IF \E i \in Ids : outstandings_[i] = c THEN 1 ELSE 0
  <2>1. \A i, j \in {n \in Ids : outstandings_[n] = c} : i = j
    BY DEF MapInv
  <2>2. Cardinality({i \in Ids : outstandings_[i] = c}) =
           IF {i \in Ids : outstandings_[i] = c} = {} THEN 0 ELSE 1
    BY <2>1, NoneOrOne
  <2>. QED
    BY <2>2
<1>1. ClientTypeOK'
  <2>1. ASSUME NEW c \in Calls
        PROVE  freed[c] + Cardinality({i \in Ids : outstandings_[i] = c}) \in Nat
    <3>1. freed[c] \in Nat
      BY DEF ClientTypeOK
    <3>2. Cardinality({i \in Ids : outstandings_[i] = c}) \in Nat
      BY <1>0
    <3>. HIDE DEF IInv, TypeOK
    <3>. QED
      BY <3>1, <3>2
  <2>2. freed' \in [Calls -> Nat]
    BY <2>1
  <2>. QED
    BY <2>2 DEF ClientTypeOK
<1>2. MapInv'
  BY <1>0 DEF ClientTypeOK, MapInv, IdInv, ProgressInv, HandlingInv
<1>3. HandlingInv'
  BY <1>0 DEF ClientTypeOK, ServerTypeOK, MapInv, FlightInv, ProgressInv,
    HandlingInv, IdInv
<1>4. DestroyedInv'
  BY <1>0 DEF ClientTypeOK, DestroyedInv
<1>5. ResponseFreedOnce'
  <2>1. SUFFICES ASSUME NEW c \in Calls
                PROVE  /\ completions[c] <= freed'[c]
                       /\ freed'[c] <= 1
                       /\ pc[c] = "returned" => freed'[c] = 1
    BY DEF ResponseFreedOnce
  <2>2. freed[c] = completions[c] /\ completions[c] \in {0, 1} /\ handling.call # c
    BY DEF ResponseFreedOnce, ProgressInv
  <2>3. freed'[c] = freed[c] + (IF \E i \in Ids : outstandings_[i] = c THEN 1 ELSE 0)
    BY <1>0
  <2>4. (\E i \in Ids : outstandings_[i] = c) => completions[c] = 0
    BY DEF MapInv
  <2>5. pc[c] = "returned" /\ completions[c] = 0 => \E i \in Ids : outstandings_[i] = c
    <3>1. pc[c] = "returned" => callId[c] \in Ids
      BY DEF ClientTypeOK, IdInv
    <3>. QED
      BY <3>1, <2>2 DEF MapInv
  <2>. QED
    BY <2>2, <2>3, <2>4, <2>5
<1>6. (NetTypeOK /\ ServerTypeOK /\ IdInv /\ FlightInv /\ ProgressInv /\
      AnswersMatch)'
  BY DEF NetTypeOK, ServerTypeOK, IdInv, FlightInv, ProgressInv,
    AnswersMatch
<1>. QED
  BY <1>1, <1>2, <1>3, <1>4, <1>5, <1>6

\* A new server channel disturbs only the connection states.
LEMMA ServerUpIInv ==
    ASSUME IInv, NEW k \in Conns, ServerUp(k)
    PROVE  IInv'
<1>. USE NoCallAssumption, MaxIdAssumption, MaxConnAssumption DEF IInv,
    TypeOK, ServerUp, callerVars, receiverVars, netVars, serverVars, Ids,
    Conns, InFlight
<1>1. NetTypeOK'
  BY DEF NetTypeOK
<1>2. ServerTypeOK'
  BY DEF ServerTypeOK, NetTypeOK
<1>3. (ClientTypeOK /\ IdInv /\ MapInv /\ FlightInv /\ ProgressInv /\
      HandlingInv /\ DestroyedInv /\ ResponseFreedOnce /\ AnswersMatch)'
  BY DEF ClientTypeOK, IdInv, MapInv, FlightInv, ProgressInv, HandlingInv,
    DestroyedInv, ResponseFreedOnce, AnswersMatch
<1>. QED
  BY <1>1, <1>2, <1>3

\* Losing unread requests disturbs no bookkeeping.
LEMMA ServerDownIInv ==
    ASSUME IInv, NEW k \in Conns, ServerDown(k)
    PROVE  IInv'
<1>. USE NoCallAssumption, MaxIdAssumption, MaxConnAssumption DEF IInv,
    TypeOK, ServerDown, callerVars, receiverVars, netVars, serverVars, Ids,
    Conns, InFlight
<1>1. NetTypeOK'
  BY DEF NetTypeOK
<1>2. ServerTypeOK'
  BY DEF ServerTypeOK, NetTypeOK
<1>3. FlightInv'
  BY DEF ClientTypeOK, NetTypeOK, ServerTypeOK, Message, MapInv, IdInv,
    ProgressInv, FlightInv, HandlingInv
<1>4. (ClientTypeOK /\ IdInv /\ MapInv /\ ProgressInv /\ HandlingInv /\
      DestroyedInv /\ ResponseFreedOnce /\ AnswersMatch)'
  BY DEF ClientTypeOK, IdInv, MapInv, ProgressInv, HandlingInv,
    DestroyedInv, ResponseFreedOnce, AnswersMatch
<1>. QED
  BY <1>1, <1>2, <1>3, <1>4

\* A refused request leaves flight without an execution.
LEMMA RefuseRequestIInv ==
    ASSUME IInv, NEW m \in requests, RefuseRequest(m)
    PROVE  IInv'
<1>. USE NoCallAssumption, MaxIdAssumption, MaxConnAssumption DEF IInv,
    TypeOK, RefuseRequest, callerVars, receiverVars, netVars, serverVars, Ids,
    Conns, InFlight
<1>0. m \in Message /\ m.call \in Calls /\ m.id \in Ids /\ m.conn \in Conns
  BY DEF NetTypeOK, ServerTypeOK, Message
<1>1. NetTypeOK'
  BY <1>0 DEF NetTypeOK
<1>2. ServerTypeOK'
  BY <1>0 DEF ServerTypeOK, NetTypeOK
<1>3. FlightInv'
  BY <1>0 DEF ClientTypeOK, NetTypeOK, ServerTypeOK, Message, MapInv,
    IdInv, ProgressInv, FlightInv, HandlingInv
<1>4. (ClientTypeOK /\ IdInv /\ MapInv /\ ProgressInv /\ HandlingInv /\
      DestroyedInv /\ ResponseFreedOnce /\ AnswersMatch)'
  BY DEF ClientTypeOK, IdInv, MapInv, ProgressInv, HandlingInv,
    DestroyedInv, ResponseFreedOnce, AnswersMatch
<1>. QED
  BY <1>1, <1>2, <1>3, <1>4

\* An inline method turns the request into its reply.
LEMMA ServeInlineIInv ==
    ASSUME IInv, NEW m \in requests, ServeInline(m)
    PROVE  IInv'
<1>. USE NoCallAssumption, MaxIdAssumption, MaxConnAssumption DEF IInv,
    TypeOK, ServeInline, callerVars, receiverVars, netVars, serverVars, Ids,
    Conns, InFlight, DoneCallback
<1>0. m \in Message /\ m.call \in Calls /\ m.id \in Ids /\ m.conn \in Conns
  BY DEF NetTypeOK, ServerTypeOK, Message
<1>1. NetTypeOK'
  BY <1>0 DEF NetTypeOK
<1>2. ServerTypeOK'
  BY <1>0 DEF ServerTypeOK, NetTypeOK
<1>3. FlightInv'
  BY <1>0 DEF ClientTypeOK, NetTypeOK, ServerTypeOK, Message, MapInv,
    IdInv, ProgressInv, FlightInv, HandlingInv
<1>4. ProgressInv'
  BY <1>0 DEF ClientTypeOK, ServerTypeOK, ProgressInv, FlightInv,
    HandlingInv
<1>5. HandlingInv'
  BY <1>0 DEF ClientTypeOK, ServerTypeOK, MapInv, FlightInv, ProgressInv,
    HandlingInv, IdInv
<1>6. (ClientTypeOK /\ IdInv /\ MapInv /\ DestroyedInv /\
      ResponseFreedOnce /\ AnswersMatch)'
  BY DEF ClientTypeOK, IdInv, MapInv, DestroyedInv, ResponseFreedOnce,
    AnswersMatch
<1>. QED
  BY <1>1, <1>2, <1>3, <1>4, <1>5, <1>6

\* Posting moves the request from the wire to the pool.
LEMMA ServePooledIInv ==
    ASSUME IInv, NEW m \in requests, ServePooled(m)
    PROVE  IInv'
<1>. USE NoCallAssumption, MaxIdAssumption, MaxConnAssumption DEF IInv,
    TypeOK, ServePooled, callerVars, receiverVars, netVars, serverVars, Ids,
    Conns, InFlight
<1>0. m \in Message /\ m.call \in Calls /\ m.id \in Ids /\ m.conn \in Conns
  BY DEF NetTypeOK, ServerTypeOK, Message
<1>1. NetTypeOK'
  BY <1>0 DEF NetTypeOK
<1>2. ServerTypeOK'
  BY <1>0 DEF ServerTypeOK, NetTypeOK
<1>3. FlightInv'
  BY <1>0 DEF ClientTypeOK, NetTypeOK, ServerTypeOK, Message, MapInv,
    IdInv, ProgressInv, FlightInv, HandlingInv
<1>4. (ClientTypeOK /\ IdInv /\ MapInv /\ ProgressInv /\ HandlingInv /\
      DestroyedInv /\ ResponseFreedOnce /\ AnswersMatch)'
  BY DEF ClientTypeOK, IdInv, MapInv, ProgressInv, HandlingInv,
    DestroyedInv, ResponseFreedOnce, AnswersMatch
<1>. QED
  BY <1>1, <1>2, <1>3, <1>4

\* A pool thread turns the task into its reply.
LEMMA RunTaskIInv ==
    ASSUME IInv, NEW m \in tasks, RunTask(m)
    PROVE  IInv'
<1>. USE NoCallAssumption, MaxIdAssumption, MaxConnAssumption DEF IInv,
    TypeOK, RunTask, callerVars, receiverVars, netVars, serverVars, Ids,
    Conns, InFlight, DoneCallback
<1>0. m \in Message /\ m.call \in Calls /\ m.id \in Ids /\ m.conn \in Conns
  BY DEF NetTypeOK, ServerTypeOK, Message
<1>1. NetTypeOK'
  BY <1>0 DEF NetTypeOK
<1>2. ServerTypeOK'
  BY <1>0 DEF ServerTypeOK, NetTypeOK
<1>3. FlightInv'
  BY <1>0 DEF ClientTypeOK, NetTypeOK, ServerTypeOK, Message, MapInv,
    IdInv, ProgressInv, FlightInv, HandlingInv
<1>4. ProgressInv'
  BY <1>0 DEF ClientTypeOK, ServerTypeOK, ProgressInv, FlightInv,
    HandlingInv
<1>5. HandlingInv'
  BY <1>0 DEF ClientTypeOK, ServerTypeOK, MapInv, FlightInv, ProgressInv,
    HandlingInv, IdInv
<1>6. (ClientTypeOK /\ IdInv /\ MapInv /\ DestroyedInv /\
      ResponseFreedOnce /\ AnswersMatch)'
  BY DEF ClientTypeOK, IdInv, MapInv, DestroyedInv, ResponseFreedOnce,
    AnswersMatch
<1>. QED
  BY <1>1, <1>2, <1>3, <1>4, <1>5, <1>6

\* A late task executes without a reply, with or without a crash.
LEMMA RunTaskLateIInv ==
    ASSUME IInv, NEW m \in tasks, RunTaskLate(m)
    PROVE  IInv'
<1>. USE NoCallAssumption, MaxIdAssumption, MaxConnAssumption DEF IInv,
    TypeOK, RunTaskLate, callerVars, receiverVars, netVars, serverVars, Ids,
    Conns, InFlight
<1>0. m \in Message /\ m.call \in Calls /\ m.id \in Ids /\ m.conn \in Conns
  BY DEF NetTypeOK, ServerTypeOK, Message
<1>1. NetTypeOK'
  BY <1>0 DEF NetTypeOK
<1>2. ServerTypeOK'
  BY <1>0 DEF ServerTypeOK, NetTypeOK
<1>3. FlightInv'
  BY <1>0 DEF ClientTypeOK, NetTypeOK, ServerTypeOK, Message, MapInv,
    IdInv, ProgressInv, FlightInv, HandlingInv
<1>4. ProgressInv'
  BY <1>0 DEF ClientTypeOK, ServerTypeOK, ProgressInv, FlightInv,
    HandlingInv
<1>5. HandlingInv'
  BY <1>0 DEF ClientTypeOK, ServerTypeOK, MapInv, FlightInv, ProgressInv,
    HandlingInv, IdInv
<1>6. (ClientTypeOK /\ IdInv /\ MapInv /\ DestroyedInv /\
      ResponseFreedOnce /\ AnswersMatch)'
  BY DEF ClientTypeOK, IdInv, MapInv, DestroyedInv, ResponseFreedOnce,
    AnswersMatch
<1>. QED
  BY <1>1, <1>2, <1>3, <1>4, <1>5, <1>6

-----------------------------------------------------------------------------
(* From the steps to the behaviours.                                       *)

\* The invariant holds when nothing was called yet.
LEMMA InitIInv == Init => IInv
<1>. SUFFICES ASSUME Init PROVE IInv
  OBVIOUS
<1>. USE NoCallAssumption, MaxIdAssumption, MaxConnAssumption DEF Init, Idle, Ids, Conns
<1>1. TypeOK
  BY DEF TypeOK, ClientTypeOK, NetTypeOK, ServerTypeOK, PcState, NoConn
<1>2. IdInv /\ MapInv /\ DestroyedInv
  BY DEF IdInv, MapInv, DestroyedInv
<1>3. FlightInv /\ ProgressInv /\ HandlingInv
  BY DEF FlightInv, InFlight, ProgressInv, HandlingInv
<1>4. ResponseFreedOnce /\ AnswersMatch
  BY DEF ResponseFreedOnce, AnswersMatch
<1>. QED
  BY <1>1, <1>2, <1>3, <1>4 DEF IInv

\* A step that changes no variable keeps the invariant.
LEMMA StutterIInv == IInv /\ UNCHANGED vars => IInv'
BY DEF IInv, vars, callerVars, receiverVars, netVars, serverVars, TypeOK,
    ClientTypeOK, NetTypeOK, ServerTypeOK, IdInv, MapInv, FlightInv, InFlight,
    ProgressInv, HandlingInv, DestroyedInv, ResponseFreedOnce, AnswersMatch

\* Every step keeps the invariant.
LEMMA NextIInv == IInv /\ [Next]_vars => IInv'
<1>. SUFFICES ASSUME IInv, [Next]_vars PROVE IInv'
  OBVIOUS
<1>1. CASE UNCHANGED vars
  BY <1>1, StutterIInv
<1>2. ASSUME NEW c \in Calls, CallMethod(c) PROVE IInv'
  BY <1>2, CallMethodRejectIInv, CallMethodNumberIInv, CallMethodHeaderFailsIInv,
     CallMethodRegisterIInv, CallMethodSendIInv DEF CallMethod
<1>3. ASSUME NEW k \in Conns, ClientUp(k) \/ ClientDown(k) PROVE IInv'
  BY <1>3, ClientUpIInv, ClientDownIInv
<1>4. ASSUME NEW m \in responses, ReceiveResponse(m) PROVE IInv'
  BY <1>4, ReceiveResponseIInv
<1>5. CASE RunDone
  BY <1>5, RunDoneIInv
<1>6. CASE DestroyChannel
  BY <1>6, DestroyChannelIInv
<1>7. ASSUME NEW k \in Conns, ServerUp(k) \/ ServerDown(k) PROVE IInv'
  BY <1>7, ServerUpIInv, ServerDownIInv
<1>8. ASSUME NEW m \in requests, ServeRequest(m) PROVE IInv'
  BY <1>8, RefuseRequestIInv, ServeInlineIInv, ServePooledIInv DEF ServeRequest
<1>9. ASSUME NEW m \in tasks, RunTask(m) \/ RunTaskLate(m) PROVE IInv'
  BY <1>9, RunTaskIInv, RunTaskLateIInv
<1>. QED
  BY <1>1, <1>2, <1>3, <1>4, <1>5, <1>6, <1>7, <1>8, <1>9 DEF Next

\* The inductive invariant holds in every reachable state, for any number of
\* calls, ids and connections: ids are unique, outstandings_ holds exactly the
\* registered calls that wait, each call has at most one message in flight.
THEOREM Invariance == Spec => []IInv
<1>. QED
  BY InitIInv, NextIInv, PTL DEF Spec

\* Type correctness: no transition of the channel pair leaves a variable
\* outside its type.
THEOREM TypeCorrect == Spec => []TypeOK
<1>1. IInv => TypeOK
  BY DEF IInv
<1>. QED
  BY <1>1, Invariance, PTL

\* A closure never sees the reply to another call (RPCChannel.cc:69-93).
THEOREM AnswersMatchHolds == Spec => []AnswersMatch
<1>1. IInv => AnswersMatch
  BY DEF IInv
<1>. QED
  BY <1>1, Invariance, PTL

\* A reply that can still be read finds its own call in outstandings_: the
\* registration before the send (RPCChannel.cc:44-62) is what gives this.
THEOREM NoReplyOrphanedHolds == Spec => []NoReplyOrphaned
<1>1. IInv => NoReplyOrphaned
  <2>. SUFFICES ASSUME IInv, alive, NEW m \in responses
                PROVE  outstandings_[m.id] = m.call
    BY DEF NoReplyOrphaned
  <2>1. m \in InFlight /\ m.call \in Calls
    BY DEF IInv, TypeOK, NetTypeOK, Message, InFlight
  <2>2. /\ callId[m.call] = m.id /\ pc[m.call] = "returned"
        /\ completions[m.call] = 0 /\ handling.call # m.call
    BY <2>1 DEF IInv, FlightInv
  <2>. QED
    BY <2>1, <2>2 DEF IInv, MapInv
<1>. QED
  BY <1>1, Invariance, PTL

\* Each response object is deleted once: by the closure that consumed it or
\* by ~RPCChannel (RPCChannel.cc:201-209), never by both.
THEOREM ResponseFreedOnceHolds == Spec => []ResponseFreedOnce
<1>1. IInv => ResponseFreedOnce
  BY DEF IInv
<1>. QED
  BY <1>1, Invariance, PTL

\* SetFailed in CallMethod means the call is never executed and never
\* completes, whatever happens later on the connection.
THEOREM FailedNeverCompletesHolds == Spec => []FailedNeverCompletes
<1>1. IInv => FailedNeverCompletes
  <2>. SUFFICES ASSUME IInv, NEW c \in failed
                PROVE  executions[c] = 0 /\ completions[c] = 0
    BY DEF FailedNeverCompletes
  <2>1. c \in Calls
    BY DEF IInv, TypeOK, ClientTypeOK
  <2>. QED
    BY <2>1 DEF IInv, ProgressInv
<1>. QED
  BY <1>1, Invariance, PTL

-----------------------------------------------------------------------------
(* The server's connection counter.                                        *)

\* The bound makes the connections finitely many.
LEMMA ConnsFinite == IsFiniteSet(Conns)
BY FS_Interval, MaxConnAssumption DEF Conns

\* The counter and the set of live channels change together.
LEMMA NextPending ==
    ASSUME IInv, PendingCountsChannels, [Next]_vars
    PROVE  PendingCountsChannels'
<1>. DEFINE Live == {k \in Conns : sState[k] = "up"}
<1>1. IsFiniteSet(Live)
  BY ConnsFinite, FS_Subset
<1>2. pending_requests_ = Cardinality(Live)
  BY DEF PendingCountsChannels
<1>3. sState \in [Conns -> {"none", "up", "down"}]
  BY DEF IInv, TypeOK, NetTypeOK
<1>4. CASE UNCHANGED <<sState, pending_requests_>>
  BY <1>4 DEF PendingCountsChannels
<1>5. ASSUME NEW k \in Conns, ServerUp(k) PROVE PendingCountsChannels'
  <2>1. Live' = Live \cup {k} /\ k \notin Live
    BY <1>3, <1>5 DEF ServerUp
  <2>2. pending_requests_' = pending_requests_ + 1
    BY <1>5 DEF ServerUp
  <2>3. Cardinality(Live \cup {k}) = Cardinality(Live) + 1
    BY <2>1, <1>1, FS_AddElement
  <2>. QED
    BY <1>2, <2>1, <2>2, <2>3 DEF PendingCountsChannels
<1>6. ASSUME NEW k \in Conns, ServerDown(k) PROVE PendingCountsChannels'
  <2>1. Live' = Live \ {k} /\ k \in Live
    BY <1>3, <1>6 DEF ServerDown
  <2>2. pending_requests_' = pending_requests_ - 1
    BY <1>6 DEF ServerDown
  <2>3. Cardinality(Live \ {k}) = Cardinality(Live) - 1
    BY <2>1, <1>1, FS_RemoveElement
  <2>. QED
    BY <1>2, <2>1, <2>2, <2>3 DEF PendingCountsChannels
<1>7. ASSUME NEW m \in tasks, RunTaskLate(m) PROVE PendingCountsChannels'
  <2>1. CASE UNCHANGED <<sState, pending_requests_>>
    BY <2>1, <1>4
  <2>2. CASE pending_requests_' = 0 /\ \A k \in Conns : sState'[k] # "up"
    <3>1. Live' = {}
      BY <2>2
    <3>. QED
      BY <2>2, <3>1, FS_EmptySet DEF PendingCountsChannels
  <2>. QED
    BY <1>7, <2>1, <2>2 DEF RunTaskLate
<1>8. CASE Next
  <2>1. ASSUME NEW c \in Calls, CallMethod(c)
        PROVE  UNCHANGED <<sState, pending_requests_>>
    BY <2>1 DEF CallMethod, CallMethodReject, CallMethodNumber,
        CallMethodHeaderFails, CallMethodRegister, CallMethodSend, netVars, serverVars
  <2>2. ASSUME NEW k \in Conns, ClientUp(k) \/ ClientDown(k)
        PROVE  UNCHANGED <<sState, pending_requests_>>
    BY <2>2 DEF ClientUp, ClientDown, serverVars
  <2>3. ASSUME NEW m \in responses, ReceiveResponse(m)
        PROVE  UNCHANGED <<sState, pending_requests_>>
    BY <2>3 DEF ReceiveResponse, serverVars
  <2>4. ASSUME RunDone \/ DestroyChannel
        PROVE  UNCHANGED <<sState, pending_requests_>>
    BY <2>4 DEF RunDone, DestroyChannel, netVars, serverVars
  <2>5. ASSUME NEW m \in requests, ServeRequest(m)
        PROVE  UNCHANGED <<sState, pending_requests_>>
    BY <2>5 DEF ServeRequest, RefuseRequest, ServeInline, ServePooled
  <2>6. ASSUME NEW m \in tasks, RunTask(m)
        PROVE  UNCHANGED <<sState, pending_requests_>>
    BY <2>6 DEF RunTask
  <2>. QED
    BY <1>8, <1>4, <1>5, <1>6, <1>7, <2>1, <2>2, <2>3, <2>4, <2>5, <2>6 DEF Next
<1>9. CASE UNCHANGED vars
  BY <1>4, <1>9 DEF vars, netVars, serverVars
<1>. QED
  BY <1>8, <1>9

\* pending_requests_ counts the live server channels, for any number of
\* connections and through crashes of the server process.
THEOREM PendingCountsChannelsHolds == Spec => []PendingCountsChannels
<1>1. Init => PendingCountsChannels
  <2>. SUFFICES ASSUME Init PROVE {k \in Conns : sState[k] = "up"} = {}
                                  /\ pending_requests_ = 0
    BY FS_EmptySet DEF PendingCountsChannels
  <2>. QED
    BY DEF Init
<1>2. IInv /\ PendingCountsChannels /\ [Next]_vars => PendingCountsChannels'
  BY NextPending
<1>. QED
  BY <1>1, <1>2, Invariance, PTL DEF Spec

-----------------------------------------------------------------------------
(* The refinement of at-most-once calls.                                   *)

\* The initial states map to the abstract initial state.
LEMMA RefineInit == Init => Rpc!RpcInit
BY DEF Init, Rpc!RpcInit

\* A step maps to Issue, Fail, Execute, Complete or to a stutter.
LEMMA RefineStep ==
    ASSUME IInv, [Next]_vars
    PROVE  [Rpc!RpcNext]_(Rpc!rpcVars)
<1>. DEFINE issued == {c \in Calls : pc[c] # "idle"}
<1>. USE DEF callerVars, receiverVars, netVars, serverVars
<1>1. TypeOK /\ ProgressInv
  BY DEF IInv
<1>2. ASSUME UNCHANGED <<pc, failed, executions, completions, answer>>
      PROVE  UNCHANGED Rpc!rpcVars
  BY <1>2 DEF Rpc!rpcVars
<1>3. ASSUME NEW c \in Calls, CallMethod(c)
      PROVE  Rpc!RpcNext \/ UNCHANGED Rpc!rpcVars
  <2>. USE <1>1 DEF TypeOK, ClientTypeOK, PcState
  <2>1. CASE CallMethodReject(c)
    <3>1. c \notin failed /\ executions[c] = 0 /\ completions[c] = 0
      BY <2>1 DEF ProgressInv, CallMethodReject, ServerTypeOK
    <3>2. issued' = issued \cup {c}
      BY <2>1 DEF CallMethodReject
    <3>3. Rpc!Fail(c)
      BY <2>1, <3>1, <3>2 DEF CallMethodReject, Rpc!Fail
    <3>. QED
      BY <3>3 DEF Rpc!RpcNext
  <2>2. CASE CallMethodNumber(c)
    <3>1. issued' = issued \cup {c} /\ c \notin issued
      BY <2>2 DEF CallMethodNumber
    <3>2. Rpc!Issue(c)
      BY <2>2, <3>1 DEF CallMethodNumber, Rpc!Issue
    <3>. QED
      BY <3>2 DEF Rpc!RpcNext
  <2>3. CASE CallMethodHeaderFails(c)
    <3>1. c \notin failed /\ executions[c] = 0 /\ completions[c] = 0
      BY <2>3 DEF ProgressInv, CallMethodHeaderFails, ServerTypeOK
    <3>2. issued' = issued \cup {c}
      BY <2>3 DEF CallMethodHeaderFails
    <3>3. Rpc!Fail(c)
      BY <2>3, <3>1, <3>2 DEF CallMethodHeaderFails, Rpc!Fail
    <3>. QED
      BY <3>3 DEF Rpc!RpcNext
  <2>4. CASE CallMethodRegister(c)
    <3>1. issued' = issued
      BY <2>4 DEF CallMethodRegister
    <3>. QED
      BY <2>4, <3>1 DEF CallMethodRegister, Rpc!rpcVars
  <2>5. CASE CallMethodSend(c)
    <3>1. issued' = issued \cup {c} /\ issued' = issued
      BY <2>5 DEF CallMethodSend
    <3>2. c \notin failed /\ executions[c] = 0 /\ completions[c] = 0
      BY <2>5 DEF ProgressInv, CallMethodSend, ServerTypeOK
    <3>3. CASE failed' = failed \cup {c}
      <4>1. Rpc!Fail(c)
        BY <2>5, <3>1, <3>2, <3>3 DEF CallMethodSend, Rpc!Fail
      <4>. QED
        BY <4>1 DEF Rpc!RpcNext
    <3>4. CASE UNCHANGED failed
      BY <2>5, <3>1, <3>4 DEF CallMethodSend, Rpc!rpcVars
    <3>. QED
      BY <2>5, <3>3, <3>4 DEF CallMethodSend
  <2>. QED
    BY <1>3, <2>1, <2>2, <2>3, <2>4, <2>5 DEF CallMethod
<1>4. ASSUME NEW k \in Conns, ClientUp(k) \/ ClientDown(k)
             \/ ServerUp(k) \/ ServerDown(k)
      PROVE  UNCHANGED Rpc!rpcVars
  BY <1>2, <1>4 DEF ClientUp, ClientDown, ServerUp, ServerDown
<1>5. ASSUME NEW m \in responses, ReceiveResponse(m)
      PROVE  UNCHANGED Rpc!rpcVars
  BY <1>2, <1>5 DEF ReceiveResponse
<1>6. CASE DestroyChannel
  BY <1>2, <1>6 DEF DestroyChannel
<1>7. CASE RunDone
  <2>1. /\ handling.call \in Calls /\ handling.payload = handling.call
        /\ completions[handling.call] = 0 /\ executions[handling.call] = 1
    <3>1. handling = [call |-> handling.call, payload |-> handling.payload]
          /\ handling.call \in Calls \cup {NoCall}
      BY <1>1 DEF TypeOK, ClientTypeOK
    <3>2. HandlingInv
      BY DEF IInv
    <3>3. handling # Idle
      BY <1>7 DEF RunDone
    <3>. QED
      BY <3>1, <3>2, <3>3 DEF HandlingInv, Idle
  <2>2. Rpc!Complete(handling.call)
    <3>1. completions' = [completions EXCEPT ![handling.call] = 1]
      BY <1>7, <2>1 DEF RunDone
    <3>2. \E a \in {handling.call, NoCall} :
             answer' = [answer EXCEPT ![handling.call] = a]
      BY <1>7, <2>1 DEF RunDone
    <3>3. UNCHANGED <<pc, failed, executions>>
      BY <1>7 DEF RunDone
    <3>. QED
      BY <2>1, <3>1, <3>2, <3>3 DEF Rpc!Complete
  <2>. QED
    BY <2>1, <2>2 DEF Rpc!RpcNext
<1>8. ASSUME NEW m \in InFlight, m \in requests \cup tasks,
             executions' = [executions EXCEPT ![m.call] = @ + 1],
             UNCHANGED <<pc, failed, completions, answer>>
      PROVE  Rpc!RpcNext
  <2>1. /\ m.call \in Calls /\ pc[m.call] = "returned"
        /\ m.call \notin failed /\ executions[m.call] = 0
    BY <1>1, <1>8 DEF IInv, FlightInv, TypeOK, NetTypeOK, ServerTypeOK, Message
  <2>2. executions' = [executions EXCEPT ![m.call] = 1]
    BY <1>8, <2>1
  <2>3. Rpc!Execute(m.call)
    BY <1>8, <2>1, <2>2 DEF Rpc!Execute
  <2>. QED
    BY <2>1, <2>3 DEF Rpc!RpcNext
<1>9. ASSUME NEW m \in requests, ServeRequest(m)
      PROVE  Rpc!RpcNext \/ UNCHANGED Rpc!rpcVars
  <2>1. CASE RefuseRequest(m) \/ ServePooled(m)
    BY <1>2, <2>1 DEF RefuseRequest, ServePooled
  <2>2. CASE ServeInline(m)
    BY <1>8, <2>2 DEF ServeInline, InFlight
  <2>. QED
    BY <1>9, <2>1, <2>2 DEF ServeRequest
<1>10. ASSUME NEW m \in tasks, RunTask(m) \/ RunTaskLate(m)
       PROVE  Rpc!RpcNext
  BY <1>8, <1>10 DEF RunTask, RunTaskLate, InFlight
<1>11. CASE UNCHANGED vars
  BY <1>2, <1>11 DEF vars
<1>. QED
  BY <1>3, <1>4, <1>5, <1>6, <1>7, <1>9, <1>10, <1>11 DEF Next

\* The channel pair implements at-most-once calls (RpcCalls): each step of
\* the detailed specification is a step of the abstract one or changes
\* nothing its user can see.
THEOREM Refinement == Spec => ImplementsRpcCalls
<1>1. IInv /\ [Next]_vars => [Rpc!RpcNext]_(Rpc!rpcVars)
  BY RefineStep
<1>. QED
  BY <1>1, RefineInit, Invariance, PTL DEF Spec, ImplementsRpcCalls, Rpc!RpcSpec
=============================================================================
