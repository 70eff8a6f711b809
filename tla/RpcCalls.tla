------------------------------ MODULE RpcCalls ------------------------------
(***************************************************************************)
(* What the RPC layer promises its user, without ids, maps, connections or *)
(* threads: at-most-once remote calls.  A call is issued; it may be        *)
(* reported failed, but then it is neither executed nor answered; it is    *)
(* executed at most once; and its closure runs at most once, only after    *)
(* the execution, with the answer to this very call (or with an answer     *)
(* that did not parse).  A call whose connection breaks may stay without   *)
(* an answer: the layer has no timeout and no retry.                       *)
(***************************************************************************)
EXTENDS Naturals

CONSTANTS Calls,    \* the calls the user of the stub makes
          NoCall    \* the answer of no call

VARIABLES issued,      \* calls handed to CallMethod
          failed,      \* calls reported failed through the controller
          executions,  \* executions[c]: times the service method ran for c
          completions, \* completions[c]: times the user's closure of c ran
          answer       \* answer[c]: the call whose reply c's closure saw

rpcVars == <<issued, failed, executions, completions, answer>>

RpcInit ==
    /\ issued = {}
    /\ failed = {}
    /\ executions = [c \in Calls |-> 0]
    /\ completions = [c \in Calls |-> 0]
    /\ answer = [c \in Calls |-> NoCall]

Issue(c) ==
    /\ c \notin issued
    /\ issued' = issued \cup {c}
    /\ UNCHANGED <<failed, executions, completions, answer>>

Fail(c) ==
    /\ c \notin failed
    /\ executions[c] = 0
    /\ completions[c] = 0
    /\ issued' = issued \cup {c}
    /\ failed' = failed \cup {c}
    /\ UNCHANGED <<executions, completions, answer>>

Execute(c) ==
    /\ c \in issued \ failed
    /\ executions[c] = 0
    /\ executions' = [executions EXCEPT ![c] = 1]
    /\ UNCHANGED <<issued, failed, completions, answer>>

Complete(c) ==
    /\ executions[c] = 1
    /\ completions[c] = 0
    /\ completions' = [completions EXCEPT ![c] = 1]
    /\ \E a \in {c, NoCall} : answer' = [answer EXCEPT ![c] = a]
    /\ UNCHANGED <<issued, failed, executions>>

RpcNext == \E c \in Calls : Issue(c) \/ Fail(c) \/ Execute(c) \/ Complete(c)

RpcSpec == RpcInit /\ [][RpcNext]_rpcVars
=============================================================================
