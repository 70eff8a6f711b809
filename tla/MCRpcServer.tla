---------------------------- MODULE MCRpcServer -----------------------------
(* RpcServer with one service of one method.                              *)
EXTENDS RpcServer, TLC

\* Node 2 is the method of service node 1.
OneService == 2 :> 1
=============================================================================
