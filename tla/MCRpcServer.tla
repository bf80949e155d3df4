---------------------------- MODULE MCRpcServer -----------------------------
(* RpcServer on a few connections.                                         *)
EXTENDS RpcServer
=============================================================================
