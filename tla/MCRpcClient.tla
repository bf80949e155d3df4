---------------------------- MODULE MCRpcClient -----------------------------
(* RpcClient on a few interchangeable calls.                               *)
EXTENDS RpcClient, TLC

CallSymmetry == Permutations(Calls)
=============================================================================
