---------------------------- MODULE MC_RpcClient ----------------------------
(* Model-checking instance of RpcClient: two callers on one address.      *)
EXTENDS RpcClient, TLC

CONSTANTS p1, p2, k1, k2, k3, k4

MCCallers == {p1, p2}
MCConns == {k1, k2, k3, k4}
=============================================================================
