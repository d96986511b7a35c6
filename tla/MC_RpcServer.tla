---------------------------- MODULE MC_RpcServer ----------------------------
(* Model-checking instance of RpcServer: two holders, two connections.     *)
EXTENDS RpcServer, TLC

CONSTANTS h1, h2, c1, c2

MCHolders == {h1, h2}
MCConns == {c1, c2}
=============================================================================
