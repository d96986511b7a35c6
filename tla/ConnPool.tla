------------------------------ MODULE ConnPool ------------------------------
(***************************************************************************)
(* What the rpc client's connection pool promises (spec 4.1, "connection   *)
(* reuse without reuse-after-error"): a connection is used by one call at  *)
(* a time; when the call is over it is either kept for reuse or closed,    *)
(* and it is kept only if the call saw no transport error and the pool    *)
(* holds fewer than PoolSize connections; a closed connection is never    *)
(* used again.  Kept connections may be closed when a call looks for one  *)
(* (expiry).  Which connection a call gets, and when, is left open.       *)
(***************************************************************************)
EXTENDS Naturals, FiniteSets

CONSTANTS Callers, Conns, PoolSize, NoConn

VARIABLES
  status,   \* per connection: "unused", "held", "pooled" or "closed"
  holder,   \* per call: the connection it uses, or NoConn
  outcome   \* per call: "none" while it runs, "ok" or "err" once over

vars == <<status, holder, outcome>>

Pooled == {k \in Conns : status[k] = "pooled"}

Init ==
  /\ status = [k \in Conns |-> "unused"]
  /\ holder = [p \in Callers |-> NoConn]
  /\ outcome = [p \in Callers |-> "none"]

\* Some kept connections are closed (expired) while p looks for one.
ExpireSome(gone) ==
  [k \in Conns |-> IF k \in gone THEN "closed" ELSE status[k]]

\* p gets a connection never used or kept for reuse, or fails to.
Get(p) ==
  /\ holder[p] = NoConn
  /\ \E gone \in SUBSET Pooled :
       LET st == ExpireSome(gone) IN
       \/ \E k \in Conns :
            /\ st[k] \in {"unused", "pooled"}
            /\ status' = [st EXCEPT ![k] = "held"]
            /\ holder' = [holder EXCEPT ![p] = k]
            /\ outcome' = [outcome EXCEPT ![p] = "none"]
       \/ /\ status' = st
            /\ outcome' = [outcome EXCEPT ![p] = "err"]
            /\ UNCHANGED holder

\* p's call is over: a connection that saw an error is closed; otherwise
\* it is kept if the pool has room, or closed.
Put(p) ==
  LET k == holder[p] IN
  /\ k # NoConn
  /\ holder' = [holder EXCEPT ![p] = NoConn]
  /\ \E r \in {"ok", "err"} :
       /\ outcome' = [outcome EXCEPT ![p] = r]
       /\ \/ status' = [status EXCEPT ![k] = "closed"]
          \/ /\ r = "ok"
             /\ Cardinality(Pooled) < PoolSize
             /\ status' = [status EXCEPT ![k] = "pooled"]

Next == \E p \in Callers : Get(p) \/ Put(p)

Spec == Init /\ [][Next]_vars
=============================================================================
