-------------------------- MODULE ServerLifecycle --------------------------
(***************************************************************************)
(* What an rpc Server promises about its lifecycle (src/server/rpc/        *)
(* server.go, comment at lines 20-27): Start and Stop may be called any    *)
(* number of times; each Start takes a reference, each Stop after the      *)
(* first Start releases one (never below zero).  The server serves from    *)
(* the first Start, and stops for good, exactly once, when the references  *)
(* have all been released.  A stopped server is never started again.      *)
(***************************************************************************)
EXTENDS Naturals

VARIABLES
  refs,   \* the number of Starts not yet matched by a Stop
  phase   \* "new", "serving" or "stopped"

vars == <<refs, phase>>

Phases == {"new", "serving", "stopped"}

TypeOK == refs \in Nat /\ phase \in Phases

Init == refs = 0 /\ phase = "new"

\* Start takes a reference; the first one makes the server serve.
Start ==
  /\ refs' = refs + 1
  /\ phase' = IF phase = "new" THEN "serving" ELSE phase

\* Stop before the first Start does nothing; afterwards it releases a
\* reference, never going below zero.
Stop ==
  /\ phase # "new"
  /\ refs' = IF refs > 0 THEN refs - 1 ELSE 0
  /\ UNCHANGED phase

\* Once no reference is held, the serving server may stop, for good.
Close ==
  /\ phase = "serving"
  /\ refs = 0
  /\ phase' = "stopped"
  /\ UNCHANGED refs

Next == Start \/ Stop \/ Close

Spec == Init /\ [][Next]_vars
=============================================================================
