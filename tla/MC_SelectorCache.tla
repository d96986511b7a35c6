-------------------------- MODULE MC_SelectorCache --------------------------
(* Model-checking instance of SelectorCache: two services, two instances. *)
EXTENDS SelectorCache, TLC

CONSTANTS s1, s2, i1, i2

MCNames == {s1, s2}
MCInstances == {i1, i2}
=============================================================================
