------------------------------ MODULE BigLock ------------------------------
(***************************************************************************)
(* What the big kernel lock promises: one CPU at a time owns it, and only  *)
(* the owner gives it up.                                                  *)
(***************************************************************************)
CONSTANTS CPUs, None

VARIABLE owner

BInit == owner = None

Acquire(c) == owner = None /\ owner' = c
Release(c) == owner = c /\ owner' = None

BNext == \E c \in CPUs : Acquire(c) \/ Release(c)

BSpec == BInit /\ [][BNext]_owner
=============================================================================
