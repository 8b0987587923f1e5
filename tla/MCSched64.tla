----------------------------- MODULE MCSched64 -----------------------------
(* Sched64 for TLC.  The slice and the thread table are scaled down.       *)
EXTENDS Sched64Turns, TLC

\* The application processors are interchangeable.
APs == Permutations(CPUs \ {BSP})
=============================================================================
