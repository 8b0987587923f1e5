---------------------------- MODULE Sched64Turns ----------------------------
(***************************************************************************)
(* The order in which sched64.c serves its threads: on one CPU, Sched64    *)
(* implements RoundRobin.                                                  *)
(***************************************************************************)
EXTENDS Sched64, Rings

R == INSTANCE RoundRobin WITH Priorities <- Prio, MaxThreads <- MAX_THREADS64,
                              queue <- Queues(Prio, thread64_count, priority, next, ready_queue),
                              served <- current[BSP]

\* On one CPU the rings of pointers are the queues of RoundRobin: new threads go
\* to the end of theirs, each reschedule that switches serves the next in turn
\* of the highest priority, and no thread is passed over or lost, whichever of
\* the ticks, unlocks and idle loops calls sched64_reschedule.
TakesTurns == R!TurnSpec
=============================================================================
