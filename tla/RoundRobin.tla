----------------------------- MODULE RoundRobin -----------------------------
(***************************************************************************)
(* What both schedulers promise: a queue of threads for each priority, the *)
(* highest that is not empty served in turn.  A reschedule puts the thread *)
(* that runs at the end of its queue and runs the first one.               *)
(***************************************************************************)
EXTENDS Integers, Sequences

CONSTANTS Priorities, MaxThreads

VARIABLES queue, served       \* the thread that runs, 0 before the first reschedule

TurnVars == <<queue, served>>
Queued == UNION {{queue[p][k] : k \in DOMAIN queue[p]} : p \in Priorities}

TurnInit == queue = [p \in Priorities |-> << >>] /\ served = 0

\* A new thread waits for its turn behind all others of its priority.
Create(t, p) ==
  /\ t \notin Queued
  /\ queue' = [queue EXCEPT ![p] = Append(@, t)]
  /\ UNCHANGED served

Waiting == {p \in Priorities : queue[p] # << >>}
Turn ==
  \E p \in Waiting :
    /\ \A o \in Waiting : o <= p
    /\ LET q == queue[p]
           order == IF Head(q) = served THEN Append(Tail(q), served) ELSE q
       IN  queue' = [queue EXCEPT ![p] = order] /\ served' = Head(order)

TurnNext == Turn \/ \E t \in 1 .. MaxThreads, p \in Priorities : Create(t, p)
TurnSpec == TurnInit /\ [][TurnNext]_TurnVars
=============================================================================
