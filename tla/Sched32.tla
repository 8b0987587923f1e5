------------------------------ MODULE Sched32 ------------------------------
(***************************************************************************)
(* The cooperative scheduler of the 32-bit kernel (sched.c, main.c,        *)
(* context_switch.s): a program of its own, on one CPU, with interrupts    *)
(* off throughout.  kernel_main creates threads, whatever comes of it,     *)
(* and reschedules; from then on threads yield.  sched_timer_tick has no   *)
(* caller.  A thread is an index into threads, 0 the null pointer; esp[t]  *)
(* is the stack that the saved stack pointer of t points into, exec the    *)
(* stack the CPU runs on, 0 for the one of boot.s.                         *)
(***************************************************************************)
EXTENDS Rings

CONSTANTS MAX_THREADS, NUM_PRIORITIES
ASSUME Sched32Assumption == MAX_THREADS \in Nat \ {0} /\ NUM_PRIORITIES \in Nat \ {0}

Threads == 1 .. MAX_THREADS
Prio == 0 .. NUM_PRIORITIES - 1

VARIABLES thread_count, priority, state, next, esp,    \* threads
          ready_bitmap, ready_queue, current,          \* the_scheduler
          exec,
          main                                         \* the point of kernel_main
vars32 == <<thread_count, priority, state, next, esp, ready_bitmap, ready_queue,
          current, exec, main>>

\* Every variable keeps to its type.
TypeOK32 ==
  /\ thread_count \in 0 .. MAX_THREADS
  /\ priority \in [Threads -> Prio] /\ state \in [Threads -> {"UNUSED", "READY", "RUNNING"}]
  /\ next \in [Threads -> 0 .. MAX_THREADS] /\ esp \in [Threads -> 0 .. MAX_THREADS]
  /\ ready_bitmap \in SUBSET Prio /\ ready_queue \in [Prio -> 0 .. MAX_THREADS]
  /\ current \in 0 .. MAX_THREADS /\ exec \in 0 .. MAX_THREADS
  /\ main \in {"create", "loop", "hlt"}

\* sched_init, and zeroed statics.
Init32 ==
  /\ thread_count = 0
  /\ priority = [t \in Threads |-> 0] /\ state = [t \in Threads |-> "UNUSED"]
  /\ next = [t \in Threads |-> 0] /\ esp = [t \in Threads |-> 0]
  /\ ready_bitmap = {} /\ ready_queue = [p \in Prio |-> 0] /\ current = 0
  /\ exec = 0 /\ main = "create"
-----------------------------------------------------------------------------
Mut_tail(p) == ready_queue[p]
tail(p) == CHOOSE u \in 1 .. thread_count : priority[u] = p /\ next[u] = ready_queue[p]

sched_create_thread(p) ==
  LET t == thread_count + 1
      head == ready_queue[p]
  IN
  /\ main = "create" /\ thread_count < MAX_THREADS /\ p < NUM_PRIORITIES
  /\ thread_count' = t
  /\ priority' = [priority EXCEPT ![t] = p]
  /\ state' = [state EXCEPT ![t] = "READY"]
  /\ esp' = [esp EXCEPT ![t] = t]
  /\ IF head = 0
       THEN /\ next' = [next EXCEPT ![t] = t]
            /\ ready_queue' = [ready_queue EXCEPT ![p] = t]
       ELSE /\ next' = [next EXCEPT ![tail(p)] = t, ![t] = head]
            /\ UNCHANGED ready_queue
  /\ ready_bitmap' = ready_bitmap \union {p}
  /\ UNCHANGED <<current, exec, main>>

\* It returns 0, which kernel_main does not look at.
create_refused(p) ==
  /\ main = "create" /\ (thread_count = MAX_THREADS \/ p >= NUM_PRIORITIES)
  /\ UNCHANGED vars32

creation_done ==
  /\ main = "create" /\ main' = "loop"
  /\ UNCHANGED <<thread_count, priority, state, next, esp, ready_bitmap, ready_queue,
                 current, exec>>

find_highest_bit(bitmap) == CHOOSE p \in bitmap : \A q \in bitmap : q <= p
head_of_top == ready_queue[find_highest_bit(ready_bitmap)]
Mut_choice == head_of_top
choice == IF head_of_top = current /\ next[head_of_top] # head_of_top
            THEN next[head_of_top] ELSE head_of_top

\* context_switch stores the stack pointer at prev->esp, or in dummy_esp for
\* the boot stack, and loads next->esp.
Mut_saved(prev) == [esp EXCEPT ![choice] = exec]
saved(prev) == [t \in Threads |-> IF t = prev THEN exec ELSE esp[t]]
sched_reschedule ==
  /\ ready_bitmap # {} /\ choice # current
  /\ ready_queue' = [ready_queue EXCEPT ![find_highest_bit(ready_bitmap)] = choice]
  /\ current' = choice
  /\ state' = [t \in Threads |-> IF t = current THEN "READY"
                                 ELSE IF t = choice THEN "RUNNING" ELSE state[t]]
  /\ esp' = saved(current)
  /\ exec' = esp[choice]
  /\ UNCHANGED <<thread_count, priority, next, ready_bitmap, main>>

\* The loop of kernel_main: without threads, hlt with interrupts off is final.
kernel_main ==
  /\ main = "loop" /\ exec = 0
  /\ \/ sched_reschedule
     \/ /\ ready_bitmap = {} /\ main' = "hlt"
        /\ UNCHANGED <<thread_count, priority, state, next, esp, ready_bitmap,
                       ready_queue, current, exec>>

\* A turn of the loop of thread_a, thread_b or thread_c_low_priority.
sched_yield == exec # 0 /\ sched_reschedule

Next32 ==
  \/ \E p \in 0 .. NUM_PRIORITIES : sched_create_thread(p) \/ create_refused(p)
  \/ creation_done \/ kernel_main \/ sched_yield
Spec32 == Init32 /\ [][Next32]_vars32
\* Every turn of a thread's loop ends with sched_yield.
FairSpec32 == Spec32 /\ WF_vars32(kernel_main) /\ WF_vars32(sched_yield)
-----------------------------------------------------------------------------
\* The CPU runs on the stack of the thread that current names, that thread is
\* the one marked RUNNING, and what is saved for any other is a pointer into
\* its own stack: context_switch never mixes two threads up.
RunsCurrent ==
  /\ exec = current
  /\ \A t \in Threads : state[t] = "RUNNING" <=> t = current /\ current # 0
  /\ \A t \in 1 .. thread_count : esp[t] = t

R == INSTANCE RoundRobin WITH Priorities <- Prio, MaxThreads <- MAX_THREADS,
                              queue <- Queues(Prio, thread_count, priority, next, ready_queue),
                              served <- current

\* The ring of pointers is the queue of RoundRobin: new threads go to its end,
\* and every yield serves the next in turn of the highest priority.
TakesTurns == R!TurnSpec

Top(t) == t <= thread_count /\ \A u \in 1 .. thread_count : priority[u] <= priority[t]
OnlyTop == \A t \in Threads : exec = t => Top(t)

\* Once the scheduler runs, every thread of the highest priority gets the CPU
\* again and again, and no other thread ever does (main.c:58).
TopThreadsRun ==
  []OnlyTop /\ \A t \in Threads : main = "loop" /\ Top(t) ~> exec = t
=============================================================================
