------------------------- MODULE Sched64TurnsProofs -------------------------
(***************************************************************************)
(* The rings of the scheduler stay whole on any number of CPUs, and on one *)
(* CPU they are the queues of RoundRobin.                                  *)
(***************************************************************************)
EXTENDS Sched64Turns, Sched64Proofs, RingProofs

(* The rings.  That they stay whole holds on any number of CPUs.           *)
Rings64 == RingsOK(Prio, thread64_count, priority, next, ready_queue, ready_bitmap)
queues == Queues(Prio, thread64_count, priority, next, ready_queue)

\* The pointers, as RingProofs takes them.
LEMMA RingTypes64 ==
  ASSUME IInv
  PROVE  /\ RingTypes(Prio, MAX_THREADS64, thread64_count, priority, next, ready_queue)
         /\ thread64_count \in Nat /\ MAX_THREADS64 \in Nat /\ ready_bitmap \in SUBSET Prio
BY SchedAssumption DEF IInv, TypeOK, ThreadTypeOK, DispatchTypeOK, Threads, Thread0, RingTypes

(* sched64_create_thread puts the thread at the end of its queue.          *)
LEMMA CreateTurn64 ==
  ASSUME IInv, Rings64, NEW p \in 0 .. NUM_PRIORITIES64, sched64_create_thread(p)
  PROVE  Rings64' /\ R!TurnNext
<1> DEFINE t == thread64_count + 1
<1>1. /\ p \in Prio /\ thread64_count < MAX_THREADS64 /\ t \in 1 .. MAX_THREADS64
      /\ t \notin 1 .. thread64_count
  BY RingTypes64, SchedAssumption DEF sched64_create_thread, CanCreate, Prio
<1>2. /\ thread64_count' = t /\ ready_bitmap' = ready_bitmap \union {p} /\ current' = current
      /\ Linked(MAX_THREADS64, thread64_count, t, priority, next, ready_queue, p,
                priority', next', ready_queue')
  BY <1>1 DEF sched64_create_thread, tail, dispatchVars, Linked
<1>3. /\ RingTypes(Prio, MAX_THREADS64, thread64_count, priority, next, ready_queue)
      /\ RingsOK(Prio, thread64_count, priority, next, ready_queue, ready_bitmap)
      /\ p \in Prio
      /\ Linked(MAX_THREADS64, thread64_count, t, priority, next, ready_queue, p,
                priority', next', ready_queue')
  BY <1>1, <1>2, RingTypes64 DEF Rings64
<1>4. \A q \in Prio : \A k \in DOMAIN queues[q] : queues[q][k] \in 1 .. thread64_count
  BY <1>3, RingsHold, Zenon DEF queues
<1> HIDE DEF t
<1>5. RingsOK(Prio, t, priority', next', ready_queue', ready_bitmap \union {p})
  BY <1>3, RingsCreate, Zenon
<1>6. Joined(queues, p, t, Queues(Prio, t, priority', next', ready_queue'))
  BY <1>3, RingsCreate, Zenon DEF queues
<1>7. Rings64' /\ queues' = [queues EXCEPT ![p] = Append(@, t)]
  BY <1>2, <1>5, <1>6 DEF Rings64, queues, Joined
<1>8. t \notin R!Queued
  <2>1. \A q \in Prio : \A k \in DOMAIN queues[q] : queues[q][k] # t
    BY <1>1, <1>4
  <2>2. QED
    BY <2>1 DEF R!Queued, queues
<1>9. R!Create(t, p)
  BY <1>2, <1>7, <1>8 DEF R!Create, queues
<1>10. QED
  BY <1>1, <1>7, <1>9 DEF R!TurnNext

(* A reschedule that switches rotates the top queue; one that does not     *)
(* leaves all queues alone.                                                *)
LEMMA PickTurn64 ==
  ASSUME IInv, Rings64, NEW c \in CPUs, reschedule_pick(c)
  PROVE  /\ Rings64'
         /\ c = BSP => R!TurnNext \/ UNCHANGED R!TurnVars
<1> DEFINE top == find_highest_bit64(ready_bitmap)
<1>1. UNCHANGED <<thread64_count, priority, next, ready_bitmap>>
  BY DEF reschedule_pick
<1>2. CASE stays(c)
  <2>1. UNCHANGED <<ready_queue, current>>
    BY <1>2 DEF reschedule_pick, dispatchVars
  <2>2. QED
    BY <1>1, <2>1 DEF Rings64, R!TurnVars
<1>3. CASE ~stays(c)
  <2>1. /\ Moved(next, ready_queue, top, current[c], choice(c), ready_queue')
        /\ current' = [current EXCEPT ![c] = choice(c)] /\ ready_bitmap # {}
    BY <1>3, Zenon DEF reschedule_pick, stays, choice, running, Moved
  <2>2. top \in Prio /\ top \in ready_bitmap
    BY <2>1, TopBit
  <2>3. \A q \in ready_bitmap : q <= top
    BY <2>1, Zenon DEF IInv, FrameInv, find_highest_bit64
  <2>4. \A q \in Prio : /\ queues[q] # << >> <=> q \in ready_bitmap
                        /\ \A k \in DOMAIN queues[q] : queues[q][k] \in 1 .. thread64_count
    BY RingsHold, Zenon DEF Rings64, queues
  <2> HIDE DEF top
  <2>5. /\ RingsOK(Prio, thread64_count, priority, next, ready_queue', ready_bitmap)
        /\ Queues(Prio, thread64_count, priority, next, ready_queue')
             = [queues EXCEPT ![top] = Turned(@, current[c])]
        /\ choice(c) = Head(Turned(queues[top], current[c]))
    <3> DEFINE new == choice(c)
               run == current[c]
               heads2 == ready_queue'
    <3>1. /\ RingTypes(Prio, MAX_THREADS64, thread64_count, priority, next, ready_queue)
          /\ RingsOK(Prio, thread64_count, priority, next, ready_queue, ready_bitmap)
          /\ Moved(next, ready_queue, top, run, new, heads2)
      BY <2>1, RingTypes64, Zenon DEF Rings64
    <3> HIDE DEF new, run, heads2
    <3>2. /\ RingsOK(Prio, thread64_count, priority, next, heads2, ready_bitmap)
          /\ Queues(Prio, thread64_count, priority, next, heads2)
               = [queues EXCEPT ![top] = Turned(@, run)]
          /\ new = Head(Turned(queues[top], run))
      BY <2>2, <3>1, RingsServe DEF queues
    <3>3. QED
      BY <3>2, Zenon DEF new, run, heads2
  <2>6. /\ Rings64' /\ queues' = [queues EXCEPT ![top] = Turned(queues[top], current[c])]
        /\ current'[c] = Head(Turned(queues[top], current[c]))
    BY <1>1, <2>1, <2>5 DEF Rings64, queues, IInv, TypeOK, DispatchTypeOK
  <2>7. R!Waiting = ready_bitmap
    BY <2>4, RingTypes64 DEF R!Waiting, queues
  <2>8. c = BSP => R!Turn
    BY <2>2, <2>3, <2>6, <2>7, Zenon DEF R!Turn, queues, Turned
  <2>9. QED
    BY <2>6, <2>8 DEF R!TurnNext
<1>4. QED
  BY <1>2, <1>3

(* No other step touches the queues or changes the thread served.          *)
LEMMA TurnStep64 ==
  ASSUME IInv, Rings64, [Next]_vars
  PROVE  /\ Rings64'
         /\ (\A c \in CPUs : c = BSP) => [R!TurnNext]_(R!TurnVars)
<1>1. ASSUME UNCHANGED <<thread64_count, priority, next, ready_queue, ready_bitmap, current>>
      PROVE  Rings64' /\ UNCHANGED R!TurnVars
  BY <1>1 DEF Rings64, R!TurnVars
<1>2. CASE Quiet
  BY <1>1, <1>2 DEF Quiet, queueVars, dispatchVars
<1>3. ASSUME NEW c \in CPUs, context_switch64(c) PROVE Rings64' /\ UNCHANGED R!TurnVars
  BY <1>1, <1>3 DEF context_switch64, threadVars, queueVars, dispatchVars
<1>4. QED
  BY <1>2, <1>3, QuietCases, CreateTurn64, PickTurn64, Zenon
-----------------------------------------------------------------------------
(* Whatever CPUs create, pick and switch at once, every thread made is on  *)
(* the ring of its priority exactly once, next leads round it, and the     *)
(* bitmap and the heads say which rings there are: none is ever lost.      *)
THEOREM RingsWhole == Spec => []Rings64
<1>1. Init => Rings64
  BY RingsInit DEF Init, Rings64
<1>2. QED
  BY <1>1, Invariance, TurnStep64, PTL DEF Spec

(* On one CPU the rings of sched64.c are the queues of RoundRobin: every   *)
(* reschedule that switches, whoever calls it, serves the next in turn of  *)
(* the highest priority, and a new thread waits behind all others of its.  *)
THEOREM TurnsTaken64 ==
  ASSUME \A c \in CPUs : c = BSP
  PROVE  Spec => TakesTurns
<1>1. Init => R!TurnInit
  BY CpuAssumption, RingsInit DEF Init, R!TurnInit
<1>2. QED
  BY <1>1, Invariance, RingsWhole, TurnStep64, PTL DEF Spec, TakesTurns, R!TurnSpec
=============================================================================
