--------------------------- MODULE Sched64Proofs ---------------------------
(***************************************************************************)
(* Safety of the scheduler and of its lock, for any number of CPUs,        *)
(* threads and priorities.  The inductive invariant is IInv: types, the    *)
(* control points (CtlInv), the lock (MutualExclusion), who runs what      *)
(* (ExecInv) and what the saved frames hold (FrameInv).  Each part is      *)
(* preserved by a lemma of its own; none is inductive alone.  The lock     *)
(* needs the counters to be exact, the counters need the resumed frames    *)
(* to be sound, and the frames need the lock, because only its holder      *)
(* saves and loads one.                                                    *)
(***************************************************************************)
EXTENDS Sched64, TLAPS

(* On a nonempty bitmap find_highest_bit64 returns a bit that is set.      *)
LEMMA TopBit ==
  ASSUME IInv, ready_bitmap # {}
  PROVE  find_highest_bit64(ready_bitmap) \in Prio \cap ready_bitmap
<1>1. ready_bitmap \in SUBSET Prio
  BY Zenon DEF IInv, TypeOK, DispatchTypeOK
<1>2. find_highest_bit64(ready_bitmap) \in ready_bitmap
  BY Zenon DEF IInv, FrameInv, find_highest_bit64
<1>3. QED
  BY <1>1, <1>2, Zenon

-----------------------------------------------------------------------------
(* Which steps there are, seen from the variables they change.             *)

(* Only thread creation, the pick, the switch and the ticks of a running   *)
(* thread change the scheduler's variables.                                *)
LEMMA SchedSteps ==
  ASSUME [Next]_vars
  PROVE  \/ UNCHANGED schedVars
         \/ /\ ~Stopped
            /\ \/ \E p \in 0..NUM_PRIORITIES64 : sched64_create_thread(p)
               \/ \E c \in CPUs : \/ reschedule_pick(c) \/ context_switch64(c)
                                  \/ tick_count(c) \/ tick_defer(c) \/ tick_reschedule(c)
BY Zenon DEF Next, Boot, CpuStep, NKernStep, Tick, vars, create_thread_panic,
   send_init_sipi_sipi, ap_entry64, boot_done, idle_reschedule, irq_return, tick_idle

\* A step that changes no dispatch: the rings, the frames and the stacks in use
\* stay, and control moves only as described.
Quiet ==
  /\ UNCHANGED <<thread64_count, priority, state, next, queueVars, dispatchVars,
                 frame, exec, stale>>
  /\ \A d \in CPUs :
       /\ rs'[d] = "switch" <=> rs[d] = "switch"
       /\ pc'[d] = "lock" => lcpu'[d] = d \/ (pc[d] = "lock" /\ lcpu'[d] = lcpu[d])
       /\ pc'[d] \in {"off", "sipi", "boot", "halt", "idle", "hlt"} =>
            \/ pc[d] \in {"off", "sipi", "boot", "halt", "idle", "hlt"}
            \/ current[d] = 0 /\ rs[d] = "none"
       /\ pc'[d] \in {"off", "sipi", "boot", "halt", "idle"} => rs'[d] = "none"

(* Every step is quiet, creates a thread, picks, or switches.              *)
LEMMA QuietCases == IInv /\ [Next]_vars =>
  \/ Quiet
  \/ \E p \in 0..NUM_PRIORITIES64 : ~Stopped /\ sched64_create_thread(p)
  \/ \E c \in CPUs : ~Stopped /\ (reschedule_pick(c) \/ context_switch64(c))
<1> SUFFICES ASSUME IInv, [Next]_vars
             PROVE  \/ Quiet
                    \/ \E p \in 0..NUM_PRIORITIES64 : ~Stopped /\ sched64_create_thread(p)
                    \/ \E c \in CPUs : ~Stopped /\ (reschedule_pick(c) \/ context_switch64(c))
  BY Zenon
<1>a. LockTypeOK
  BY Zenon DEF IInv, TypeOK
<1>b. ASSUME NEW c \in CPUs
      PROVE  /\ pc[c] \in {"off", "sipi", "boot", "halt", "idle"} => rs[c] = "none"
             /\ rs[c] # "none" => pc[c] \in {"hlt", "run", "lock", "post"}
             /\ current[c] # 0 /\ rs[c] # "switch" =>
                  pc[c] \notin {"off", "sipi", "boot", "halt", "idle"}
             /\ intr[c] => rs[c] # "switch"
  BY Zenon DEF IInv, ExecInv, ExecAt, CtlInv, CtlAt

<1> USE DEF LockTypeOK, PC, RS, At, Goto, lockVars, ctlVars, schedVars, threadVars, queueVars, dispatchVars, Quiet
<1>2. ASSUME NEW p \in 0..NUM_PRIORITIES64, ~Stopped, create_thread_panic(p)
      PROVE  Quiet
  BY <1>2, <1>a, <1>b DEF create_thread_panic
<1>3. ASSUME NEW a \in CPUs \ {BSP}, ~Stopped, send_init_sipi_sipi(a)
      PROVE  Quiet
  BY <1>3, <1>a, <1>b, Zenon DEF send_init_sipi_sipi
<1>4. ASSUME NEW a \in CPUs \ {BSP}, ~Stopped, ap_entry64(a)
      PROVE  Quiet
  BY <1>4, <1>a, <1>b, Zenon DEF ap_entry64
<1>5. ASSUME ~Stopped, boot_done
      PROVE  Quiet
  BY <1>5, <1>a, <1>b, Zenon DEF boot_done
<1>6. ASSUME NEW c \in CPUs, ~Stopped, NKern_Lock_read(c) /\ UNCHANGED schedVars
      PROVE  Quiet
  BY <1>6, <1>a, <1>b, Zenon DEF NKern_Lock_read
<1>7. ASSUME NEW c \in CPUs, ~Stopped, NKern_Lock_count(c) /\ UNCHANGED schedVars
      PROVE  Quiet
  BY <1>7, <1>a, <1>b, Zenon DEF NKern_Lock_count
<1>8. ASSUME NEW c \in CPUs, ~Stopped, NKern_Lock_acquire(c) /\ UNCHANGED schedVars
      PROVE  Quiet
  BY <1>8, <1>a, <1>b, Zenon DEF NKern_Lock_acquire
<1>9. ASSUME NEW c \in CPUs, ~Stopped, NKern_Unlock_count(c) /\ UNCHANGED schedVars
      PROVE  Quiet
  BY <1>9, <1>a, <1>b, Zenon DEF NKern_Unlock_count, decremented
<1>10. ASSUME NEW c \in CPUs, ~Stopped, NKern_Unlock_release(c) /\ UNCHANGED schedVars
      PROVE  Quiet
  BY <1>10, <1>a, <1>b, Zenon DEF NKern_Unlock_release
<1>11. ASSUME NEW c \in CPUs, ~Stopped, NKern_Unlock_reschedule(c) /\ UNCHANGED schedVars
      PROVE  Quiet
  BY <1>11, <1>a, <1>b, Zenon DEF NKern_Unlock_reschedule, NKern_LockForSwitch
<1>12. ASSUME NEW c \in CPUs, ~Stopped, NKern_Unlock_sti(c, Home(c)) /\ UNCHANGED schedVars
      PROVE  Quiet
  BY <1>12, <1>a, <1>b, Zenon DEF NKern_Unlock_sti, Home
<1>13. ASSUME NEW c \in CPUs, ~Stopped, NKern_LockForSwitch_acquire(c) /\ UNCHANGED schedVars
      PROVE  Quiet
  BY <1>13, <1>a, <1>b, Zenon DEF NKern_LockForSwitch_acquire
<1>14. ASSUME NEW c \in CPUs, ~Stopped, NKern_UnlockAfterSwitch_count(c) /\ UNCHANGED schedVars
      PROVE  Quiet
  BY <1>14, <1>a, <1>b, Zenon DEF NKern_UnlockAfterSwitch_count, decremented
<1>15. ASSUME NEW c \in CPUs, ~Stopped, NKern_UnlockAfterSwitch_release(c) /\ UNCHANGED schedVars
      PROVE  Quiet
  BY <1>15, <1>a, <1>b, Zenon DEF NKern_UnlockAfterSwitch_release
<1>16. ASSUME NEW c \in CPUs, ~Stopped, idle_reschedule(c)
      PROVE  Quiet
  BY <1>16, <1>a, <1>b, Zenon DEF idle_reschedule, NKern_LockForSwitch
<1>19. ASSUME NEW c \in CPUs, ~Stopped, irq_return(c)
      PROVE  Quiet
  BY <1>19, <1>a, <1>b, Zenon DEF irq_return
<1>20. ASSUME NEW c \in CPUs, ~Stopped, tick_idle(c)
      PROVE  Quiet
  BY <1>20, <1>a, <1>b, Zenon DEF tick_idle, TickAllowed
<1>21. ASSUME NEW c \in CPUs, ~Stopped, tick_count(c)
      PROVE  Quiet
  BY <1>21, <1>a, <1>b, Zenon DEF tick_count, TickAllowed, CountWindow
<1>22. ASSUME NEW c \in CPUs, ~Stopped, tick_defer(c)
      PROVE  Quiet
  BY <1>22, <1>a, <1>b, Zenon DEF tick_defer, TickAllowed, CountWindow
<1>23. ASSUME NEW c \in CPUs, ~Stopped, tick_reschedule(c)
      PROVE  Quiet
  BY <1>23, <1>a, <1>b, Zenon DEF tick_reschedule, NKern_LockForSwitch,
     TickAllowed, CountWindow
<1>24. CASE UNCHANGED vars
  BY <1>24, <1>a, <1>b, Zenon DEF vars
<1>25. QED
  BY <1>2, <1>3, <1>4, <1>5, <1>6, <1>7, <1>8, <1>9, <1>10, <1>11,
     <1>12, <1>13, <1>14, <1>15, <1>16, <1>19, <1>20, <1>21,
     <1>22, <1>23, <1>24, Zenon DEF Next, Boot, CpuStep, NKernStep, Tick

-----------------------------------------------------------------------------
(* The three loud steps.                                                   *)

(* When kernel_main64 creates a thread, no CPU runs one.                   *)
LEMMA BootIdle ==
  ASSUME IInv, NEW p, sched64_create_thread(p)
  PROVE  \A c \in CPUs : exec[c] = 0 /\ current[c] = 0 /\ rs[c] = "none" /\ pc[c] # "lock"
BY Zenon DEF IInv, ExecInv, ExecAt, sched64_create_thread, CanCreate, initial_slice, At

(* sched64_reschedule either gives up, or moves a thread other than the    *)
(* running one to the head of the top ring and makes it current.           *)
LEMMA PickCases ==
  ASSUME IInv, NEW c \in CPUs, reschedule_pick(c)
  PROVE  \/ /\ rs' = [rs EXCEPT ![c] = "dec"]
            /\ UNCHANGED <<ready_queue, dispatchVars, state>>
         \/ \E new \in 1..thread64_count :
              /\ new # exec[c] /\ (exec[c] # Top => new = Top) /\ Top # 0
              /\ current[c] = exec[c]
              /\ rs' = [rs EXCEPT ![c] = "switch"]
              /\ current' = [current EXCEPT ![c] = new]
              /\ prev' = [prev EXCEPT ![c] = exec[c]]
              /\ succ' = [succ EXCEPT ![c] = new]
              /\ ready_queue' = [ready_queue EXCEPT ![find_highest_bit64(ready_bitmap)] = new]
              /\ find_highest_bit64(ready_bitmap) \in Prio
              /\ Top' = new
<1> DEFINE prio == find_highest_bit64(ready_bitmap)
           head == ready_queue[prio]
           new == IF head = current[c] /\ next[head] # head THEN next[head] ELSE head
<1>1. CASE ready_bitmap = {} \/ new = current[c]
  BY <1>1, Zenon DEF reschedule_pick, running, choice, stays
<1>2. CASE ready_bitmap # {} /\ new # current[c]
  <2>1. prio \in Prio /\ prio \in ready_bitmap
    BY <1>2, TopBit, Zenon
  <2>2. head \in 1..thread64_count
    BY <2>1 DEF IInv, TypeOK, ThreadTypeOK, DispatchTypeOK, FrameInv, Thread0
  <2>3. next[head] \in 1..thread64_count
    BY <2>2, Zenon DEF IInv, FrameInv
  <2>4. current[c] = exec[c]
    BY Zenon DEF IInv, ExecInv, ExecAt, reschedule_pick, running, choice, stays
  <2>5. /\ rs' = [rs EXCEPT ![c] = "switch"]
        /\ current' = [current EXCEPT ![c] = new]
        /\ prev' = [prev EXCEPT ![c] = current[c]]
        /\ succ' = [succ EXCEPT ![c] = new]
        /\ ready_queue' = [ready_queue EXCEPT ![prio] = new]
        /\ UNCHANGED ready_bitmap
    BY <1>2, Zenon DEF reschedule_pick, running, choice, stays
  <2>6. Top' = new
    BY <2>1, <2>5, Zenon DEF Top, IInv, TypeOK, DispatchTypeOK
  <2>7. new \in 1..thread64_count /\ new # exec[c] /\ (exec[c] # Top => new = Top)
    BY <1>2, <2>2, <2>3, <2>4, Zenon DEF Top
  <2>8. Top # 0
    BY <2>2 DEF Top
  <2> HIDE DEF new
  <2>9. QED
    BY <2>1, <2>4, <2>5, <2>6, <2>7, <2>8, Zenon
<1>3. QED
  BY <1>1, <1>2, Zenon

(* context_switch64 loads the frame of the thread picked, which lies on that *)
(* thread's own stack and resumes it at a point where it may be preempted. *)
LEMMA SwitchCases ==
  ASSUME IInv, NEW c \in CPUs, context_switch64(c)
  PROVE  /\ succ[c] \in Threads /\ frame[succ[c]] \in Frames
         /\ frame[succ[c]].owner = succ[c]
         /\ frame[succ[c]].pc \in {"run", "lock", "post"}
         /\ frame[succ[c]].rflags => frame[succ[c]].pc = "run" /\ frame[succ[c]].irq = 0
         /\ exec' = [exec EXCEPT ![c] = succ[c]]
         /\ stale' = (\E d \in CPUs : exec[d] = succ[c])
         /\ prev[c] = exec[c] /\ current[c] = succ[c] /\ succ[c] # prev[c] /\ Top = succ[c]
         /\ Top' = Top
<1>1. /\ rs[c] = "switch" /\ prev[c] = exec[c] /\ current[c] = succ[c] /\ succ[c] # prev[c]
      /\ Top = succ[c] /\ succ[c] # 0
  BY Zenon DEF context_switch64, IInv, ExecInv, ExecAt
<1>2. succ[c] \in Threads
  BY <1>1 DEF IInv, TypeOK, DispatchTypeOK, Threads, Thread0
<1>3. frame[succ[c]] \in Frames /\ frame[succ[c]].owner = succ[c]
  BY <1>2, Zenon DEF IInv, TypeOK, ThreadTypeOK, FrameInv, FrameOwner
<1>4. /\ frame[succ[c]].pc \in {"run", "lock", "post"}
      /\ frame[succ[c]].rflags => frame[succ[c]].pc = "run" /\ frame[succ[c]].irq = 0
  BY <1>2, Zenon DEF IInv, FrameInv
<1>5. /\ exec' = [exec EXCEPT ![c] = succ[c]]
      /\ stale' = (\E d \in CPUs : exec[d] = succ[c])
  BY <1>3, Zenon DEF context_switch64
<1>6. Top' = Top
  BY Zenon DEF context_switch64, Top, queueVars
<1>7. QED
  BY <1>1, <1>2, <1>3, <1>4, <1>5, <1>6, Zenon

(* Between the pick and the switch no other CPU is in a switch.            *)
LEMMA NoOtherSwitch ==
  ASSUME IInv, NEW c \in CPUs, rs[c] \in {"pick", "switch"}, NEW d \in CPUs, d # c
  PROVE  rs[d] # "switch"
BY Zenon DEF IInv, MutualExclusion, Holds

-----------------------------------------------------------------------------
(* The types of the lock's variables and of the control state.             *)
LEMMA LockTypeStep == IInv /\ [Next]_vars => LockTypeOK'
<1> SUFFICES ASSUME IInv, [Next]_vars PROVE LockTypeOK'
  BY Zenon
<1>a. LockTypeOK
  BY Zenon DEF IInv, TypeOK
<1>c. ASSUME NEW c \in CPUs, rs[c] = "switch" PROVE frame[succ[c]] \in Frames
  <2>1. succ[c] \in Threads
    BY <1>c DEF IInv, TypeOK, DispatchTypeOK, ExecInv, ExecAt, Threads, Thread0
  <2>2. QED
    BY <2>1, Zenon DEF IInv, TypeOK, ThreadTypeOK

<1> USE DEF LockTypeOK, PC, RS, At, Goto, lockVars, ctlVars
<1>1. ASSUME NEW p \in 0..NUM_PRIORITIES64, ~Stopped, sched64_create_thread(p)
      PROVE  LockTypeOK'
  BY <1>1, <1>a, CpuAssumption, Zenon DEF sched64_create_thread, CanCreate, initial_slice, newFrame
<1>2. ASSUME NEW p \in 0..NUM_PRIORITIES64, ~Stopped, create_thread_panic(p)
      PROVE  LockTypeOK'
  BY <1>2, <1>a, CpuAssumption, Zenon DEF create_thread_panic
<1>3. ASSUME NEW a \in CPUs \ {BSP}, ~Stopped, send_init_sipi_sipi(a)
      PROVE  LockTypeOK'
  BY <1>3, <1>a, CpuAssumption, Zenon DEF send_init_sipi_sipi
<1>4. ASSUME NEW a \in CPUs \ {BSP}, ~Stopped, ap_entry64(a)
      PROVE  LockTypeOK'
  BY <1>4, <1>a, CpuAssumption, Zenon DEF ap_entry64
<1>5. ASSUME ~Stopped, boot_done
      PROVE  LockTypeOK'
  BY <1>5, <1>a, CpuAssumption, Zenon DEF boot_done
<1>6. ASSUME NEW c \in CPUs, ~Stopped, NKern_Lock_read(c) /\ UNCHANGED schedVars
      PROVE  LockTypeOK'
  BY <1>6, <1>a, CpuAssumption, Zenon DEF NKern_Lock_read
<1>7. ASSUME NEW c \in CPUs, ~Stopped, NKern_Lock_count(c) /\ UNCHANGED schedVars
      PROVE  LockTypeOK'
  BY <1>7, <1>a, CpuAssumption DEF NKern_Lock_count
<1>8. ASSUME NEW c \in CPUs, ~Stopped, NKern_Lock_acquire(c) /\ UNCHANGED schedVars
      PROVE  LockTypeOK'
  BY <1>8, <1>a, CpuAssumption, Zenon DEF NKern_Lock_acquire
<1>9. ASSUME NEW c \in CPUs, ~Stopped, NKern_Unlock_count(c) /\ UNCHANGED schedVars
      PROVE  LockTypeOK'
  BY <1>9, <1>a, CpuAssumption DEF NKern_Unlock_count, decremented
<1>10. ASSUME NEW c \in CPUs, ~Stopped, NKern_Unlock_release(c) /\ UNCHANGED schedVars
      PROVE  LockTypeOK'
  BY <1>10, <1>a, CpuAssumption, Zenon DEF NKern_Unlock_release
<1>11. ASSUME NEW c \in CPUs, ~Stopped, NKern_Unlock_reschedule(c) /\ UNCHANGED schedVars
      PROVE  LockTypeOK'
  BY <1>11, <1>a, CpuAssumption DEF NKern_Unlock_reschedule,
     NKern_LockForSwitch
<1>12. ASSUME NEW c \in CPUs, ~Stopped, NKern_Unlock_sti(c, Home(c)) /\ UNCHANGED schedVars
      PROVE  LockTypeOK'
  BY <1>12, <1>a, CpuAssumption, Zenon DEF NKern_Unlock_sti, Home
<1>13. ASSUME NEW c \in CPUs, ~Stopped, NKern_LockForSwitch_acquire(c) /\ UNCHANGED schedVars
      PROVE  LockTypeOK'
  BY <1>13, <1>a, CpuAssumption, Zenon DEF NKern_LockForSwitch_acquire
<1>14. ASSUME NEW c \in CPUs, ~Stopped, NKern_UnlockAfterSwitch_count(c) /\ UNCHANGED schedVars
      PROVE  LockTypeOK'
  BY <1>14, <1>a, CpuAssumption DEF NKern_UnlockAfterSwitch_count, decremented
<1>15. ASSUME NEW c \in CPUs, ~Stopped, NKern_UnlockAfterSwitch_release(c) /\ UNCHANGED schedVars
      PROVE  LockTypeOK'
  BY <1>15, <1>a, CpuAssumption, Zenon DEF NKern_UnlockAfterSwitch_release
<1>16. ASSUME NEW c \in CPUs, ~Stopped, idle_reschedule(c)
      PROVE  LockTypeOK'
  BY <1>16, <1>a, CpuAssumption DEF idle_reschedule, NKern_LockForSwitch
<1>17. ASSUME NEW c \in CPUs, ~Stopped, reschedule_pick(c)
      PROVE  LockTypeOK'
  BY <1>17, <1>a, CpuAssumption, Zenon DEF reschedule_pick, running, choice, stays
<1>18. ASSUME NEW c \in CPUs, ~Stopped, context_switch64(c)
      PROVE  LockTypeOK'
  BY <1>18, <1>a, CpuAssumption, <1>c, Zenon DEF context_switch64, Frames
<1>19. ASSUME NEW c \in CPUs, ~Stopped, irq_return(c)
      PROVE  LockTypeOK'
  BY <1>19, <1>a, CpuAssumption DEF irq_return
<1>20. ASSUME NEW c \in CPUs, ~Stopped, tick_idle(c)
      PROVE  LockTypeOK'
  BY <1>20, <1>a, CpuAssumption, Zenon DEF tick_idle, TickAllowed
<1>21. ASSUME NEW c \in CPUs, ~Stopped, tick_count(c)
      PROVE  LockTypeOK'
  BY <1>21, <1>a, CpuAssumption, Zenon DEF tick_count, TickAllowed, CountWindow
<1>22. ASSUME NEW c \in CPUs, ~Stopped, tick_defer(c)
      PROVE  LockTypeOK'
  BY <1>22, <1>a, CpuAssumption, Zenon DEF tick_defer, TickAllowed, CountWindow
<1>23. ASSUME NEW c \in CPUs, ~Stopped, tick_reschedule(c)
      PROVE  LockTypeOK'
  BY <1>23, <1>a, CpuAssumption DEF tick_reschedule, NKern_LockForSwitch,
     TickAllowed, CountWindow
<1>24. CASE UNCHANGED vars
  BY <1>24, <1>a, CpuAssumption, Zenon DEF vars
<1>25. QED
  BY <1>1, <1>2, <1>3, <1>4, <1>5, <1>6, <1>7, <1>8, <1>9, <1>10, <1>11,
     <1>12, <1>13, <1>14, <1>15, <1>16, <1>17, <1>18, <1>19, <1>20, <1>21,
     <1>22, <1>23, <1>24, Zenon DEF Next, Boot, CpuStep, NKernStep, Tick

(* The types of the scheduler's variables.                                 *)
LEMMA SchedTypeStep == IInv /\ [Next]_vars => (ThreadTypeOK /\ DispatchTypeOK)'
<1> SUFFICES ASSUME IInv, [Next]_vars PROVE (ThreadTypeOK /\ DispatchTypeOK)'
  BY Zenon
<1>a. ThreadTypeOK /\ DispatchTypeOK /\ LockTypeOK
  BY Zenon DEF IInv, TypeOK
<1> USE DEF Threads, Thread0
<1>1. CASE UNCHANGED schedVars
  BY <1>1, <1>a, Zenon DEF ThreadTypeOK, DispatchTypeOK, schedVars, threadVars, queueVars,
     dispatchVars
<1>2. ASSUME NEW p \in 0..NUM_PRIORITIES64, sched64_create_thread(p)
      PROVE  (ThreadTypeOK /\ DispatchTypeOK)'
  <2>1. p \in Prio /\ thread64_count + 1 \in Threads
    BY <1>2, <1>a, SchedAssumption DEF sched64_create_thread, CanCreate, initial_slice, Prio,
       ThreadTypeOK
  <2>2. newFrame(thread64_count + 1) \in Frames
    BY <2>1, CpuAssumption, Zenon DEF newFrame, Frames, PC
  <2>6. next' \in [Threads -> Thread0]
    <3> DEFINE t == thread64_count + 1
    <3>1. ready_queue[p] \in Thread0 /\ t \in Thread0
      BY <1>a, <2>1 DEF DispatchTypeOK
    <3> HIDE DEF t
    <3>2. CASE next' = [next EXCEPT ![t] = t]
      BY <1>a, <3>1, <3>2, Zenon DEF ThreadTypeOK
    <3>3. ASSUME NEW x, next' = [next EXCEPT ![x] = t, ![t] = ready_queue[p]]
          PROVE  next' \in [Threads -> Thread0]
      BY <1>a, <3>1, <3>3, Zenon DEF ThreadTypeOK
    <3>4. QED
      BY <1>2, <3>2, <3>3, Zenon DEF sched64_create_thread, CanCreate, initial_slice, t
  <2>7. SLICE \in 0..SLICE
    BY SchedAssumption
  <2>8. thread64_count' = thread64_count + 1 /\ priority' \in [Threads -> Prio]
    BY <1>2, <1>a, <2>1, Zenon DEF sched64_create_thread, CanCreate, initial_slice, ThreadTypeOK
  <2>9. time_slice' \in [Threads -> 0..SLICE] /\ frame' \in [Threads -> Frames]
    BY <1>2, <1>a, <2>2, <2>7, Zenon DEF sched64_create_thread, CanCreate, initial_slice, ThreadTypeOK
  <2>3. ThreadTypeOK'
    BY <1>2, <1>a, <2>1, <2>6, <2>8, <2>9 DEF sched64_create_thread, CanCreate, initial_slice,
       ThreadTypeOK
  <2>4. DispatchTypeOK'
    BY <1>2, <1>a, <2>1 DEF sched64_create_thread, CanCreate, initial_slice, DispatchTypeOK,
       dispatchVars
  <2>5. QED
    BY <2>3, <2>4, Zenon
<1>3. ASSUME NEW c \in CPUs, reschedule_pick(c)
      PROVE  (ThreadTypeOK /\ DispatchTypeOK)'
  <2>1. ThreadTypeOK'
    BY <1>3, <1>a, Zenon DEF reschedule_pick, marked, ThreadTypeOK, dispatchVars
  <2>2. CASE ready_bitmap = {}
    BY <1>3, <1>a, <2>1, <2>2, Zenon DEF reschedule_pick, running, choice, stays, DispatchTypeOK,
       dispatchVars
  <2>3. CASE ready_bitmap # {}
    <3>1. find_highest_bit64(ready_bitmap) \in Prio \cap ready_bitmap
      BY <2>3, TopBit, Zenon
    <3>2. ready_queue[find_highest_bit64(ready_bitmap)] \in Threads
      BY <3>1, <1>a DEF DispatchTypeOK, IInv, FrameInv
    <3>3. ASSUME NEW h \in Thread0, h # 0 PROVE next[h] \in Thread0
      BY <3>3, <1>a DEF ThreadTypeOK
    <3> DEFINE prio == find_highest_bit64(ready_bitmap)
               head == ready_queue[prio]
               old == current[c]
               new == IF head = old /\ next[head] # head THEN next[head] ELSE head
    <3>4. CASE new = old
      BY <1>3, <1>a, <2>1, <2>3, <3>4, Zenon
         DEF reschedule_pick, running, choice, stays, DispatchTypeOK, dispatchVars
    <3>5. CASE new # old
      <4>1. new \in Thread0
        BY <1>a, <3>2, <3>3, <3>5 DEF DispatchTypeOK
      <4>2. /\ ready_queue' = [ready_queue EXCEPT ![prio] = new]
            /\ current' = [current EXCEPT ![c] = new]
            /\ prev' = [prev EXCEPT ![c] = old]
            /\ succ' = [succ EXCEPT ![c] = new]
            /\ loaded_cr3' = [loaded_cr3 EXCEPT ![c] = new]
            /\ cr3' \in {cr3, [cr3 EXCEPT ![c] = new]}
            /\ UNCHANGED <<ready_bitmap, exec, window, stale>>
        BY <1>3, <2>3, <3>5, Zenon DEF reschedule_pick, load_cr3, running, choice, stays
      <4> HIDE DEF prio, new
      <4>3. QED
        BY <1>a, <2>1, <3>1, <4>1, <4>2, ZenonT(30) DEF DispatchTypeOK
    <3>6. QED
      BY <3>4, <3>5, Zenon
  <2>4. QED
    BY <2>1, <2>2, <2>3, Zenon
<1>4. ASSUME NEW c \in CPUs, context_switch64(c)
      PROVE  (ThreadTypeOK /\ DispatchTypeOK)'
  <2>1. succ[c] \in Threads /\ (prev[c] # 0 => exec[c] \in Threads)
    BY <1>4, <1>a DEF IInv, DispatchTypeOK, ExecInv, ExecAt, context_switch64
  <2>2. frame[succ[c]] \in Frames
    BY <2>1, <1>a, Zenon DEF ThreadTypeOK
  <2>6. prev[c] # 0 => [pc |-> pc[c], irq |-> irq[c], lcpu |-> lcpu[c],
                        rflags |-> intr[c], owner |-> exec[c]] \in Frames
    BY <2>1, <1>a, Zenon DEF LockTypeOK, Frames
  <2>3. ThreadTypeOK'
    BY <1>4, <1>a, <2>6 DEF context_switch64, ThreadTypeOK, threadVars
  <2>7. frame[succ[c]].owner \in Threads /\ stale' \in BOOLEAN
    BY <1>4, <2>2, Zenon DEF context_switch64, Frames
  <2>4. DispatchTypeOK'
    BY <1>4, <1>a, <2>7 DEF context_switch64, DispatchTypeOK, dispatchVars, queueVars
  <2>5. QED
    BY <2>3, <2>4, Zenon
<1>5. ASSUME NEW c \in CPUs, tick_count(c) \/ tick_defer(c) \/ tick_reschedule(c)
      PROVE  (ThreadTypeOK /\ DispatchTypeOK)'
  <2>8. current[c] # 0
    BY <1>5, Zenon DEF tick_count, tick_defer, tick_reschedule
  <2>1. current[c] \in Threads
    BY <1>a, <2>8 DEF DispatchTypeOK
  <2>7. time_slice[current[c]] \in 0..SLICE
    BY <1>a, <2>1, Zenon DEF ThreadTypeOK
  <2>2. time_slice' \in [Threads -> 0..SLICE]
    <3>1. \/ /\ time_slice' = [time_slice EXCEPT ![current[c]] = time_slice[current[c]] - 1]
             /\ time_slice[current[c]] > 1
          \/ time_slice' = [time_slice EXCEPT ![current[c]] = SLICE]
      BY <1>5, Zenon DEF tick_count, tick_defer, tick_reschedule
    <3>2. \E v \in 0..SLICE : time_slice' = [time_slice EXCEPT ![current[c]] = v]
      BY <2>7, <3>1, SchedAssumption
    <3>3. QED
      BY <1>a, <3>2, Zenon DEF ThreadTypeOK
  <2>3. ThreadTypeOK'
    BY <1>5, <1>a, <2>2, Zenon DEF tick_count, tick_defer, tick_reschedule, ThreadTypeOK
  <2>4. window' \in [CPUs -> Nat]
    BY <1>5, <1>a DEF tick_count, tick_defer, tick_reschedule, CountWindow, DispatchTypeOK
  <2>5. DispatchTypeOK'
    BY <1>5, <1>a, <2>4, Zenon DEF tick_count, tick_defer, tick_reschedule, DispatchTypeOK,
       dispatchVars, queueVars
  <2>6. QED
    BY <2>3, <2>5, Zenon
<1>6. QED
  BY <1>1, <1>2, <1>3, <1>4, <1>5, SchedSteps, Zenon

(* The nesting counter and IF are as CtlAt says at every control point.    *)
LEMMA CtlStep == IInv /\ [Next]_vars => CtlInv'
<1> SUFFICES ASSUME IInv, [Next]_vars, NEW d \in CPUs PROVE CtlAt(d)'
  BY Zenon DEF CtlInv
<1>a. LockTypeOK /\ \A c \in CPUs : CtlAt(c)
  BY Zenon DEF IInv, TypeOK, CtlInv
<1>b. ~Stopped => \A c \in CPUs : pc[c] = "lock" => lcpu[c] = c
  BY Zenon DEF IInv, ExecInv, OneRunner, Stopped
<1>c. ASSUME NEW c \in CPUs, rs[c] = "switch"
      PROVE  /\ frame[succ[c]] \in Frames
             /\ frame[succ[c]].pc \in {"run", "lock", "post"}
             /\ frame[succ[c]].rflags => frame[succ[c]].pc = "run"
  <2>1. succ[c] \in Threads
    BY <1>c DEF IInv, TypeOK, DispatchTypeOK, ExecInv, ExecAt, Threads, Thread0
  <2>2. QED
    BY <2>1, Zenon DEF IInv, TypeOK, ThreadTypeOK, FrameInv
<1>d. \A c \in CPUs : rs[c] # "switch" /\ current[c] # 0 =>
        pc[c] \notin {"boot", "halt", "idle", "hlt"}
  BY Zenon DEF IInv, ExecInv, ExecAt
<1> USE DEF LockTypeOK, PC, RS, CtlAt, At, Goto, lockVars, ctlVars
<1>1. ASSUME NEW p \in 0..NUM_PRIORITIES64, ~Stopped, sched64_create_thread(p)
      PROVE  CtlAt(d)'
  BY <1>1, <1>a, Zenon DEF sched64_create_thread, CanCreate, initial_slice, newFrame
<1>2. ASSUME NEW p \in 0..NUM_PRIORITIES64, ~Stopped, create_thread_panic(p)
      PROVE  CtlAt(d)'
  BY <1>2, <1>a DEF create_thread_panic
<1>3. ASSUME NEW a \in CPUs \ {BSP}, ~Stopped, send_init_sipi_sipi(a)
      PROVE  CtlAt(d)'
  BY <1>3, <1>a, Zenon DEF send_init_sipi_sipi
<1>4. ASSUME NEW a \in CPUs \ {BSP}, ~Stopped, ap_entry64(a)
      PROVE  CtlAt(d)'
  BY <1>4, <1>a, Zenon DEF ap_entry64
<1>5. ASSUME ~Stopped, boot_done
      PROVE  CtlAt(d)'
  BY <1>5, <1>a, Zenon DEF boot_done
<1>6. ASSUME NEW c \in CPUs, ~Stopped, NKern_Lock_read(c) /\ UNCHANGED schedVars
      PROVE  CtlAt(d)'
  BY <1>6, <1>a, Zenon DEF NKern_Lock_read
<1>7. ASSUME NEW c \in CPUs, ~Stopped, NKern_Lock_count(c) /\ UNCHANGED schedVars
      PROVE  CtlAt(d)'
  BY <1>7, <1>a, <1>b DEF NKern_Lock_count
<1>8. ASSUME NEW c \in CPUs, ~Stopped, NKern_Lock_acquire(c) /\ UNCHANGED schedVars
      PROVE  CtlAt(d)'
  BY <1>8, <1>a DEF NKern_Lock_acquire
<1>9. ASSUME NEW c \in CPUs, ~Stopped, NKern_Unlock_count(c) /\ UNCHANGED schedVars
      PROVE  CtlAt(d)'
  BY <1>9, <1>a DEF NKern_Unlock_count, decremented
<1>10. ASSUME NEW c \in CPUs, ~Stopped, NKern_Unlock_release(c) /\ UNCHANGED schedVars
      PROVE  CtlAt(d)'
  BY <1>10, <1>a, Zenon DEF NKern_Unlock_release
<1>11. ASSUME NEW c \in CPUs, ~Stopped, NKern_Unlock_reschedule(c) /\ UNCHANGED schedVars
      PROVE  CtlAt(d)'
  BY <1>11, <1>a DEF NKern_Unlock_reschedule, NKern_LockForSwitch
<1>12. ASSUME NEW c \in CPUs, ~Stopped, NKern_Unlock_sti(c, Home(c)) /\ UNCHANGED schedVars
      PROVE  CtlAt(d)'
  BY <1>12, <1>a, Zenon DEF NKern_Unlock_sti, Home
<1>13. ASSUME NEW c \in CPUs, ~Stopped, NKern_LockForSwitch_acquire(c) /\ UNCHANGED schedVars
      PROVE  CtlAt(d)'
  BY <1>13, <1>a, Zenon DEF NKern_LockForSwitch_acquire
<1>14. ASSUME NEW c \in CPUs, ~Stopped, NKern_UnlockAfterSwitch_count(c) /\ UNCHANGED schedVars
      PROVE  CtlAt(d)'
  BY <1>14, <1>a DEF NKern_UnlockAfterSwitch_count, decremented
<1>15. ASSUME NEW c \in CPUs, ~Stopped, NKern_UnlockAfterSwitch_release(c) /\ UNCHANGED schedVars
      PROVE  CtlAt(d)'
  BY <1>15, <1>a, Zenon DEF NKern_UnlockAfterSwitch_release
<1>16. ASSUME NEW c \in CPUs, ~Stopped, idle_reschedule(c)
      PROVE  CtlAt(d)'
  BY <1>16, <1>a DEF idle_reschedule, NKern_LockForSwitch
<1>17. ASSUME NEW c \in CPUs, ~Stopped, reschedule_pick(c)
      PROVE  CtlAt(d)'
  BY <1>17, <1>a, ZenonT(30) DEF reschedule_pick, running, choice, stays
<1>18. ASSUME NEW c \in CPUs, ~Stopped, context_switch64(c)
      PROVE  CtlAt(d)'
  BY <1>18, <1>a, <1>c, Zenon DEF context_switch64, Frames
<1>19. ASSUME NEW c \in CPUs, ~Stopped, irq_return(c)
      PROVE  CtlAt(d)'
  BY <1>19, <1>a, Zenon DEF irq_return
<1>20. ASSUME NEW c \in CPUs, ~Stopped, tick_idle(c)
      PROVE  CtlAt(d)'
  BY <1>20, <1>a, Zenon DEF tick_idle, TickAllowed
<1>21. ASSUME NEW c \in CPUs, ~Stopped, tick_count(c)
      PROVE  CtlAt(d)'
  BY <1>21, <1>a, Zenon DEF tick_count, TickAllowed, CountWindow
<1>22. ASSUME NEW c \in CPUs, ~Stopped, tick_defer(c)
      PROVE  CtlAt(d)'
  BY <1>22, <1>a, Zenon DEF tick_defer, TickAllowed, CountWindow
<1>23. ASSUME NEW c \in CPUs, ~Stopped, tick_reschedule(c)
      PROVE  CtlAt(d)'
  BY <1>23, <1>a, <1>d DEF tick_reschedule, NKern_LockForSwitch,
     TickAllowed, CountWindow
<1>24. CASE UNCHANGED vars
  BY <1>24, <1>a, Zenon DEF vars
<1>25. QED
  BY <1>1, <1>2, <1>3, <1>4, <1>5, <1>6, <1>7, <1>8, <1>9, <1>10, <1>11,
     <1>12, <1>13, <1>14, <1>15, <1>16, <1>17, <1>18, <1>19, <1>20, <1>21,
     <1>22, <1>23, <1>24, Zenon DEF Next, Boot, CpuStep, NKernStep, Tick

(* One CPU at a time holds big_kernel_lock, and the word says so.          *)
LEMMA MutexStep == IInv /\ [Next]_vars => MutualExclusion'
<1> SUFFICES ASSUME IInv, [Next]_vars PROVE MutualExclusion'
  BY Zenon
<1>a. LockTypeOK /\ MutualExclusion /\ \A c \in CPUs : CtlAt(c)
  BY Zenon DEF IInv, TypeOK, CtlInv
<1>b. ~Stopped => \A c \in CPUs : pc[c] = "lock" => lcpu[c] = c
  BY Zenon DEF IInv, ExecInv, OneRunner, Stopped

<1> USE DEF LockTypeOK, PC, RS, CtlAt, At, Goto, Holds, lockVars, ctlVars, MutualExclusion
<1>1. ASSUME NEW p \in 0..NUM_PRIORITIES64, ~Stopped, sched64_create_thread(p)
      PROVE  MutualExclusion'
  BY <1>1, <1>a DEF sched64_create_thread, CanCreate, initial_slice, newFrame
<1>2. ASSUME NEW p \in 0..NUM_PRIORITIES64, ~Stopped, create_thread_panic(p)
      PROVE  MutualExclusion'
  BY <1>2, <1>a DEF create_thread_panic
<1>3. ASSUME NEW a \in CPUs \ {BSP}, ~Stopped, send_init_sipi_sipi(a)
      PROVE  MutualExclusion'
  BY <1>3, <1>a DEF send_init_sipi_sipi
<1>4. ASSUME NEW a \in CPUs \ {BSP}, ~Stopped, ap_entry64(a)
      PROVE  MutualExclusion'
  BY <1>4, <1>a DEF ap_entry64
<1>5. ASSUME ~Stopped, boot_done
      PROVE  MutualExclusion'
  BY <1>5, <1>a DEF boot_done
<1>6. ASSUME NEW c \in CPUs, ~Stopped, NKern_Lock_read(c) /\ UNCHANGED schedVars
      PROVE  MutualExclusion'
  BY <1>6, <1>a DEF NKern_Lock_read
<1>7. ASSUME NEW c \in CPUs, ~Stopped, NKern_Lock_count(c) /\ UNCHANGED schedVars
      PROVE  MutualExclusion'
  BY <1>7, <1>a, <1>b DEF NKern_Lock_count
<1>8. ASSUME NEW c \in CPUs, ~Stopped, NKern_Lock_acquire(c) /\ UNCHANGED schedVars
      PROVE  MutualExclusion'
  BY <1>8, <1>a DEF NKern_Lock_acquire
<1>9. ASSUME NEW c \in CPUs, ~Stopped, NKern_Unlock_count(c) /\ UNCHANGED schedVars
      PROVE  MutualExclusion'
  BY <1>9, <1>a DEF NKern_Unlock_count, decremented
<1>10. ASSUME NEW c \in CPUs, ~Stopped, NKern_Unlock_release(c) /\ UNCHANGED schedVars
      PROVE  MutualExclusion'
  BY <1>10, <1>a DEF NKern_Unlock_release
<1>11. ASSUME NEW c \in CPUs, ~Stopped, NKern_Unlock_reschedule(c) /\ UNCHANGED schedVars
      PROVE  MutualExclusion'
  BY <1>11, <1>a DEF NKern_Unlock_reschedule, NKern_LockForSwitch
<1>12. ASSUME NEW c \in CPUs, ~Stopped, NKern_Unlock_sti(c, Home(c)) /\ UNCHANGED schedVars
      PROVE  MutualExclusion'
  BY <1>12, <1>a DEF NKern_Unlock_sti, Home
<1>13. ASSUME NEW c \in CPUs, ~Stopped, NKern_LockForSwitch_acquire(c) /\ UNCHANGED schedVars
      PROVE  MutualExclusion'
  BY <1>13, <1>a DEF NKern_LockForSwitch_acquire
<1>14. ASSUME NEW c \in CPUs, ~Stopped, NKern_UnlockAfterSwitch_count(c) /\ UNCHANGED schedVars
      PROVE  MutualExclusion'
  BY <1>14, <1>a DEF NKern_UnlockAfterSwitch_count, decremented
<1>15. ASSUME NEW c \in CPUs, ~Stopped, NKern_UnlockAfterSwitch_release(c) /\ UNCHANGED schedVars
      PROVE  MutualExclusion'
  BY <1>15, <1>a DEF NKern_UnlockAfterSwitch_release
<1>16. ASSUME NEW c \in CPUs, ~Stopped, idle_reschedule(c)
      PROVE  MutualExclusion'
  BY <1>16, <1>a DEF idle_reschedule, NKern_LockForSwitch
<1>17. ASSUME NEW c \in CPUs, ~Stopped, reschedule_pick(c)
      PROVE  MutualExclusion'
  <2>1. /\ rs[c] = "pick" /\ UNCHANGED <<pc, lockVars>>
        /\ rs' \in {[rs EXCEPT ![c] = "dec"], [rs EXCEPT ![c] = "switch"]}
    BY <1>17, Zenon DEF reschedule_pick, running, choice, stays
  <2>2. \A d \in CPUs : Holds(d)' <=> Holds(d)
    BY <1>a, <2>1, Zenon
  <2>3. QED
    BY <1>a, <2>1, <2>2, Zenon
<1>18. ASSUME NEW c \in CPUs, ~Stopped, context_switch64(c)
      PROVE  MutualExclusion'
  <2>1. \A d \in CPUs : Holds(d)' <=> Holds(d)
    BY <1>18, <1>a, ZenonT(30) DEF context_switch64
  <2>2. UNCHANGED big_kernel_lock
    BY <1>18, Zenon DEF context_switch64
  <2>3. QED
    BY <1>a, <2>1, <2>2, Zenon
<1>19. ASSUME NEW c \in CPUs, ~Stopped, irq_return(c)
      PROVE  MutualExclusion'
  BY <1>19, <1>a, Zenon DEF irq_return
<1>20. ASSUME NEW c \in CPUs, ~Stopped, tick_idle(c)
      PROVE  MutualExclusion'
  <2>1. /\ pc[c] = "hlt" /\ pc' = [pc EXCEPT ![c] = "idle"]
        /\ UNCHANGED <<rs, preempt_disable_count, big_kernel_lock>>
    BY <1>20, Zenon DEF tick_idle
  <2>2. \A d \in CPUs : Holds(d)' <=> Holds(d)
    BY <1>a, <2>1, Zenon
  <2>3. QED
    BY <1>a, <2>1, <2>2, Zenon
<1>21. ASSUME NEW c \in CPUs, ~Stopped, tick_count(c)
      PROVE  MutualExclusion'
  BY <1>21, <1>a, Zenon DEF tick_count, TickAllowed, CountWindow
<1>22. ASSUME NEW c \in CPUs, ~Stopped, tick_defer(c)
      PROVE  MutualExclusion'
  BY <1>22, <1>a, Zenon DEF tick_defer, TickAllowed, CountWindow
<1>23. ASSUME NEW c \in CPUs, ~Stopped, tick_reschedule(c)
      PROVE  MutualExclusion'
  <2> HIDE DEF LockTypeOK, CtlAt, Holds, MutualExclusion, At, Goto
  <2>1. /\ intr[c] /\ preempt_disable_count[c] = 0 /\ UNCHANGED <<pc, big_kernel_lock>>
        /\ rs' = [rs EXCEPT ![c] = IF rs[c] = "rel" THEN "dead" ELSE "spin"]
        /\ preempt_disable_count' = [preempt_disable_count EXCEPT ![c] = 1]
    BY <1>23, <1>a DEF tick_reschedule, NKern_LockForSwitch, TickAllowed, LockTypeOK
  <2>5. CtlAt(c)
    BY <1>a, Zenon
  <2>2. Holds(c) <=> rs[c] = "rel"
    BY <2>1, <2>5 DEF Holds, CtlAt
  <2>3. \A d \in CPUs : Holds(d)' <=> Holds(d)
    BY <1>a, <2>1, <2>2, Zenon DEF Holds, LockTypeOK
  <2>4. QED
    BY <1>a, <2>1, <2>3, Zenon DEF MutualExclusion
<1>24. CASE UNCHANGED vars
  BY <1>24, <1>a, Zenon DEF vars
<1>25. QED
  BY <1>1, <1>2, <1>3, <1>4, <1>5, <1>6, <1>7, <1>8, <1>9, <1>10, <1>11,
     <1>12, <1>13, <1>14, <1>15, <1>16, <1>17, <1>18, <1>19, <1>20, <1>21,
     <1>22, <1>23, <1>24, Zenon DEF Next, Boot, CpuStep, NKernStep, Tick

-----------------------------------------------------------------------------
(* current, prev and next of a CPU agree with the stack it runs on.        *)
LEMMA ExecAtStep ==
  ASSUME IInv, [Next]_vars, NEW d \in CPUs
  PROVE  ExecAt(d)'
<1>a. ExecAt(d) /\ LockTypeOK /\ ThreadTypeOK /\ DispatchTypeOK
  BY Zenon DEF IInv, ExecInv, TypeOK
<1>1. CASE Quiet
  <2>1. Top' = Top
    BY <1>1, Zenon DEF Quiet, Top, queueVars
  <2>2. QED
    BY <1>1, <1>a, <2>1, Zenon DEF Quiet, ExecAt, queueVars, dispatchVars
<1>2. ASSUME NEW p \in 0..NUM_PRIORITIES64, sched64_create_thread(p)
      PROVE  ExecAt(d)'
  <2>1. exec[d] = 0 /\ current[d] = 0 /\ rs[d] = "none"
    BY <1>2, BootIdle, Zenon
  <2>2. UNCHANGED <<exec, current, rs, pc, prev, succ>> /\ thread64_count' >= 0
    BY <1>2, <1>a DEF sched64_create_thread, CanCreate, initial_slice, dispatchVars, ctlVars,
       ThreadTypeOK, Thread0
  <2>3. QED
    BY <2>1, <2>2, <1>a, Zenon DEF ExecAt
<1>3. ASSUME NEW c \in CPUs, reschedule_pick(c)
      PROVE  ExecAt(d)'
  <2>1. UNCHANGED <<pc, exec, thread64_count, ready_bitmap>> /\ rs[c] = "pick"
    BY <1>3, Zenon DEF reschedule_pick
  <2>2. d # c => rs[d] # "switch"
    BY <2>1, NoOtherSwitch, Zenon
  <2>3. pc[c] \notin {"off", "sipi", "boot", "halt", "idle"}
    BY <2>1, Zenon DEF IInv, ExecInv, ExecAt
  <2>4. ASSUME rs' = [rs EXCEPT ![c] = "dec"], UNCHANGED <<ready_queue, dispatchVars, state>>
        PROVE  ExecAt(d)'
    BY <1>a, <2>1, <2>2, <2>3, <2>4, Zenon DEF ExecAt, dispatchVars, LockTypeOK
  <2>5. ASSUME NEW new \in 1..thread64_count,
               /\ new # exec[c] /\ (exec[c] # Top => new = Top) /\ Top # 0
               /\ current[c] = exec[c]
               /\ rs' = [rs EXCEPT ![c] = "switch"]
               /\ current' = [current EXCEPT ![c] = new]
               /\ prev' = [prev EXCEPT ![c] = exec[c]]
               /\ succ' = [succ EXCEPT ![c] = new]
               /\ Top' = new
        PROVE  ExecAt(d)'
    BY <1>a, <2>1, <2>2, <2>3, <2>5 DEF ExecAt, LockTypeOK, ThreadTypeOK, DispatchTypeOK, Thread0
  <2>6. QED
    BY <1>3, <2>4, <2>5, PickCases, Zenon
<1>4. ASSUME NEW c \in CPUs, context_switch64(c)
      PROVE  ExecAt(d)'
  <2>1. rs[c] = "switch" /\ UNCHANGED <<current, prev, succ, thread64_count>>
    BY <1>4, Zenon DEF context_switch64, dispatchVars, threadVars
  <2>2. d # c => rs[d] # "switch"
    BY <2>1, NoOtherSwitch, Zenon
  <2>3. rs' = [rs EXCEPT ![c] = "dec"] /\ pc' = [pc EXCEPT ![c] = frame[succ[c]].pc]
    BY <1>4, Zenon DEF context_switch64
  <2>5. /\ exec' = [exec EXCEPT ![c] = succ[c]] /\ current[c] = succ[c] /\ Top' = Top
        /\ frame[succ[c]].pc \in {"run", "lock", "post"}
    BY <1>4, SwitchCases, Zenon
  <2>6. CASE d = c
    BY <1>a, <2>1, <2>3, <2>5, <2>6, Zenon DEF ExecAt, LockTypeOK, DispatchTypeOK
  <2>7. CASE d # c
    BY <1>a, <2>1, <2>2, <2>3, <2>5, <2>7, Zenon DEF ExecAt, LockTypeOK, DispatchTypeOK
  <2>4. QED
    BY <2>6, <2>7, Zenon
<1>5. QED
  BY <1>1, <1>2, <1>3, <1>4, QuietCases, Zenon

(* As long as no frame was loaded twice, one CPU runs all the threads.     *)
LEMMA OneRunnerStep ==
  ASSUME IInv, [Next]_vars, ~stale'
  PROVE  OneRunner'
<1>a. LockTypeOK /\ DispatchTypeOK /\ (~stale => OneRunner)
  BY Zenon DEF IInv, ExecInv, TypeOK
<1>1. CASE Quiet
  <2>1. Top' = Top /\ UNCHANGED <<exec, succ, stale>>
    BY <1>1, Zenon DEF Quiet, Top, queueVars, dispatchVars
  <2>2. OneRunner
    BY <1>a, <2>1, Zenon
  <2>3. \A d \in CPUs : rs'[d] = "switch" <=> rs[d] = "switch"
    BY <1>1, Zenon DEF Quiet
  <2>4. \A c \in CPUs : pc'[c] = "lock" => lcpu'[c] = c
    BY <1>1, <2>2, Zenon DEF Quiet, OneRunner
  <2>5. \A c, d \in CPUs : rs'[c] = "switch" /\ d # c /\ exec'[d] # 0 => succ'[c] = exec'[d]
    BY <2>1, <2>2, <2>3, Zenon DEF OneRunner
  <2>6. \A d \in CPUs : exec'[d] # 0 /\ (\A c \in CPUs : rs'[c] # "switch") => Top' = exec'[d]
    BY <2>1, <2>2, <2>3, Zenon DEF OneRunner
  <2>7. \A c, d \in CPUs : exec'[c] # 0 /\ exec'[d] # 0 => c = d
    BY <2>1, <2>2, Zenon DEF OneRunner
  <2>8. QED
    BY <2>4, <2>5, <2>6, <2>7, Zenon DEF OneRunner
<1>2. ASSUME NEW p \in 0..NUM_PRIORITIES64, sched64_create_thread(p)
      PROVE  OneRunner'
  <2>1. \A c \in CPUs : exec[c] = 0 /\ rs[c] = "none" /\ pc[c] # "lock"
    BY <1>2, BootIdle, Zenon
  <2>2. UNCHANGED <<exec, rs, pc>>
    BY <1>2, Zenon DEF sched64_create_thread, CanCreate, initial_slice, ctlVars
  <2>3. QED
    BY <2>1, <2>2, Zenon DEF OneRunner
<1>3. ASSUME NEW c \in CPUs, ~Stopped, reschedule_pick(c)
      PROVE  OneRunner'
  <2>1. UNCHANGED <<pc, lcpu, exec, ready_bitmap>> /\ rs[c] = "pick"
    BY <1>3, Zenon DEF reschedule_pick
  <2>2. OneRunner
    BY <1>3, <1>a, Zenon DEF Stopped
  <2>3. \A d \in CPUs : rs[d] # "switch"
    BY <2>1, NoOtherSwitch, Zenon
  <2>4. \A d \in CPUs : exec[d] # 0 => Top = exec[d]
    BY <2>2, <2>3, Zenon DEF OneRunner
  <2>5. ASSUME rs' = [rs EXCEPT ![c] = "dec"], UNCHANGED <<ready_queue, dispatchVars, state>>
        PROVE  OneRunner'
    BY <1>a, <2>1, <2>2, <2>3, <2>4, <2>5, Zenon DEF OneRunner, Top, LockTypeOK
  <2>6. ASSUME NEW new \in 1..thread64_count,
               /\ new # exec[c] /\ (exec[c] # Top => new = Top) /\ Top # 0
               /\ rs' = [rs EXCEPT ![c] = "switch"]
               /\ succ' = [succ EXCEPT ![c] = new]
        PROVE  OneRunner'
    BY <1>a, <2>1, <2>2, <2>3, <2>4, <2>6, Zenon DEF OneRunner, LockTypeOK, DispatchTypeOK
  <2>7. QED
    BY <1>3, <2>5, <2>6, PickCases, Zenon
<1>4. ASSUME NEW c \in CPUs, ~Stopped, context_switch64(c)
      PROVE  OneRunner'
  <2>1. /\ rs[c] = "switch" /\ rs' = [rs EXCEPT ![c] = "dec"] /\ UNCHANGED succ
        /\ pc' = [pc EXCEPT ![c] = frame[succ[c]].pc]
        /\ lcpu' = [lcpu EXCEPT ![c] = frame[succ[c]].lcpu]
    BY <1>4, Zenon DEF context_switch64, dispatchVars
  <2>2. OneRunner
    BY <1>4, <1>a, Zenon DEF Stopped
  <2>3. \A d \in CPUs : d # c => rs[d] # "switch"
    BY <2>1, NoOtherSwitch, Zenon
  <2>4. \A d \in CPUs : exec[d] # succ[c]
    BY <1>4, SwitchCases, Zenon
  <2>5. \A d \in CPUs : d # c => exec[d] = 0
    BY <2>1, <2>2, <2>4, Zenon DEF OneRunner
  <2>6. frame[succ[c]].pc = "lock" => frame[succ[c]].lcpu = c
    <3>1. frame[succ[c]].lcpu \in CPUs /\ succ[c] \in Threads
      BY <1>4, SwitchCases, Zenon DEF Frames
    <3>2. frame[succ[c]].pc = "lock" => exec[frame[succ[c]].lcpu] # 0
      BY <1>4, <3>1, Zenon DEF IInv, FrameInv, Stopped
    <3>3. QED
      BY <2>5, <3>1, <3>2, Zenon
  <2>7. exec' = [exec EXCEPT ![c] = succ[c]] /\ Top' = succ[c]
    BY <1>4, SwitchCases, Zenon
  <2>8. QED
    BY <1>a, <2>1, <2>2, <2>3, <2>5, <2>6, <2>7 DEF OneRunner, LockTypeOK, DispatchTypeOK
<1>5. QED
  BY <1>1, <1>2, <1>3, <1>4, QuietCases, Zenon

(* Saved frames lie on their own stacks; rings stay within the table.      *)
LEMMA FrameStep == IInv /\ [Next]_vars => FrameInv'
<1> SUFFICES ASSUME IInv, [Next]_vars PROVE FrameInv'
  BY Zenon
<1>a. FrameInv /\ ThreadTypeOK /\ DispatchTypeOK
  BY Zenon DEF IInv, TypeOK
<1>1. CASE Quiet
  BY <1>1, <1>a, Zenon DEF Quiet, FrameInv, FrameOwner, queueVars
<1>2. ASSUME NEW p \in 0..NUM_PRIORITIES64, sched64_create_thread(p)
      PROVE  FrameInv'
  <2> DEFINE t == thread64_count + 1
  <2>1. t \in Threads /\ p \in Prio /\ thread64_count \in Nat
    BY <1>2, <1>a, SchedAssumption DEF sched64_create_thread, CanCreate, initial_slice,
       ThreadTypeOK, Threads,
       Thread0, Prio
  <2>2. frame' = [frame EXCEPT ![t] = newFrame(t)] /\ UNCHANGED <<exec, stale>>
    BY <1>2, Zenon DEF sched64_create_thread, CanCreate, initial_slice
  <2>3. /\ FrameOwner'
        /\ \A u \in Threads :
             /\ frame'[u].pc \in {"run", "lock", "post"}
             /\ frame'[u].rflags => frame'[u].pc = "run" /\ frame'[u].irq = 0
             /\ ~stale' /\ frame'[u].pc = "lock" => exec'[frame'[u].lcpu] # 0
    BY <1>a, <2>1, <2>2, Zenon DEF FrameInv, FrameOwner, newFrame, ThreadTypeOK
  <2>4. thread64_count' = t /\ ready_bitmap' = ready_bitmap \cup {p}
    BY <1>2, Zenon DEF sched64_create_thread, CanCreate, initial_slice
  <2>5. \A q \in Prio : /\ ready_queue'[q] <= t
                        /\ q \in ready_bitmap' => ready_queue'[q] # 0
    BY <1>2, <1>a, <2>1, <2>4 DEF sched64_create_thread, CanCreate, initial_slice, FrameInv,
       DispatchTypeOK, Thread0
  <2>6. \A u \in 1..t : next'[u] \in 1..t
    <3>1. ready_queue[p] # 0 => ready_queue[p] \in 1..t
      BY <1>a, <2>1 DEF FrameInv, DispatchTypeOK, Thread0
    <3>2. CASE next' = [next EXCEPT ![t] = t]
      BY <1>a, <2>1, <3>2 DEF FrameInv, ThreadTypeOK, Threads
    <3>3. ASSUME NEW x, ready_queue[p] # 0,
                 next' = [next EXCEPT ![x] = t, ![t] = ready_queue[p]]
          PROVE  \A u \in 1..t : next'[u] \in 1..t
      <4>1. \A u \in Threads : next'[u] = IF u = t THEN ready_queue[p]
                                          ELSE IF u = x THEN t ELSE next[u]
        BY <1>a, <3>3, Zenon DEF ThreadTypeOK
      <4>2. \A u \in 1..t : u \in Threads /\ (u # t => u \in 1..thread64_count)
        BY <2>1, SchedAssumption DEF Threads
      <4>3. \A u \in 1..t : u # t => next[u] \in 1..t
        BY <1>a, <2>1, <4>2 DEF FrameInv
      <4>4. t \in 1..t
        BY <2>1
      <4> HIDE DEF t
      <4>5. QED
        BY <3>1, <3>3, <4>1, <4>2, <4>3, <4>4, Zenon
    <3>4. QED
      BY <1>2, <3>2, <3>3, Zenon DEF sched64_create_thread, CanCreate, initial_slice
  <2>8. \E b \in ready_bitmap' : \A q \in ready_bitmap' : q <= b
    <3>1. \A q \in ready_bitmap' : q \in Nat
      BY <1>a, <2>1, <2>4, SchedAssumption DEF DispatchTypeOK, Prio
    <3>2. QED
      BY <1>a, <2>4, <3>1 DEF FrameInv
  <2>7. QED
    BY <2>3, <2>4, <2>5, <2>6, <2>8, Zenon DEF FrameInv
<1>3. ASSUME NEW c \in CPUs, reschedule_pick(c)
      PROVE  FrameInv'
  <2>1. UNCHANGED <<frame, exec, stale, next, thread64_count, ready_bitmap>>
    BY <1>3, Zenon DEF reschedule_pick
  <2>2. \A q \in Prio : /\ ready_queue'[q] <= thread64_count
                        /\ q \in ready_bitmap => ready_queue'[q] # 0
    BY <1>3, <1>a, PickCases DEF FrameInv, DispatchTypeOK, ThreadTypeOK, Thread0
  <2>3. QED
    BY <1>a, <2>1, <2>2, Zenon DEF FrameInv, FrameOwner
<1>4. ASSUME NEW c \in CPUs, ~Stopped, context_switch64(c)
      PROVE  FrameInv'
  <2> DEFINE g == [pc |-> pc[c], irq |-> irq[c], lcpu |-> lcpu[c], rflags |-> intr[c],
                   owner |-> exec[c]]
  <2>1. /\ rs[c] = "switch" /\ UNCHANGED <<threadVars, queueVars>>
        /\ \A t \in Threads : frame'[t] = IF t = prev[c] THEN g ELSE frame[t]
    BY <1>4, Zenon DEF context_switch64
  <2>2. prev[c] = exec[c] /\ exec' = [exec EXCEPT ![c] = succ[c]] /\ succ[c] \in Threads
    BY <1>4, SwitchCases, Zenon
  <2>3. prev[c] # 0 => ~intr[c] /\ pc[c] \in {"run", "lock", "post"}
    BY <2>1, <2>2, Zenon DEF IInv, CtlInv, CtlAt, ExecInv, ExecAt
  <2>4. FrameOwner'
    BY <1>a, <2>1, <2>2 DEF FrameInv, FrameOwner
  <2>5. ASSUME NEW t \in Threads
        PROVE  /\ frame'[t].pc \in {"run", "lock", "post"}
               /\ frame'[t].rflags => frame'[t].pc = "run" /\ frame'[t].irq = 0
    BY <1>a, <2>1, <2>3 DEF FrameInv, Threads
  <2>6. ASSUME NEW t \in Threads, ~stale', frame'[t].pc = "lock"
        PROVE  exec'[frame'[t].lcpu] # 0
    <3>1. OneRunner
      BY <1>4, Zenon DEF IInv, ExecInv, Stopped
    <3>8. stale' = (\E d \in CPUs : exec[d] = succ[c])
      BY <1>4, SwitchCases, Zenon
    <3>2. \A d \in CPUs : exec[d] # succ[c]
      BY <2>6, <3>8, Zenon
    <3>3. \A d \in CPUs : d # c => exec[d] = 0
      BY <2>1, <3>1, <3>2, Zenon DEF OneRunner
    <3>4. succ[c] # 0
      BY <2>2 DEF Threads
    <3>5. CASE t = prev[c]
      BY <1>a, <2>1, <2>2, <2>6, <3>1, <3>4, <3>5 DEF OneRunner, DispatchTypeOK
    <3>6. CASE t # prev[c]
      <4>1. exec[frame[t].lcpu] # 0 /\ frame[t].lcpu \in CPUs
        BY <1>4, <1>a, <2>1, <2>6, <3>6, Zenon DEF FrameInv, Stopped, ThreadTypeOK, Frames
      <4>2. QED
        BY <1>a, <2>1, <2>2, <3>3, <3>4, <3>6, <4>1, Zenon DEF DispatchTypeOK
    <3>7. QED
      BY <3>5, <3>6, Zenon
  <2>7. QED
    BY <1>a, <2>1, <2>4, <2>5, <2>6, Zenon DEF FrameInv, threadVars, queueVars
<1>5. QED
  BY <1>1, <1>2, <1>3, <1>4, QuietCases, Zenon

(* A thread that never ran has its whole slice.                            *)
LEMMA SliceStep == IInv /\ SliceInv /\ [Next]_vars => SliceInv'
<1> SUFFICES ASSUME IInv, SliceInv, [Next]_vars, NEW t \in (1..thread64_count)',
                    frame'[t].rflags, \A c \in CPUs : exec'[c] # t
             PROVE  time_slice'[t] = SLICE
  BY Zenon DEF SliceInv
<1>1. CASE UNCHANGED schedVars
  BY <1>1, Zenon DEF SliceInv, schedVars, threadVars
<1>2. ASSUME NEW p \in 0..NUM_PRIORITIES64, sched64_create_thread(p)
      PROVE  time_slice'[t] = SLICE
  <2>1. thread64_count \in Nat /\ thread64_count + 1 \in Threads
    BY <1>2, SchedAssumption DEF sched64_create_thread, CanCreate, initial_slice, IInv, TypeOK,
       ThreadTypeOK, Threads, Thread0
  <2>2. /\ thread64_count' = thread64_count + 1 /\ UNCHANGED exec
        /\ time_slice' = [time_slice EXCEPT ![thread64_count + 1] = SLICE]
        /\ frame' = [frame EXCEPT ![thread64_count + 1] = newFrame(thread64_count + 1)]
    BY <1>2, Zenon DEF sched64_create_thread, CanCreate, initial_slice
  <2>3. CASE t = thread64_count + 1
    BY <2>1, <2>2, <2>3, Zenon DEF IInv, TypeOK, ThreadTypeOK
  <2>4. CASE t # thread64_count + 1
    BY <2>1, <2>2, <2>4 DEF SliceInv, IInv, TypeOK, ThreadTypeOK
  <2>5. QED
    BY <2>3, <2>4, Zenon
<1>3. ASSUME NEW c \in CPUs, reschedule_pick(c)
      PROVE  time_slice'[t] = SLICE
  BY <1>3, Zenon DEF reschedule_pick, SliceInv
<1>4. ASSUME NEW c \in CPUs, context_switch64(c)
      PROVE  time_slice'[t] = SLICE
  <2>1. rs[c] = "switch" /\ UNCHANGED <<thread64_count, time_slice>>
    BY <1>4, Zenon DEF context_switch64, threadVars
  <2>2. prev[c] = exec[c] /\ exec' = [exec EXCEPT ![c] = succ[c]]
    BY <1>4, SwitchCases, Zenon
  <2>3. ~intr[c]
    BY <2>1, Zenon DEF IInv, CtlInv, CtlAt
  <2>4. t \in Threads
    BY <2>1, SchedAssumption DEF IInv, TypeOK, ThreadTypeOK, Threads, Thread0
  <2>5. t # exec[c] /\ frame'[t] = frame[t]
    BY <1>4, <2>2, <2>3, <2>4, Zenon DEF context_switch64
  <2>6. \A d \in CPUs : exec[d] # t
    BY <2>2, <2>5, Zenon DEF IInv, TypeOK, DispatchTypeOK
  <2>7. QED
    BY <2>1, <2>5, <2>6, Zenon DEF SliceInv
<1>5. ASSUME NEW c \in CPUs, tick_count(c) \/ tick_defer(c) \/ tick_reschedule(c)
      PROVE  time_slice'[t] = SLICE
  <2>1. intr[c] /\ UNCHANGED <<frame, exec, thread64_count>>
    BY <1>5, Zenon DEF tick_count, tick_defer, tick_reschedule, TickAllowed
  <2>2. current[c] = exec[c]
    BY <2>1, Zenon DEF IInv, CtlInv, CtlAt, ExecInv, ExecAt
  <2>3. \E v : time_slice' = [time_slice EXCEPT ![current[c]] = v]
    BY <1>5, Zenon DEF tick_count, tick_defer, tick_reschedule
  <2>4. time_slice'[t] = time_slice[t]
    BY <2>1, <2>2, <2>3 DEF IInv, TypeOK, ThreadTypeOK
  <2>5. QED
    BY <2>1, <2>4, Zenon DEF SliceInv
<1>6. QED
  BY <1>1, <1>2, <1>3, <1>4, <1>5, SchedSteps, Zenon

(* The ticks a new thread takes before it has released the lock are all    *)
(* counted, if fewer than a slice of them arrive there.                    *)
LEMMA WindowStep ==
  ASSUME MAX_WINDOW < SLICE, IInv, SliceInv, [Next]_vars, NEW d \in CPUs, WindowAt(d)
  PROVE  WindowAt(d)'
<1>a. LockTypeOK /\ ThreadTypeOK /\ DispatchTypeOK
  BY Zenon DEF IInv, TypeOK
<1>b. ASSUME NEW c \in CPUs
      PROVE  /\ pc[c] = "sipi" => rs[c] = "none"
             /\ intr[c] /\ rs[c] # "none" => rs[c] \in {"dec", "rel"}
             /\ rs[c] # "switch" => current[c] = exec[c]
             /\ ~Stopped /\ exec[c] # 0 /\ exec[d] # 0 => c = d
  BY Zenon DEF IInv, ExecInv, ExecAt, CtlInv, CtlAt, OneRunner, Stopped

<1> USE DEF WindowAt, LockTypeOK, At, Goto, lockVars, ctlVars, schedVars, threadVars, queueVars, dispatchVars
<1>1. ASSUME NEW p \in 0..NUM_PRIORITIES64, ~Stopped, sched64_create_thread(p)
      PROVE  WindowAt(d)'
  <2>1. rs'[d] = "none"
    BY <1>1, BootIdle, Zenon DEF sched64_create_thread, CanCreate, initial_slice
  <2>2. QED
    BY <2>1, Zenon
<1>2. ASSUME NEW p \in 0..NUM_PRIORITIES64, ~Stopped, create_thread_panic(p)
      PROVE  WindowAt(d)'
  BY <1>2, <1>a, <1>b, Zenon DEF create_thread_panic
<1>3. ASSUME NEW a \in CPUs \ {BSP}, ~Stopped, send_init_sipi_sipi(a)
      PROVE  WindowAt(d)'
  BY <1>3, <1>a, <1>b, Zenon DEF send_init_sipi_sipi
<1>4. ASSUME NEW a \in CPUs \ {BSP}, ~Stopped, ap_entry64(a)
      PROVE  WindowAt(d)'
  BY <1>4, <1>a, <1>b, Zenon DEF ap_entry64
<1>5. ASSUME ~Stopped, boot_done
      PROVE  WindowAt(d)'
  BY <1>5, <1>a, <1>b, Zenon DEF boot_done
<1>6. ASSUME NEW c \in CPUs, ~Stopped, NKern_Lock_read(c) /\ UNCHANGED schedVars
      PROVE  WindowAt(d)'
  BY <1>6, <1>a, <1>b, Zenon DEF NKern_Lock_read
<1>7. ASSUME NEW c \in CPUs, ~Stopped, NKern_Lock_count(c) /\ UNCHANGED schedVars
      PROVE  WindowAt(d)'
  BY <1>7, <1>a, <1>b, Zenon DEF NKern_Lock_count
<1>8. ASSUME NEW c \in CPUs, ~Stopped, NKern_Lock_acquire(c) /\ UNCHANGED schedVars
      PROVE  WindowAt(d)'
  BY <1>8, <1>a, <1>b, Zenon DEF NKern_Lock_acquire
<1>9. ASSUME NEW c \in CPUs, ~Stopped, NKern_Unlock_count(c) /\ UNCHANGED schedVars
      PROVE  WindowAt(d)'
  BY <1>9, <1>a, <1>b, Zenon DEF NKern_Unlock_count, decremented
<1>10. ASSUME NEW c \in CPUs, ~Stopped, NKern_Unlock_release(c) /\ UNCHANGED schedVars
      PROVE  WindowAt(d)'
  BY <1>10, <1>a, <1>b, Zenon DEF NKern_Unlock_release
<1>11. ASSUME NEW c \in CPUs, ~Stopped, NKern_Unlock_reschedule(c) /\ UNCHANGED schedVars
      PROVE  WindowAt(d)'
  BY <1>11, <1>a, <1>b, Zenon DEF NKern_Unlock_reschedule, NKern_LockForSwitch
<1>12. ASSUME NEW c \in CPUs, ~Stopped, NKern_Unlock_sti(c, Home(c)) /\ UNCHANGED schedVars
      PROVE  WindowAt(d)'
  BY <1>12, <1>a, <1>b, Zenon DEF NKern_Unlock_sti, Home
<1>13. ASSUME NEW c \in CPUs, ~Stopped, NKern_LockForSwitch_acquire(c) /\ UNCHANGED schedVars
      PROVE  WindowAt(d)'
  BY <1>13, <1>a, <1>b, Zenon DEF NKern_LockForSwitch_acquire
<1>14. ASSUME NEW c \in CPUs, ~Stopped, NKern_UnlockAfterSwitch_count(c) /\ UNCHANGED schedVars
      PROVE  WindowAt(d)'
  BY <1>14, <1>a, <1>b, Zenon DEF NKern_UnlockAfterSwitch_count, decremented
<1>15. ASSUME NEW c \in CPUs, ~Stopped, NKern_UnlockAfterSwitch_release(c) /\ UNCHANGED schedVars
      PROVE  WindowAt(d)'
  BY <1>15, <1>a, <1>b, Zenon DEF NKern_UnlockAfterSwitch_release
<1>16. ASSUME NEW c \in CPUs, ~Stopped, idle_reschedule(c)
      PROVE  WindowAt(d)'
  BY <1>16, <1>a, <1>b, Zenon DEF idle_reschedule, NKern_LockForSwitch
<1>17. ASSUME NEW c \in CPUs, ~Stopped, reschedule_pick(c)
      PROVE  WindowAt(d)'
  BY <1>17, <1>a, <1>b, ZenonT(30) DEF reschedule_pick
<1>18. ASSUME NEW c \in CPUs, ~Stopped, context_switch64(c)
      PROVE  WindowAt(d)'
  <2> HIDE DEF WindowAt, At, Goto, schedVars, LockTypeOK, lockVars, ctlVars,
               threadVars, queueVars, dispatchVars
  <2>1. CASE d # c
    <3>1. /\ rs'[d] = rs[d] /\ intr'[d] = intr[d] /\ window'[d] = window[d]
          /\ exec'[d] = exec[d] /\ UNCHANGED time_slice
      BY <1>18, <1>a, <2>1, Zenon DEF context_switch64, DispatchTypeOK,
         LockTypeOK, lockVars, ctlVars, threadVars, queueVars, dispatchVars
    <3>2. ~stale
      BY <1>18, Zenon DEF Stopped
    <3>3. QED
      BY <3>1, <3>2, Zenon DEF WindowAt
  <2>2. CASE d = c
    <3>1. /\ succ[c] \in Threads /\ current[c] = succ[c]
          /\ exec' = [exec EXCEPT ![c] = succ[c]]
          /\ stale' = (\E e \in CPUs : exec[e] = succ[c])
      BY <1>18, SwitchCases, Zenon
    <3>2. /\ intr'[c] = frame[succ[c]].rflags /\ window'[c] = 0 /\ exec'[c] = succ[c]
          /\ UNCHANGED time_slice
      BY <1>18, <1>a, <3>1, Zenon DEF context_switch64, DispatchTypeOK,
         LockTypeOK, lockVars, ctlVars, threadVars, queueVars, dispatchVars
    <3>8. current[c] <= thread64_count
      BY Zenon DEF IInv, ExecInv, ExecAt
    <3>9. thread64_count \in Nat /\ MAX_THREADS64 \in Nat
      BY <1>a, SchedAssumption DEF ThreadTypeOK, Thread0
    <3>3. succ[c] \in 1..thread64_count
      BY <3>1, <3>8, <3>9 DEF Threads
    <3>6. ~stale' => \A e \in CPUs : exec[e] # succ[c]
      BY <3>1, Zenon
    <3>7. ~stale' /\ frame[succ[c]].rflags => time_slice[succ[c]] = SLICE
      BY <3>3, <3>6, Zenon DEF SliceInv
    <3>4. rs'[c] = "dec" /\ (~stale' /\ intr'[c] => time_slice[succ[c]] = SLICE)
      BY <1>18, <1>a, <3>2, <3>7, Zenon DEF context_switch64,
         LockTypeOK, lockVars, ctlVars, threadVars, queueVars, dispatchVars
    <3>10. SLICE + 0 = SLICE
      BY SchedAssumption
    <3>11. ~stale' /\ intr'[c] => time_slice'[exec'[c]] + window'[c] = SLICE
      BY <3>2, <3>4, <3>10, Zenon
    <3>12. exec'[c] # 0
      BY <3>1, <3>2 DEF Threads
    <3>5. QED
      BY <2>2, <3>4, <3>11, <3>12, Zenon DEF WindowAt
  <2>3. QED
    BY <2>1, <2>2, Zenon
<1>19. ASSUME NEW c \in CPUs, ~Stopped, irq_return(c)
      PROVE  WindowAt(d)'
  BY <1>19, <1>a, <1>b, Zenon DEF irq_return
<1>20. ASSUME NEW c \in CPUs, ~Stopped, tick_idle(c)
      PROVE  WindowAt(d)'
  BY <1>20, <1>a, <1>b, Zenon DEF tick_idle, TickAllowed
<1>21. ASSUME NEW c \in CPUs, ~Stopped, tick_count(c)
      PROVE  WindowAt(d)'
  <2> HIDE DEF WindowAt, At, Goto, schedVars, LockTypeOK, lockVars, ctlVars,
               threadVars, queueVars, dispatchVars
  <2>1. rs[c] # "switch" /\ current[c] = exec[c] /\ exec[c] \in Threads
    BY <1>21, <1>a, <1>b DEF tick_count, TickAllowed, DispatchTypeOK, Threads, Thread0,
       LockTypeOK, lockVars, ctlVars, threadVars, queueVars, dispatchVars
  <2>2. CASE d # c
    <3>1. exec[d] = 0 /\ UNCHANGED <<rs, intr, exec>> /\ ~stale
      BY <1>21, <1>b, <2>1, <2>2, Zenon DEF tick_count, Stopped, Threads,
         LockTypeOK, lockVars, ctlVars, threadVars, queueVars, dispatchVars
    <3>2. QED
      BY <3>1, Zenon DEF WindowAt
  <2>3. CASE d = c
    <3>1. time_slice[exec[c]] \in Nat /\ window[c] \in Nat
      BY <1>a, <2>1, SchedAssumption DEF ThreadTypeOK, DispatchTypeOK
    <3>2. /\ time_slice'[exec[c]] = time_slice[exec[c]] - 1
          /\ rs[c] # "none" => window'[c] = window[c] + 1
          /\ UNCHANGED <<rs, intr, exec>>
      BY <1>21, <1>a, <2>1, Zenon DEF tick_count, CountWindow, ThreadTypeOK, DispatchTypeOK,
         LockTypeOK, lockVars, ctlVars, threadVars, queueVars, dispatchVars
    <3>4. ~stale
      BY <1>21, Zenon DEF Stopped
    <3>5. /\ rs[c] # "dead"
          /\ intr[c] /\ rs[c] # "none" => time_slice[exec[c]] + window[c] = SLICE
      BY <2>3, <3>4, Zenon DEF WindowAt
    <3>6. intr[c] /\ rs[c] # "none" => time_slice'[exec[c]] + window'[c] = SLICE
      BY <3>1, <3>2, <3>5
    <3>7. exec[c] # 0
      BY <2>1 DEF Threads
    <3>3. QED
      BY <2>3, <3>2, <3>5, <3>6, <3>7, Zenon DEF WindowAt
  <2>4. QED
    BY <2>2, <2>3, Zenon
<1>22. ASSUME NEW c \in CPUs, ~Stopped, tick_defer(c)
      PROVE  WindowAt(d)'
  <2> HIDE DEF WindowAt, At, Goto, schedVars, LockTypeOK, lockVars, ctlVars,
               threadVars, queueVars, dispatchVars
  <2>1. rs[c] # "switch" /\ current[c] = exec[c] /\ exec[c] \in Threads
    BY <1>22, <1>a, <1>b DEF tick_defer, TickAllowed, DispatchTypeOK, Threads, Thread0,
       LockTypeOK, lockVars, ctlVars, threadVars, queueVars, dispatchVars
  <2>2. CASE d # c
    <3>1. exec[d] = 0 /\ UNCHANGED <<rs, intr, exec>> /\ ~stale
      BY <1>22, <1>b, <2>1, <2>2, Zenon DEF tick_defer, Stopped, Threads,
         LockTypeOK, lockVars, ctlVars, threadVars, queueVars, dispatchVars
    <3>2. QED
      BY <3>1, Zenon DEF WindowAt
  <2>3. CASE d = c
    <3>1. window[c] \in Nat /\ time_slice[exec[c]] = 1 /\ intr[c]
          /\ (rs[c] = "none" \/ window[c] < MAX_WINDOW) /\ UNCHANGED rs
      BY <1>22, <1>a, <2>1, Zenon DEF tick_defer, TickAllowed, DispatchTypeOK,
         LockTypeOK, lockVars, ctlVars, threadVars, queueVars, dispatchVars
    <3>4. ~stale
      BY <1>22, Zenon DEF Stopped
    <3>5. intr[c] /\ rs[c] # "none" => time_slice[exec[c]] + window[c] = SLICE
      BY <2>3, <3>4, Zenon DEF WindowAt
    <3>6. rs[c] # "none" => 1 + window[c] = SLICE /\ window[c] < MAX_WINDOW
      BY <3>1, <3>5, Zenon
    <3>7. \A w, m, s \in Nat : w < m /\ m < s => 1 + w # s
      OBVIOUS
    <3>2. rs[c] = "none"
      BY <3>1, <3>6, <3>7, SchedAssumption, Zenon
    <3>3. QED
      BY <2>3, <3>1, <3>2, Zenon DEF WindowAt
  <2>4. QED
    BY <2>2, <2>3, Zenon
<1>23. ASSUME NEW c \in CPUs, ~Stopped, tick_reschedule(c)
      PROVE  WindowAt(d)'
  <2> HIDE DEF WindowAt, At, Goto, schedVars, LockTypeOK, lockVars, ctlVars,
               threadVars, queueVars, dispatchVars
  <2>1. /\ intr[c] /\ (rs[c] = "none" \/ window[c] < MAX_WINDOW)
        /\ current[c] # 0 /\ time_slice[current[c]] = 1
    BY <1>23, Zenon DEF tick_reschedule, TickAllowed,
       LockTypeOK, lockVars, ctlVars, threadVars, queueVars, dispatchVars
  <2>2. current[c] = exec[c] /\ window[c] \in Nat /\ exec[c] # 0
    BY <1>a, <1>b, <2>1, Zenon DEF DispatchTypeOK
  <2>7. ~stale
    BY <1>23, Zenon DEF Stopped
  <2>3. ASSUME c = d PROVE rs[c] = "none"
    <3>1. intr[c] /\ rs[c] # "none" => time_slice[exec[c]] + window[c] = SLICE
      BY <2>3, <2>7, Zenon DEF WindowAt
    <3>2. time_slice[exec[c]] = 1 /\ intr[c]
      BY <2>1, <2>2, Zenon
    <3>3. rs[c] # "none" => 1 + window[c] = SLICE /\ window[c] < MAX_WINDOW
      BY <2>1, <3>1, <3>2, Zenon
    <3>4. \A w, m, s \in Nat : w < m /\ m < s => 1 + w # s
      OBVIOUS
    <3>5. QED
      BY <2>2, <3>3, <3>4, SchedAssumption, Zenon
  <2>8. d # c => exec[d] = 0 /\ rs'[d] = rs[d] /\ intr'[d] = intr[d]
    BY <1>23, <1>a, <1>b, <2>2, Zenon DEF tick_reschedule, NKern_LockForSwitch,
       LockTypeOK, lockVars, ctlVars, threadVars, queueVars, dispatchVars
  <2>4. CASE d # c
    BY <2>4, <2>7, <2>8, Zenon DEF WindowAt
  <2>5. CASE d = c
    BY <1>23, <1>a, <2>3, <2>5, Zenon DEF WindowAt, tick_reschedule, NKern_LockForSwitch,
       LockTypeOK, lockVars, ctlVars, threadVars, queueVars, dispatchVars
  <2>6. QED
    BY <2>4, <2>5, Zenon
<1>24. CASE UNCHANGED vars
  BY <1>24, <1>a, <1>b, Zenon DEF vars
<1>25. QED
  BY <1>1, <1>2, <1>3, <1>4, <1>5, <1>6, <1>7, <1>8, <1>9, <1>10, <1>11,
     <1>12, <1>13, <1>14, <1>15, <1>16, <1>17, <1>18, <1>19, <1>20, <1>21,
     <1>22, <1>23, <1>24, Zenon DEF Next, Boot, CpuStep, NKernStep, Tick

(* The cached CR3 is the loaded one and belongs to current.                *)
LEMMA AddrStep == IInv /\ AddrInv /\ [Next]_vars => AddrInv'
<1> SUFFICES ASSUME IInv, AddrInv, [Next]_vars PROVE AddrInv'
  BY Zenon
<1>1. CASE UNCHANGED dispatchVars
  BY <1>1, Zenon DEF AddrInv, dispatchVars
<1>2. ASSUME NEW c \in CPUs, reschedule_pick(c) PROVE AddrInv'
  <2>1. CASE UNCHANGED dispatchVars
    BY <2>1, Zenon DEF AddrInv, dispatchVars
  <2>2. ASSUME NEW new, /\ current' = [current EXCEPT ![c] = new]
                        /\ loaded_cr3' = [loaded_cr3 EXCEPT ![c] = new]
                        /\ cr3' = IF new # loaded_cr3[c] THEN [cr3 EXCEPT ![c] = new] ELSE cr3
        PROVE  AddrInv'
    BY <2>2, Zenon DEF AddrInv, IInv, TypeOK, DispatchTypeOK
  <2>3. QED
    BY <1>2, <2>1, <2>2, Zenon DEF reschedule_pick, load_cr3
<1>3. QED
  BY <1>1, <1>2, QuietCases, Zenon DEF Quiet, sched64_create_thread, CanCreate, initial_slice,
     context_switch64

(* The interrupt flag is as IfAt says at every control point.              *)
LEMMA IfStep == IInv /\ (\A c \in CPUs : IfAt(c)) /\ [Next]_vars => \A c \in CPUs : IfAt(c)'
<1> SUFFICES ASSUME IInv, \A c \in CPUs : IfAt(c), [Next]_vars, NEW d \in CPUs PROVE IfAt(d)'
  BY Zenon
<1>a. LockTypeOK /\ current \in [CPUs -> Thread0] /\ \A c \in CPUs : CtlAt(c) /\ IfAt(c)
  BY Zenon DEF IInv, TypeOK, CtlInv, DispatchTypeOK
<1>b. ~Stopped => \A c \in CPUs : pc[c] = "lock" => lcpu[c] = c
  BY Zenon DEF IInv, ExecInv, OneRunner, Stopped
<1>c. ASSUME NEW c \in CPUs, rs[c] = "switch"
      PROVE  frame[succ[c]] \in Frames /\ frame[succ[c]].pc \in {"run", "lock", "post"}
  <2>1. succ[c] \in Threads
    BY <1>c DEF IInv, TypeOK, DispatchTypeOK, ExecInv, ExecAt, Threads, Thread0
  <2>2. QED
    BY <2>1, Zenon DEF IInv, TypeOK, ThreadTypeOK, FrameInv
<1>d. \A c \in CPUs : rs[c] # "switch" /\ current[c] # 0 =>
        pc[c] \notin {"boot", "halt", "idle", "hlt"}
  BY Zenon DEF IInv, ExecInv, ExecAt
<1> USE DEF LockTypeOK, PC, RS, CtlAt, IfAt, At, Goto, lockVars, ctlVars, schedVars, dispatchVars
<1>1. ASSUME NEW p \in 0..NUM_PRIORITIES64, ~Stopped, sched64_create_thread(p)
      PROVE  IfAt(d)'
  BY <1>1, <1>a, Zenon DEF sched64_create_thread, CanCreate, initial_slice, newFrame
<1>2. ASSUME NEW p \in 0..NUM_PRIORITIES64, ~Stopped, create_thread_panic(p)
      PROVE  IfAt(d)'
  BY <1>2, <1>a, Zenon DEF create_thread_panic
<1>3. ASSUME NEW a \in CPUs \ {BSP}, ~Stopped, send_init_sipi_sipi(a)
      PROVE  IfAt(d)'
  BY <1>3, <1>a, Zenon DEF send_init_sipi_sipi
<1>4. ASSUME NEW a \in CPUs \ {BSP}, ~Stopped, ap_entry64(a)
      PROVE  IfAt(d)'
  BY <1>4, <1>a, Zenon DEF ap_entry64
<1>5. ASSUME ~Stopped, boot_done
      PROVE  IfAt(d)'
  BY <1>5, <1>a, Zenon DEF boot_done
<1>6. ASSUME NEW c \in CPUs, ~Stopped, NKern_Lock_read(c) /\ UNCHANGED schedVars
      PROVE  IfAt(d)'
  BY <1>6, <1>a, <1>d, Zenon DEF NKern_Lock_read
<1>7. ASSUME NEW c \in CPUs, ~Stopped, NKern_Lock_count(c) /\ UNCHANGED schedVars
      PROVE  IfAt(d)'
  BY <1>7, <1>a, <1>b, Zenon DEF NKern_Lock_count
<1>8. ASSUME NEW c \in CPUs, ~Stopped, NKern_Lock_acquire(c) /\ UNCHANGED schedVars
      PROVE  IfAt(d)'
  BY <1>8, <1>a, Zenon DEF NKern_Lock_acquire
<1>9. ASSUME NEW c \in CPUs, ~Stopped, NKern_Unlock_count(c) /\ UNCHANGED schedVars
      PROVE  IfAt(d)'
  BY <1>9, <1>a, Zenon DEF NKern_Unlock_count, decremented
<1>10. ASSUME NEW c \in CPUs, ~Stopped, NKern_Unlock_release(c) /\ UNCHANGED schedVars
      PROVE  IfAt(d)'
  BY <1>10, <1>a, Zenon DEF NKern_Unlock_release
<1>11. ASSUME NEW c \in CPUs, ~Stopped, NKern_Unlock_reschedule(c) /\ UNCHANGED schedVars
      PROVE  IfAt(d)'
  BY <1>11, <1>a, Zenon DEF NKern_Unlock_reschedule, NKern_LockForSwitch
<1>12. ASSUME NEW c \in CPUs, ~Stopped, NKern_Unlock_sti(c, Home(c)) /\ UNCHANGED schedVars
      PROVE  IfAt(d)'
  BY <1>12, <1>a, Zenon DEF NKern_Unlock_sti, Home
<1>13. ASSUME NEW c \in CPUs, ~Stopped, NKern_LockForSwitch_acquire(c) /\ UNCHANGED schedVars
      PROVE  IfAt(d)'
  BY <1>13, <1>a, Zenon DEF NKern_LockForSwitch_acquire
<1>14. ASSUME NEW c \in CPUs, ~Stopped, NKern_UnlockAfterSwitch_count(c) /\ UNCHANGED schedVars
      PROVE  IfAt(d)'
  BY <1>14, <1>a DEF NKern_UnlockAfterSwitch_count, decremented
<1>15. ASSUME NEW c \in CPUs, ~Stopped, NKern_UnlockAfterSwitch_release(c) /\ UNCHANGED schedVars
      PROVE  IfAt(d)'
  BY <1>15, <1>a, Zenon DEF NKern_UnlockAfterSwitch_release
<1>16. ASSUME NEW c \in CPUs, ~Stopped, idle_reschedule(c)
      PROVE  IfAt(d)'
  BY <1>16, <1>a, Zenon DEF idle_reschedule, NKern_LockForSwitch
<1>17. ASSUME NEW c \in CPUs, ~Stopped, reschedule_pick(c)
      PROVE  IfAt(d)'
  BY <1>17, <1>a, Zenon DEF reschedule_pick, dispatchVars
<1>18. ASSUME NEW c \in CPUs, ~Stopped, context_switch64(c)
      PROVE  IfAt(d)'
  BY <1>18, <1>a, <1>c, Zenon DEF context_switch64, Frames
<1>19. ASSUME NEW c \in CPUs, ~Stopped, irq_return(c)
      PROVE  IfAt(d)'
  BY <1>19, <1>a, Zenon DEF irq_return
<1>20. ASSUME NEW c \in CPUs, ~Stopped, tick_idle(c)
      PROVE  IfAt(d)'
  BY <1>20, <1>a, Zenon DEF tick_idle, TickAllowed
<1>21. ASSUME NEW c \in CPUs, ~Stopped, tick_count(c)
      PROVE  IfAt(d)'
  BY <1>21, <1>a, Zenon DEF tick_count, TickAllowed, CountWindow
<1>22. ASSUME NEW c \in CPUs, ~Stopped, tick_defer(c)
      PROVE  IfAt(d)'
  BY <1>22, <1>a, Zenon DEF tick_defer, TickAllowed, CountWindow
<1>23. ASSUME NEW c \in CPUs, ~Stopped, tick_reschedule(c)
      PROVE  IfAt(d)'
  BY <1>23, <1>a, <1>d, Zenon DEF tick_reschedule, NKern_LockForSwitch,
     TickAllowed, CountWindow
<1>24. CASE UNCHANGED vars
  BY <1>24, <1>a, Zenon DEF vars
<1>25. QED
  BY <1>1, <1>2, <1>3, <1>4, <1>5, <1>6, <1>7, <1>8, <1>9, <1>10, <1>11,
     <1>12, <1>13, <1>14, <1>15, <1>16, <1>17, <1>18, <1>19, <1>20, <1>21,
     <1>22, <1>23, <1>24, Zenon DEF Next, Boot, CpuStep, NKernStep, Tick

(* The initial state satisfies every part.                                 *)
LEMMA InitInv == Init => IInv /\ SliceInv /\ AddrInv /\ \A c \in CPUs : WindowAt(c)
<1> SUFFICES ASSUME Init PROVE IInv /\ SliceInv /\ AddrInv /\ \A c \in CPUs : WindowAt(c)
  BY Zenon
<1>1. LockTypeOK
  BY CpuAssumption, Zenon DEF Init, LockInit, LockTypeOK, PC, RS
<1>2. \A t \in Threads : newFrame(t) \in Frames
  BY CpuAssumption, Zenon DEF newFrame, Frames, PC
<1>3. ThreadTypeOK
  BY <1>2, SchedAssumption DEF Init, ThreadTypeOK, Threads, Thread0, Prio
<1>10. 0 \in Thread0
  BY SchedAssumption DEF Thread0
<1>4. DispatchTypeOK
  BY <1>10, Zenon DEF Init, DispatchTypeOK
<1>5. CtlInv /\ MutualExclusion
  BY DEF Init, LockInit, CtlInv, CtlAt, MutualExclusion, Holds
<1>6. ExecInv
  BY DEF Init, LockInit, ExecInv, ExecAt, OneRunner
<1>7. FrameInv
  BY DEF Init, FrameInv, FrameOwner, newFrame
<1>8. SliceInv /\ AddrInv /\ \A c \in CPUs : WindowAt(c)
  BY DEF Init, LockInit, SliceInv, AddrInv, WindowAt
<1>9. QED
  BY <1>1, <1>3, <1>4, <1>5, <1>6, <1>7, <1>8, Zenon DEF IInv, TypeOK

(* IInv is inductive.                                                      *)
LEMMA StepInv == IInv /\ [Next]_vars => IInv'
<1> SUFFICES ASSUME IInv, [Next]_vars PROVE IInv'
  BY Zenon
<1>1. TypeOK'
  BY LockTypeStep, SchedTypeStep, Zenon DEF TypeOK
<1>2. ExecInv'
  BY ExecAtStep, OneRunnerStep, Zenon DEF ExecInv
<1>3. QED
  BY <1>1, <1>2, CtlStep, MutexStep, FrameStep, Zenon DEF IInv

(* IInv holds in every reachable state.                                    *)
LEMMA Invariance == Spec => []IInv
BY InitInv, StepInv, PTL DEF Spec
-----------------------------------------------------------------------------
(* The theorems.                                                           *)

(* Every variable of the lock and of the scheduler keeps to its type, in   *)
(* particular every index into threads64 and ready_queue stays in range.   *)
THEOREM TypeCorrect == Spec => []TypeOK
<1>1. IInv => TypeOK
  BY Zenon DEF IInv, TypeOK
<1>2. QED
  BY <1>1, Invariance, PTL

(* The big kernel lock of nkern_lock.c excludes, on any number of CPUs, with *)
(* nesting and ticks at any point interrupts allow, up to the first dispatch *)
(* of a thread that is running (stale), where the model stops.             *)
THEOREM LockExcludes == Spec => []MutualExclusion
<1>1. IInv => MutualExclusion
  BY Zenon DEF IInv, MutualExclusion
<1>2. QED
  BY <1>1, Invariance, PTL

(* t->rsp always points into t's own stack: context_switch64 saves under the *)
(* lock, to the thread that is really running.                             *)
THEOREM FramesOwned == Spec => []FrameOwner
<1>1. IInv => FrameOwner
  BY Zenon DEF IInv, FrameInv
<1>2. QED
  BY <1>1, Invariance, PTL

(* preempt_disable_count is back to 0 whenever thread or idle code runs, so *)
(* NKern_IsLocked never answers for a call that has returned.              *)
THEOREM CountersReturn == Spec => []CountersBalanced
<1>1. IInv => CountersBalanced
  BY Zenon DEF IInv, CtlInv, CtlAt, CountersBalanced
<1>2. QED
  BY <1>1, Invariance, PTL

(* Interrupts are never lost: a thread that has called NKern_Lock and       *)
(* NKern_Unlock, or was switched out anywhere in between and resumed on any *)
(* CPU, is back in its own code with IF set, and no critical section and no *)
(* reschedule before a switch runs with IF set.                            *)
THEOREM InterruptsKept == Spec => []InterruptsOn
<1> DEFINE Inv == \A c \in CPUs : IfAt(c)
<1>1. Init => Inv
  <2> SUFFICES ASSUME Init, NEW c \in CPUs PROVE IfAt(c)
    BY Zenon
  <2>1. pc[c] \in {"boot", "off"}
    BY Zenon DEF Init, LockInit
  <2>2. QED
    BY <2>1, Zenon DEF IfAt
<1>2. IInv /\ Inv /\ [Next]_vars => Inv'
  BY IfStep, Zenon
<1>3. IInv /\ Inv => InterruptsOn
  <2> SUFFICES ASSUME IInv, Inv, NEW c \in CPUs
               PROVE  /\ rs[c] = "none" /\ pc[c] \in {"run", "idle", "hlt"} => intr[c]
                      /\ rs[c] \in {"spin", "pick", "switch", "dead"} \/ pc[c] \in {"crit", "unl"}
                           => ~intr[c]
    BY Zenon DEF InterruptsOn
  <2>1. CtlAt(c) /\ IfAt(c) /\ LockTypeOK
    BY Zenon DEF IInv, TypeOK, CtlInv
  <2>2. QED
    BY <2>1, Zenon DEF CtlAt, IfAt, LockTypeOK
<1>4. QED
  BY <1>1, <1>2, <1>3, Invariance, PTL DEF Spec

(* A CPU that runs a thread has that thread's page tables loaded, although *)
(* sched64_reschedule skips the CR3 load when its cache says so.           *)
THEOREM RunsInOwnSpace == Spec => []OwnAddressSpace
<1>1. IInv /\ AddrInv => OwnAddressSpace
  BY Zenon DEF IInv, AddrInv, ExecInv, ExecAt, OwnAddressSpace
<1>2. QED
  BY <1>1, Invariance, InitInv, AddrStep, PTL DEF Spec

(* With one CPU no thread is ever dispatched from a frame that is not saved: *)
(* sched64_reschedule never switches to the thread that is running.        *)
THEOREM UniprocessorDispatch ==
  ASSUME \A c \in CPUs : c = BSP
  PROVE  Spec => []NoStaleDispatch
<1>1. Init => NoStaleDispatch
  BY Zenon DEF Init, NoStaleDispatch
<1>2. IInv /\ NoStaleDispatch /\ [Next]_vars => NoStaleDispatch'
  <2> SUFFICES ASSUME IInv, ~stale, [Next]_vars PROVE ~stale'
    BY Zenon DEF NoStaleDispatch
  <2>1. ASSUME NEW c \in CPUs, context_switch64(c) PROVE ~stale'
    <3>1. /\ stale' = (\E d \in CPUs : exec[d] = succ[c])
          /\ prev[c] = exec[c] /\ succ[c] # prev[c]
      BY <2>1, SwitchCases, Zenon
    <3>2. QED
      BY <3>1, Zenon
  <2>2. QED
    BY <2>1, QuietCases, Zenon DEF Quiet, sched64_create_thread, CanCreate, initial_slice,
       reschedule_pick
<1>3. QED
  BY <1>1, <1>2, Invariance, PTL DEF Spec

(* No tick makes a CPU spin on the lock its own interrupted code holds, if *)
(* fewer ticks than a time slice has arrive while a new thread runs its first *)
(* NKern_UnlockAfterSwitch, which it does with interrupts on.              *)
THEOREM NoTickDeadlock ==
  ASSUME MAX_WINDOW < SLICE
  PROVE  Spec => []NoSelfDeadlock
<1> DEFINE Inv == SliceInv /\ \A c \in CPUs : WindowAt(c)
<1>1. Inv => NoSelfDeadlock
  BY Zenon DEF WindowAt, NoSelfDeadlock
<1>2. IInv /\ Inv /\ [Next]_vars => Inv'
  BY SliceStep, WindowStep, Zenon
<1>3. QED
  BY <1>1, <1>2, InitInv, Invariance, PTL DEF Spec

-----------------------------------------------------------------------------
\* The step moves no CPU but c in its use of the lock.
OnlyAt(c) ==
  \A d \in CPUs : d # c => /\ pc'[d] = pc[d] /\ rs'[d] = rs[d]
                          /\ preempt_disable_count'[d] = preempt_disable_count[d]

(* Every step is a step of one CPU.                                        *)
LEMMA OneMoves == IInv /\ [Next]_vars => \E c \in CPUs : OnlyAt(c)
<1> SUFFICES ASSUME IInv, [Next]_vars PROVE \E c \in CPUs : OnlyAt(c)
  BY Zenon
<1>a. LockTypeOK
  BY Zenon DEF IInv, TypeOK
<1>b. ~Stopped => \A c \in CPUs : pc[c] = "lock" => lcpu[c] = c
  BY Zenon DEF IInv, ExecInv, OneRunner, Stopped
<1> USE DEF LockTypeOK, At, Goto, lockVars, ctlVars, OnlyAt
<1>1. ASSUME NEW p \in 0..NUM_PRIORITIES64, sched64_create_thread(p) PROVE OnlyAt(BSP)
  BY <1>1, <1>a, Zenon DEF sched64_create_thread
<1>2. ASSUME NEW p \in 0..NUM_PRIORITIES64, create_thread_panic(p) PROVE OnlyAt(BSP)
  BY <1>2, <1>a, Zenon DEF create_thread_panic
<1>3. ASSUME NEW a \in CPUs \ {BSP}, send_init_sipi_sipi(a) PROVE OnlyAt(a)
  BY <1>3, <1>a, Zenon DEF send_init_sipi_sipi
<1>4. ASSUME NEW a \in CPUs \ {BSP}, ap_entry64(a) PROVE OnlyAt(a)
  BY <1>4, <1>a, Zenon DEF ap_entry64
<1>5. ASSUME boot_done PROVE OnlyAt(BSP)
  BY <1>5, <1>a, Zenon DEF boot_done
<1>6. ASSUME NEW c \in CPUs, ~Stopped, NKern_Lock_read(c) PROVE OnlyAt(c)
  BY <1>6, <1>a, Zenon DEF NKern_Lock_read
<1>7. ASSUME NEW c \in CPUs, ~Stopped, NKern_Lock_count(c) PROVE OnlyAt(c)
  BY <1>7, <1>a, <1>b DEF NKern_Lock_count
<1>8. ASSUME NEW c \in CPUs, ~Stopped, NKern_Lock_acquire(c) PROVE OnlyAt(c)
  BY <1>8, <1>a, Zenon DEF NKern_Lock_acquire
<1>9. ASSUME NEW c \in CPUs, ~Stopped, NKern_Unlock_count(c) PROVE OnlyAt(c)
  BY <1>9, <1>a, Zenon DEF NKern_Unlock_count
<1>10. ASSUME NEW c \in CPUs, ~Stopped, NKern_Unlock_release(c) PROVE OnlyAt(c)
  BY <1>10, <1>a, Zenon DEF NKern_Unlock_release
<1>11. ASSUME NEW c \in CPUs, ~Stopped, NKern_Unlock_reschedule(c) PROVE OnlyAt(c)
  BY <1>11, <1>a, Zenon DEF NKern_Unlock_reschedule, NKern_LockForSwitch
<1>12. ASSUME NEW c \in CPUs, ~Stopped, NKern_Unlock_sti(c, Home(c)) PROVE OnlyAt(c)
  BY <1>12, <1>a, Zenon DEF NKern_Unlock_sti
<1>13. ASSUME NEW c \in CPUs, ~Stopped, NKern_LockForSwitch_acquire(c) PROVE OnlyAt(c)
  BY <1>13, <1>a, Zenon DEF NKern_LockForSwitch_acquire
<1>14. ASSUME NEW c \in CPUs, ~Stopped, NKern_UnlockAfterSwitch_count(c) PROVE OnlyAt(c)
  BY <1>14, <1>a, Zenon DEF NKern_UnlockAfterSwitch_count
<1>15. ASSUME NEW c \in CPUs, ~Stopped, NKern_UnlockAfterSwitch_release(c) PROVE OnlyAt(c)
  BY <1>15, <1>a, Zenon DEF NKern_UnlockAfterSwitch_release
<1>16. ASSUME NEW c \in CPUs, idle_reschedule(c) PROVE OnlyAt(c)
  BY <1>16, <1>a, Zenon DEF idle_reschedule, NKern_LockForSwitch
<1>17. ASSUME NEW c \in CPUs, reschedule_pick(c) PROVE OnlyAt(c)
  BY <1>17, <1>a, Zenon DEF reschedule_pick
<1>18. ASSUME NEW c \in CPUs, context_switch64(c) PROVE OnlyAt(c)
  BY <1>18, <1>a, Zenon DEF context_switch64
<1>19. ASSUME NEW c \in CPUs, irq_return(c) PROVE OnlyAt(c)
  BY <1>19, <1>a, Zenon DEF irq_return
<1>20. ASSUME NEW c \in CPUs, tick_idle(c) PROVE OnlyAt(c)
  BY <1>20, <1>a, Zenon DEF tick_idle
<1>21. ASSUME NEW c \in CPUs, tick_count(c) PROVE OnlyAt(c)
  BY <1>21, <1>a, Zenon DEF tick_count
<1>22. ASSUME NEW c \in CPUs, tick_defer(c) PROVE OnlyAt(c)
  BY <1>22, <1>a, Zenon DEF tick_defer
<1>23. ASSUME NEW c \in CPUs, tick_reschedule(c) PROVE OnlyAt(c)
  BY <1>23, <1>a, Zenon DEF tick_reschedule, NKern_LockForSwitch
<1>24. CASE UNCHANGED vars
  BY <1>24, CpuAssumption, Zenon DEF vars
<1> HIDE DEF LockTypeOK, At, Goto, lockVars, ctlVars, OnlyAt
<1>25. QED
  BY <1>1, <1>2, <1>3, <1>4, <1>5, <1>6, <1>7, <1>8, <1>9, <1>10, <1>11, <1>12, <1>13,
     <1>14, <1>15, <1>16, <1>17, <1>18, <1>19, <1>20, <1>21, <1>22, <1>23, <1>24,
     CpuAssumption, Zenon DEF Next, Boot, CpuStep, NKernStep, Tick

(* A step of one CPU takes the lock when nobody has it, gives up a lock this *)
(* CPU has, or leaves the owner alone.                                     *)
LEMMA OwnerStep == IInv /\ IInv' /\ [Next]_vars => [B!BNext]_Owner
<1> SUFFICES ASSUME IInv, IInv', [Next]_vars PROVE [B!BNext]_Owner
  BY Zenon
<1>1. PICK c \in CPUs : OnlyAt(c)
  BY OneMoves, Zenon
<1>2. \A d \in CPUs : d # c => (Holds(d)' <=> Holds(d))
  BY <1>1, Zenon DEF OnlyAt, Holds
<1>3. /\ \A d, e \in CPUs : Holds(d) /\ Holds(e) => d = e
      /\ \A d, e \in CPUs : Holds(d)' /\ Holds(e)' => d = e
  BY Zenon DEF IInv, MutualExclusion
<1>4. /\ \A d \in CPUs : Holds(d) => Owner = d
      /\ (\A d \in CPUs : ~Holds(d)) => Owner = "none"
      /\ \A d \in CPUs : Holds(d)' => Owner' = d
      /\ (\A d \in CPUs : ~Holds(d)') => Owner' = "none"
  BY <1>3, Zenon DEF Owner
<1>5. CASE Holds(c)' /\ ~Holds(c)
  <2>1. Owner = "none" /\ Owner' = c
    BY <1>2, <1>3, <1>4, <1>5, Zenon
  <2>2. QED
    BY <2>1, Zenon DEF B!BNext, B!Acquire
<1>6. CASE Holds(c) /\ ~Holds(c)'
  <2>1. Owner = c /\ Owner' = "none"
    BY <1>2, <1>3, <1>4, <1>6, Zenon
  <2>2. QED
    BY <2>1, Zenon DEF B!BNext, B!Release
<1>7. CASE Holds(c)' <=> Holds(c)
  <2>1. Owner' = Owner
    BY <1>2, <1>4, <1>7, Zenon
  <2>2. QED
    BY <2>1, Zenon
<1>8. QED
  BY <1>5, <1>6, <1>7, Zenon

(* To its users the lock of nkern_lock.c is BigLock, on any number of CPUs, *)
(* nested or not, across any context switch.                               *)
THEOREM ImplementsBigLock == Spec => OneOwner
<1>1. Init => B!BInit
  BY Zenon DEF Init, LockInit, B!BInit, Owner, Holds
<1>2. QED
  BY <1>1, OwnerStep, Invariance, PTL DEF Spec, OneOwner, B!BSpec
=============================================================================
