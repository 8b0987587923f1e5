------------------------------ MODULE Sched64 ------------------------------
(***************************************************************************)
(* The preemptive scheduler (sched64.c, context_switch64.s, the timer path *)
(* of idt.c) on top of NKernLock, with the boot code that creates the      *)
(* threads and starts the other CPUs (main64.c, smp.c).                    *)
(*                                                                         *)
(* A thread is an index into threads64, 0 is the null pointer.  What       *)
(* context_switch64 leaves at t->rsp is frame[t]: the control state to     *)
(* resume, the saved RFLAGS.IF, and (owner) the stack the frame lies on.   *)
(* exec[c] is the thread whose stack CPU c really runs on, 0 for the boot  *)
(* stack; the code has no such variable, it is the stack pointer itself.   *)
(*                                                                         *)
(* Loading a frame of a thread that another CPU is running puts two CPUs   *)
(* on one stack; nothing can be said of what follows.  The model records   *)
(* the event in stale and stops there.                                     *)
(***************************************************************************)
EXTENDS NKernLock

CONSTANTS MAX_THREADS64, NUM_PRIORITIES64,
          SLICE,         \* the time slice, 5 ticks in the code
          MAX_WINDOW,    \* bound on the ticks that arrive while a new
                         \* thread runs its NKern_UnlockAfterSwitch
          MAX_IRQ        \* bound on timer handlers nested on one stack

ASSUME SchedAssumption ==
  /\ MAX_THREADS64 \in Nat \ {0} /\ NUM_PRIORITIES64 \in Nat \ {0}
  /\ SLICE \in Nat \ {0} /\ MAX_WINDOW \in Nat /\ MAX_IRQ \in Nat

VARIABLES
  thread64_count, priority, state, time_slice, next, frame,   \* threads64
  ready_bitmap, ready_queue, current,                          \* sched64
  prev, succ,      \* locals prev and next of sched64_reschedule
  loaded_cr3, cr3, \* the cached and the real CR3 of each CPU
  exec, window, stale

threadVars == <<thread64_count, priority, state, time_slice, next>>
queueVars == <<ready_bitmap, ready_queue>>
dispatchVars == <<current, prev, succ, loaded_cr3, cr3>>
schedVars == <<threadVars, queueVars, dispatchVars, frame, exec, window, stale>>
vars == <<lockVars, ctlVars, schedVars>>

Threads == 1..MAX_THREADS64
Thread0 == 0..MAX_THREADS64
Prio == 0..(NUM_PRIORITIES64 - 1)

Frames == [pc : PC, irq : Nat, lcpu : CPUs, rflags : BOOLEAN, owner : Threads]

ThreadTypeOK ==
  /\ thread64_count \in Thread0
  /\ priority \in [Threads -> Prio]
  /\ state \in [Threads -> {"UNUSED", "READY", "RUNNING"}]
  /\ time_slice \in [Threads -> 0..SLICE]
  /\ next \in [Threads -> Thread0]
  /\ frame \in [Threads -> Frames]

DispatchTypeOK ==
  /\ ready_bitmap \in SUBSET Prio
  /\ ready_queue \in [Prio -> Thread0]
  /\ current \in [CPUs -> Thread0]
  /\ prev \in [CPUs -> Thread0]
  /\ succ \in [CPUs -> Thread0]
  /\ loaded_cr3 \in [CPUs -> Thread0]
  /\ cr3 \in [CPUs -> Thread0]
  /\ exec \in [CPUs -> Thread0]
  /\ window \in [CPUs -> Nat]
  /\ stale \in BOOLEAN

\* Every variable keeps to the values its C type and its use allow.
TypeOK == LockTypeOK /\ ThreadTypeOK /\ DispatchTypeOK

\* What sched64_create_thread lays out on the stack of a new thread: ret goes
\* to thread_start64, popfq loads 0x202 (IF set).
newFrame(t) == [pc |-> "run", irq |-> 0, lcpu |-> BSP, rflags |-> TRUE,
                owner |-> t]

\* sched64_init, and the zeroed statics of sched64.c.
Init ==
  /\ LockInit
  /\ thread64_count = 0
  /\ priority = [t \in Threads |-> 0]
  /\ state = [t \in Threads |-> "UNUSED"]
  /\ time_slice = [t \in Threads |-> 0]
  /\ next = [t \in Threads |-> 0]
  /\ frame = [t \in Threads |-> newFrame(t)]
  /\ ready_bitmap = {}
  /\ ready_queue = [p \in Prio |-> 0]
  /\ current = [c \in CPUs |-> 0]
  /\ prev = [c \in CPUs |-> 0]
  /\ succ = [c \in CPUs |-> 0]
  /\ loaded_cr3 = [c \in CPUs |-> 0]
  /\ cr3 = [c \in CPUs |-> 0]
  /\ exec = [c \in CPUs |-> 0]
  /\ window = [c \in CPUs |-> 0]
  /\ stale = FALSE
-----------------------------------------------------------------------------
\* The guard, the initial slice and the walk to the tail of ring p.
Mut_CanCreate(p) == thread64_count <= MAX_THREADS64 /\ p < NUM_PRIORITIES64
CanCreate(p) == thread64_count < MAX_THREADS64 /\ p < NUM_PRIORITIES64

Mut_initial_slice == 1
initial_slice == SLICE

Mut_tail(p) == ready_queue[p]
tail(p) == CHOOSE u \in 1..thread64_count : priority[u] = p /\ next[u] = ready_queue[p]

\* sched64_create_thread(p), called by kernel_main64 before smp_start_aps.
\* The thread goes to the tail of its ring; its address space is its own.
sched64_create_thread(p) ==
  LET t == thread64_count + 1
      head == ready_queue[p]
  IN
  /\ At(BSP, "boot") /\ \A c \in CPUs \ {BSP} : pc[c] = "off"
  /\ CanCreate(p)
  /\ thread64_count' = t
  /\ priority' = [priority EXCEPT ![t] = p]
  /\ state' = [state EXCEPT ![t] = "READY"]
  /\ time_slice' = [time_slice EXCEPT ![t] = initial_slice]
  /\ frame' = [frame EXCEPT ![t] = newFrame(t)]
  /\ IF head = 0
       THEN /\ next' = [next EXCEPT ![t] = t]
            /\ ready_queue' = [ready_queue EXCEPT ![p] = t]
       ELSE /\ next' = [next EXCEPT ![tail(p)] = t, ![t] = head]
            /\ UNCHANGED ready_queue
  /\ ready_bitmap' = ready_bitmap \cup {p}
  /\ UNCHANGED <<lockVars, ctlVars, dispatchVars, exec, window, stale>>

\* It returns 0 when the table is full or the priority is out of range, and
\* kernel_main64 panics.
create_thread_panic(p) ==
  /\ At(BSP, "boot") /\ \A c \in CPUs \ {BSP} : pc[c] = "off"
  /\ ~CanCreate(p)
  /\ Goto(BSP, "halt")
  /\ UNCHANGED <<lockVars, intr, rs, irq, lcpu, schedVars>>

\* smp_start_aps sends INIT-SIPI-SIPI to AP a ...
send_init_sipi_sipi(a) ==
  /\ At(BSP, "boot") /\ pc[a] = "off"
  /\ Goto(a, "sipi")
  /\ UNCHANGED <<lockVars, intr, rs, irq, lcpu, schedVars>>

\* ... which reaches the sti and the idle loop of ap_entry64 in its own time,
\* perhaps after the BSP gave up waiting for it.
ap_entry64(a) ==
  /\ pc[a] = "sipi"
  /\ Goto(a, "idle")
  /\ intr' = [intr EXCEPT ![a] = TRUE]
  /\ UNCHANGED <<lockVars, rs, irq, lcpu, schedVars>>

\* The sti of kernel_main64, after which it enters the idle loop too.
boot_done ==
  /\ At(BSP, "boot")
  /\ Goto(BSP, "idle")
  /\ intr' = [intr EXCEPT ![BSP] = TRUE]
  /\ UNCHANGED <<lockVars, rs, irq, lcpu, schedVars>>

\* One turn of the idle loop: the call of sched64_reschedule starts; it
\* returns to the hlt.
idle_reschedule(c) ==
  /\ At(c, "idle")
  /\ NKern_LockForSwitch(c, 0)
  /\ Goto(c, "hlt")
  /\ UNCHANGED <<reschedule_pending, schedVars>>
-----------------------------------------------------------------------------
find_highest_bit64(bitmap) == CHOOSE p \in bitmap : \A q \in bitmap : q <= p

\* prev of sched64_reschedule.
running(c) == current[c]

\* The head of the top ring, or its successor if the head is the one running.
Mut_choice_head(c) == ready_queue[find_highest_bit64(ready_bitmap)]
choice(c) ==
  LET head == ready_queue[find_highest_bit64(ready_bitmap)] IN
  IF head = running(c) /\ next[head] # head THEN next[head] ELSE head

\* The early returns: no ready thread, or the choice runs already.
Mut_stays(c) == ready_bitmap = {}
stays(c) == ready_bitmap = {} \/ choice(c) = running(c)

marked(old, new) == [t \in Threads |-> IF t = old THEN "READY"
                                       ELSE IF t = new THEN "RUNNING" ELSE state[t]]

\* CR3 is loaded only if the cache says it differs.
Mut_load_cr3(c, new) == IF new # loaded_cr3'[c] THEN [cr3 EXCEPT ![c] = new] ELSE cr3
load_cr3(c, new) == IF new # loaded_cr3[c] THEN [cr3 EXCEPT ![c] = new] ELSE cr3

\* sched64_reschedule between taking the lock and the context switch.
reschedule_pick(c) ==
  LET old == running(c)
      new == choice(c)
  IN
  /\ rs[c] = "pick"
  /\ IF stays(c)
       THEN /\ rs' = [rs EXCEPT ![c] = "dec"]
            /\ UNCHANGED <<ready_queue, dispatchVars, state>>
       ELSE /\ rs' = [rs EXCEPT ![c] = "switch"]
            /\ ready_queue' = [ready_queue EXCEPT ![find_highest_bit64(ready_bitmap)] = new]
            /\ current' = [current EXCEPT ![c] = new]
            /\ state' = marked(old, new)
            /\ prev' = [prev EXCEPT ![c] = old]
            /\ succ' = [succ EXCEPT ![c] = new]
            /\ loaded_cr3' = [loaded_cr3 EXCEPT ![c] = new]
            /\ cr3' = load_cr3(c, new)
  /\ UNCHANGED <<lockVars, intr, pc, irq, lcpu, thread64_count, priority,
                 time_slice, next, ready_bitmap, frame, exec, window, stale>>

\* context_switch64: the state of the running stack goes to prev->rsp, the
\* frame at next->rsp is loaded.  A resumed thread comes back inside its own
\* sched64_reschedule, a new one at thread_start64; both unlock next.
context_switch64(c) ==
  LET f == frame[succ[c]] IN
  /\ rs[c] = "switch"
  /\ frame' = [t \in Threads |->
                 IF t = prev[c] THEN [pc |-> pc[c], irq |-> irq[c],
                                      lcpu |-> lcpu[c], rflags |-> intr[c],
                                      owner |-> exec[c]]
                 ELSE frame[t]]
  /\ stale' = (\E d \in CPUs : exec[d] = f.owner)
  /\ exec' = [exec EXCEPT ![c] = f.owner]
  /\ pc' = [pc EXCEPT ![c] = f.pc]
  /\ irq' = [irq EXCEPT ![c] = f.irq]
  /\ lcpu' = [lcpu EXCEPT ![c] = f.lcpu]
  /\ intr' = [intr EXCEPT ![c] = f.rflags]
  /\ rs' = [rs EXCEPT ![c] = "dec"]
  /\ window' = [window EXCEPT ![c] = 0]
  /\ UNCHANGED <<lockVars, threadVars, queueVars, dispatchVars>>
-----------------------------------------------------------------------------
(* The timer interrupt, taken whenever interrupts are on.  The handler      *)
(* masks interrupts, so a tick that does not reschedule is one step.        *)

\* Ticks taken inside a new thread's NKern_UnlockAfterSwitch are bounded.
TickAllowed(c) == intr[c] /\ (rs[c] = "none" \/ window[c] < MAX_WINDOW)
CountWindow(c) ==
  window' = [window EXCEPT ![c] = IF rs[c] = "none" THEN @ ELSE @ + 1]

\* No current thread: the tick only ends a hlt.
tick_idle(c) ==
  /\ TickAllowed(c) /\ current[c] = 0 /\ At(c, "hlt")
  /\ Goto(c, "idle")
  /\ UNCHANGED <<lockVars, intr, rs, irq, lcpu, schedVars>>

\* The slice goes on.
tick_count(c) ==
  /\ TickAllowed(c) /\ current[c] # 0 /\ time_slice[current[c]] > 1
  /\ time_slice' = [time_slice EXCEPT ![current[c]] = @ - 1]
  /\ CountWindow(c)
  /\ UNCHANGED <<lockVars, ctlVars, thread64_count, priority, state, next,
                 queueVars, dispatchVars, frame, exec, stale>>

\* The slice ends while NKern is locked here: the reschedule is put off.
tick_defer(c) ==
  /\ TickAllowed(c) /\ current[c] # 0 /\ time_slice[current[c]] = 1
  /\ time_slice' = [time_slice EXCEPT ![current[c]] = SLICE]
  /\ preempt_disable_count[c] > 0
  /\ reschedule_pending' = [reschedule_pending EXCEPT ![c] = TRUE]
  /\ CountWindow(c)
  /\ UNCHANGED <<preempt_disable_count, saved_if, big_kernel_lock, ctlVars,
                 thread64_count, priority, state, next,
                 queueVars, dispatchVars, frame, exec, stale>>

\* The slice ends: sched64_reschedule is called inside the handler.
tick_reschedule(c) ==
  /\ TickAllowed(c) /\ current[c] # 0 /\ time_slice[current[c]] = 1
  /\ time_slice' = [time_slice EXCEPT ![current[c]] = SLICE]
  /\ preempt_disable_count[c] = 0
  /\ irq[c] < MAX_IRQ
  /\ NKern_LockForSwitch(c, irq[c] + 1)
  /\ CountWindow(c)
  /\ UNCHANGED <<reschedule_pending, pc, thread64_count, priority, state, next,
                 queueVars, dispatchVars, frame, exec, stale>>

\* The handler returns: iretq restores the IF it found, which was set.
irq_return(c) ==
  /\ rs[c] = "none" /\ irq[c] > 0
  /\ irq' = [irq EXCEPT ![c] = @ - 1]
  /\ intr' = [intr EXCEPT ![c] = TRUE]
  /\ UNCHANGED <<lockVars, pc, rs, lcpu, schedVars>>
-----------------------------------------------------------------------------
\* The lock calls of thread code, and of kmalloc in the boot code.
Home(c) == IF current[c] = 0 THEN "boot" ELSE "run"

NKernStep(c) ==
  /\ \/ NKern_Lock_read(c)
     \/ NKern_Lock_count(c)
     \/ NKern_Lock_acquire(c)
     \/ NKern_Unlock_count(c)
     \/ NKern_Unlock_release(c)
     \/ NKern_Unlock_reschedule(c)
     \/ NKern_Unlock_sti(c, Home(c))
     \/ NKern_LockForSwitch_acquire(c)
     \/ NKern_UnlockAfterSwitch_count(c)
     \/ NKern_UnlockAfterSwitch_release(c)
  /\ UNCHANGED schedVars

Tick(c) ==
  tick_idle(c) \/ tick_count(c) \/ tick_defer(c) \/ tick_reschedule(c)

Boot ==
  \/ \E p \in 0..NUM_PRIORITIES64 : sched64_create_thread(p) \/ create_thread_panic(p)
  \/ \E a \in CPUs \ {BSP} : send_init_sipi_sipi(a) \/ ap_entry64(a)
  \/ boot_done

CpuStep(c) ==
  \/ NKernStep(c) \/ idle_reschedule(c) \/ reschedule_pick(c)
  \/ context_switch64(c) \/ irq_return(c)

\* Nothing follows a panic (before any AP runs) or a stale dispatch.
Stopped == stale \/ pc[BSP] = "halt"

\* A CPU that spins on the lock its own interrupted code holds changes nothing
\* any more, and the others come to wait for the lock.
SpinsForEver == \E c \in CPUs : rs[c] = "dead"

Next ==
  \/ ~Stopped /\ (Boot \/ \E c \in CPUs : CpuStep(c) \/ Tick(c))
  \/ (Stopped \/ SpinsForEver) /\ UNCHANGED vars

Spec == Init /\ [][Next]_vars

(* A CPU does not stop between instructions: every step of code under way   *)
(* is weakly fair, except that a thread need not ask for the lock.  The     *)
(* local APIC keeps a timer interrupt pending until IF is set, so the timer *)
(* is strongly fair.                                                        *)
CodeStep(c) == CpuStep(c) /\ ~NKern_Lock_read(c)

(* Critical sections are finite: however often the code inside locks again, *)
(* it comes to its outermost NKern_Unlock (kmalloc, kfree and thread_a).    *)
Leave(c) == /\ preempt_disable_count[c] = 1 /\ NKern_Unlock_count(c)
            /\ UNCHANGED schedVars

(* A handler is short beside a time slice (50 ms): a thread is not for ever *)
(* preempted inside its outermost timer handler before that can return.     *)
Unwind(c, t) == exec[c] = t /\ irq[c] = 1 /\ irq_return(c)

Fairness ==
  \A c \in CPUs : /\ WF_vars(~Stopped /\ CodeStep(c))
                  /\ SF_vars(~Stopped /\ Leave(c))
                  /\ \A t \in Threads : SF_vars(~Stopped /\ Unwind(c, t))
                  /\ SF_vars(~Stopped /\ Tick(c))

FairSpec == Spec /\ Fairness
-----------------------------------------------------------------------------
(* Properties.                                                             *)

\* big_kernel_lock excludes: two CPUs are never both between a spin_acquire
\* and its spin_release, and the lock word is set exactly while one of them
\* is there (nkern_lock.c, every path of NKern_Lock and sched64_reschedule).
MutualExclusion ==
  /\ \A c, d \in CPUs : Holds(c) /\ Holds(d) => c = d
  /\ big_kernel_lock = IF \E c \in CPUs : Holds(c) THEN 1 ELSE 0

\* To the code that uses it, the lock is the one of BigLock: taken only when
\* no CPU owns it, given up only by its owner, and kept by the CPU across
\* context_switch64.
Owner == IF \E c \in CPUs : Holds(c) THEN CHOOSE c \in CPUs : Holds(c) ELSE "none"
B == INSTANCE BigLock WITH None <- "none", owner <- Owner
OneOwner == B!BSpec

\* No timer tick makes a CPU spin on a lock its own interrupted code holds:
\* the window between the decrement and the release of a new thread's
\* NKern_UnlockAfterSwitch, run with IF set by popfq.
NoSelfDeadlock == \A c \in CPUs : rs[c] # "dead"

\* No CPU loads the frame of a thread some CPU is running on: a saved rsp is
\* used only after context_switch64 has stored it.
NoStaleDispatch == ~stale

\* What lies at t->rsp was stored by thread t itself, on its own stack.
FrameOwner == \A t \in Threads : frame[t].owner = t

\* Interrupts are never lost: thread code outside NKern_Lock runs with IF set,
\* and no reschedule runs with IF set before a new thread has been entered.
InterruptsOn ==
  \A c \in CPUs :
    /\ rs[c] = "none" /\ pc[c] \in {"run", "idle", "hlt"} => intr[c]
    /\ rs[c] \in {"spin", "pick", "switch", "dead"} \/ pc[c] \in {"crit", "unl"}
         => ~intr[c]

\* The nesting counter is back to 0 whenever thread or idle code runs, however
\* lock calls, ticks and switches were interleaved.
CountersBalanced ==
  \A c \in CPUs : rs[c] = "none" /\ pc[c] \in {"run", "idle", "hlt", "boot", "post"}
                   => preempt_disable_count[c] = 0

\* A CPU that runs a thread runs in that thread's address space.
OwnAddressSpace ==
  \A c \in CPUs : exec[c] # 0 /\ rs[c] # "switch" => cr3[c] = exec[c]

\* Once the machine is up on one CPU, every thread of the top priority gets the
\* CPU again and again and gets out of the timer handlers on its stack,
\* whatever the threads do with NKern_Lock.
EveryTopThreadRuns ==
  \A t \in Threads :
    ( /\ pc[BSP] \notin {"boot", "halt"} /\ current[BSP] # 0
      /\ t <= thread64_count /\ priority[t] = find_highest_bit64(ready_bitmap) )
    ~> exec[BSP] = t /\ rs[BSP] = "none" /\ irq[BSP] = 0

\* The lock is always released again.
LockReleased == big_kernel_lock = 1 ~> big_kernel_lock = 0
-----------------------------------------------------------------------------
(* The inductive invariant behind the safety theorems, in parts.           *)

\* Counter and interrupt flag at every control point of a CPU.
CtlAt(c) ==
  /\ rs[c] \in {"spin", "pick", "switch", "dec", "dead"} => preempt_disable_count[c] = 1
  /\ rs[c] = "rel" => preempt_disable_count[c] = 0
  /\ rs[c] = "none" =>
       /\ pc[c] = "crit" => preempt_disable_count[c] > 0
       /\ pc[c] = "spin" => preempt_disable_count[c] = 1
       /\ pc[c] \notin {"crit", "spin", "lock"} => preempt_disable_count[c] = 0
  /\ rs[c] # "none" => pc[c] \in {"hlt", "run", "lock", "post"}
  /\ intr[c] /\ rs[c] = "none" =>
       /\ pc[c] \in {"boot", "halt", "run", "lock", "idle", "hlt", "post"}
       /\ preempt_disable_count[c] = 0
  /\ intr[c] /\ rs[c] # "none" => rs[c] \in {"dec", "rel"} /\ pc[c] = "run"
  /\ irq[c] > 0 /\ rs[c] = "none" => intr[c]

CtlInv == \A c \in CPUs : CtlAt(c)

\* Who runs what: current, the locals of a reschedule, and the stack in use.
Top == ready_queue[find_highest_bit64(ready_bitmap)]

ExecAt(c) ==
  /\ pc[c] \in {"off", "sipi", "boot", "halt", "idle", "hlt"} => exec[c] = 0
  /\ pc[c] \in {"off", "sipi", "boot", "halt", "idle"} => rs[c] = "none"
  /\ rs[c] # "switch" => current[c] = exec[c]
  /\ rs[c] = "switch" => /\ prev[c] = exec[c] /\ current[c] = succ[c]
                         /\ succ[c] # 0 /\ succ[c] # prev[c] /\ Top = succ[c]
  /\ current[c] <= thread64_count

\* Until a stale dispatch only one CPU ever runs threads: any other that
\* reschedules finds at the head the thread that one is running.
OneRunner ==
  /\ \A c, d \in CPUs : exec[c] # 0 /\ exec[d] # 0 => c = d
  /\ \A c, d \in CPUs : rs[c] = "switch" /\ d # c /\ exec[d] # 0 => succ[c] = exec[d]
  /\ \A d \in CPUs : exec[d] # 0 /\ (\A c \in CPUs : rs[c] # "switch")
                      => Top = exec[d]
  /\ \A c \in CPUs : pc[c] = "lock" => lcpu[c] = c

ExecInv == (\A c \in CPUs : ExecAt(c)) /\ (~stale => OneRunner)

\* What the saved frames and the rings hold.
FrameInv ==
  /\ FrameOwner
  /\ \A t \in Threads :
       /\ frame[t].pc \in {"run", "lock", "post"}
       /\ frame[t].rflags => frame[t].pc = "run" /\ frame[t].irq = 0
       /\ ~stale /\ frame[t].pc = "lock" => exec[frame[t].lcpu] # 0
  /\ \A t \in 1..thread64_count : next[t] \in 1..thread64_count
  /\ \A p \in Prio : /\ ready_queue[p] <= thread64_count
                     /\ p \in ready_bitmap => ready_queue[p] # 0
  /\ ready_bitmap # {} => \E p \in ready_bitmap : \A q \in ready_bitmap : q <= p

\* The interrupt flag of a thread: on in its own code, and kept in saved_if from
\* its outermost NKern_Lock until the sti at the end of NKern_Unlock.
IfAt(c) ==
  /\ rs[c] = "none" /\ pc[c] \in {"run", "idle", "hlt"} => intr[c]
  /\ rs[c] = "none" /\ pc[c] = "lock" /\ current[c] # 0 =>
       IF preempt_disable_count[c] = 0 THEN intr[c] ELSE saved_if[c]
  /\ rs[c] = "none" /\ pc[c] \in {"spin", "crit", "unl"} /\ current[c] # 0 => saved_if[c]
  /\ pc[c] = "unl" => lcpu[c] = c
  /\ rs[c] = "none" /\ pc[c] = "post" /\ current[c] # 0 =>
       intr[c] \/ (lcpu[c] = c /\ saved_if[c])

\* A thread that has not run yet has a whole slice, and the ticks it takes in
\* its first NKern_UnlockAfterSwitch are all counted in window.
SliceInv ==
  \A t \in 1..thread64_count :
    frame[t].rflags /\ (\A c \in CPUs : exec[c] # t) => time_slice[t] = SLICE
WindowAt(c) ==
  /\ rs[c] # "dead"
  /\ ~stale /\ intr[c] /\ rs[c] # "none" =>
       exec[c] # 0 /\ time_slice[exec[c]] + window[c] = SLICE

\* The CR3 cache of a CPU is exact, and is the address space of its current.
AddrInv ==
  \A c \in CPUs : cr3[c] = loaded_cr3[c] /\ (current[c] # 0 => cr3[c] = current[c])

IInv == TypeOK /\ CtlInv /\ MutualExclusion /\ ExecInv /\ FrameInv
=============================================================================
