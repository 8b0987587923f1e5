----------------------------- MODULE NKernLock -----------------------------
(***************************************************************************)
(* The big kernel lock of nkern_lock.c: one spinlock shared by all CPUs, a *)
(* per-CPU nesting counter, a per-CPU "reschedule wanted" flag and the     *)
(* interrupt flag saved by the outermost NKern_Lock.                       *)
(*                                                                         *)
(* The module also holds the control state of a CPU, because the lock is   *)
(* taken and released piecemeal by code that interrupts can split:         *)
(*   pc[c]   where the code on c is, or where it resumes once the timer    *)
(*           handlers and the reschedule above it have returned;           *)
(*   rs[c]   where a call of sched64_reschedule on c is, "none" if none;   *)
(*   irq[c]  the number of timer handlers on the stack c runs on;          *)
(*   lcpu[c] the local variable c of NKern_Lock / NKern_Unlock: it is read *)
(*           once, in NKern_Lock before interrupts are masked.             *)
(*                                                                         *)
(* pc values: "off" (AP not started), "sipi" (AP told to start), "boot"    *)
(* (kernel_main64 up to its sti, interrupts masked), "halt" (neka_panic),  *)
(* "idle" and "hlt" (the loop { sched64_reschedule(); hlt; }), "run"       *)
(* (thread code), and the points of the lock: "lock" (c was read), "spin", *)
(* "crit" (in the critical section), "unl" (count back to 0, lock not yet  *)
(* released), "pend" (about to run a deferred reschedule), "post" (IF not  *)
(* yet restored).                                                          *)
(* rs values: "spin", "pick", "switch" (context_switch64 is next), "dec"   *)
(* and "rel" (NKern_UnlockAfterSwitch before and after its decrement) and  *)
(* "dead" (spinning on a lock held by the code this handler interrupted).  *)
(***************************************************************************)
EXTENDS Naturals

CONSTANTS CPUs,      \* the processors; get_cpu_index is the identity on them
          BSP,       \* the one that runs kernel_main64
          MAX_LOCK   \* bound on the nesting of NKern_Lock

ASSUME CpuAssumption == BSP \in CPUs /\ MAX_LOCK \in Nat \ {0}

VARIABLES
  preempt_disable_count, reschedule_pending, saved_if, big_kernel_lock,
  intr,                  \* RFLAGS.IF of each CPU: interrupts are taken
  pc, rs, irq, lcpu

lockVars == <<preempt_disable_count, reschedule_pending, saved_if,
              big_kernel_lock>>
ctlVars == <<intr, pc, rs, irq, lcpu>>

PC == {"off", "sipi", "boot", "halt", "idle", "hlt", "run",
       "lock", "spin", "crit", "unl", "pend", "post"}
RS == {"none", "spin", "pick", "switch", "dec", "rel", "dead"}

LockTypeOK ==
  /\ preempt_disable_count \in [CPUs -> Nat]
  /\ reschedule_pending \in [CPUs -> BOOLEAN]
  /\ saved_if \in [CPUs -> BOOLEAN]
  /\ big_kernel_lock \in {0, 1}
  /\ intr \in [CPUs -> BOOLEAN]
  /\ pc \in [CPUs -> PC]
  /\ rs \in [CPUs -> RS]
  /\ irq \in [CPUs -> Nat]
  /\ lcpu \in [CPUs -> CPUs]

LockInit ==
  /\ preempt_disable_count = [c \in CPUs |-> 0]
  /\ reschedule_pending = [c \in CPUs |-> FALSE]
  /\ saved_if = [c \in CPUs |-> FALSE]
  /\ big_kernel_lock = 0
  /\ intr = [c \in CPUs |-> FALSE]
  /\ pc = [c \in CPUs |-> IF c = BSP THEN "boot" ELSE "off"]
  /\ rs = [c \in CPUs |-> "none"]
  /\ irq = [c \in CPUs |-> 0]
  /\ lcpu = [c \in CPUs |-> c]

\* c runs straight-line code at point p: no handler or reschedule above it.
At(c, p) == pc[c] = p /\ rs[c] = "none" /\ irq[c] = 0

Goto(c, p) == pc' = [pc EXCEPT ![c] = p]
-----------------------------------------------------------------------------
(* NKern_Lock, called with home \in {"boot", "run", "crit"}.  First step:  *)
(* c = cpu_idx(), interrupts still as the caller has them.                 *)
NKern_Lock_read(c) ==
  /\ \E home \in {"boot", "run", "crit"} : At(c, home)
  /\ preempt_disable_count[c] < MAX_LOCK
  /\ lcpu' = [lcpu EXCEPT ![c] = c]
  /\ Goto(c, "lock")
  /\ UNCHANGED <<lockVars, intr, rs, irq>>

\* pushfq; cli; then the counters, indexed by the c read before.
NKern_Lock_count(c) ==
  LET i == lcpu[c] IN
  /\ At(c, "lock")
  /\ saved_if' = IF preempt_disable_count[i] = 0
                   THEN [saved_if EXCEPT ![i] = intr[c]] ELSE saved_if
  /\ intr' = [intr EXCEPT ![c] = FALSE]
  /\ preempt_disable_count' = [preempt_disable_count EXCEPT ![i] = @ + 1]
  /\ Goto(c, IF preempt_disable_count[i] = 0 THEN "spin" ELSE "crit")
  /\ UNCHANGED <<reschedule_pending, big_kernel_lock, rs, irq, lcpu>>

Mut_NKern_Lock_acquire(c) ==
  /\ At(c, "spin")
  /\ big_kernel_lock' = 1
  /\ Goto(c, "crit")
  /\ UNCHANGED <<preempt_disable_count, reschedule_pending, saved_if,
                 intr, rs, irq, lcpu>>
NKern_Lock_acquire(c) ==
  /\ At(c, "spin")
  /\ big_kernel_lock = 0
  /\ big_kernel_lock' = 1
  /\ Goto(c, "crit")
  /\ UNCHANGED <<preempt_disable_count, reschedule_pending, saved_if,
                 intr, rs, irq, lcpu>>

\* if (count > 0) count--
decremented(n) == IF n > 0 THEN n - 1 ELSE n

(* NKern_Unlock.  c is read again, now with interrupts masked, and the     *)
(* count drops; only the outermost call goes on to release.                *)
Mut_NKern_Unlock_count(c) ==
  /\ At(c, "crit")
  /\ lcpu' = [lcpu EXCEPT ![c] = c]
  /\ preempt_disable_count' =
       [preempt_disable_count EXCEPT ![c] = IF @ > 1 THEN @ - 1 ELSE @]
  /\ Goto(c, IF preempt_disable_count'[c] = 0 THEN "unl" ELSE "crit")
  /\ UNCHANGED <<reschedule_pending, saved_if, big_kernel_lock,
                 intr, rs, irq>>
NKern_Unlock_count(c) ==
  /\ At(c, "crit")
  /\ lcpu' = [lcpu EXCEPT ![c] = c]
  /\ preempt_disable_count' = [preempt_disable_count EXCEPT ![c] = decremented(@)]
  /\ Goto(c, IF preempt_disable_count'[c] = 0 THEN "unl" ELSE "crit")
  /\ UNCHANGED <<reschedule_pending, saved_if, big_kernel_lock,
                 intr, rs, irq>>

\* spin_release, then the test of reschedule_pending.
NKern_Unlock_release(c) ==
  /\ At(c, "unl")
  /\ big_kernel_lock' = 0
  /\ Goto(c, IF reschedule_pending[c] THEN "pend" ELSE "post")
  /\ UNCHANGED <<preempt_disable_count, reschedule_pending, saved_if,
                 intr, rs, irq, lcpu>>

\* if (saved_if[c]) sti; then return to thread code, or to the boot code.
NKern_Unlock_sti(c, home) ==
  /\ At(c, "post")
  /\ intr' = [intr EXCEPT ![c] = @ \/ saved_if[lcpu[c]]]
  /\ Goto(c, home)
  /\ UNCHANGED <<lockVars, rs, irq, lcpu>>
-----------------------------------------------------------------------------
(* NKern_LockForSwitch: cli, count, and spin for the lock if it was the    *)
(* first to count.  deep is the number of handlers the call runs under.    *)
NKern_LockForSwitch(c, deep) ==
  /\ intr' = [intr EXCEPT ![c] = FALSE]
  /\ preempt_disable_count' = [preempt_disable_count EXCEPT ![c] = @ + 1]
  /\ irq' = [irq EXCEPT ![c] = deep]
  /\ rs' = [rs EXCEPT ![c] = IF preempt_disable_count[c] > 0 THEN "pick"
                              ELSE IF @ = "rel" THEN "dead" ELSE "spin"]
  /\ UNCHANGED <<saved_if, big_kernel_lock, lcpu>>

\* The deferred reschedule of NKern_Unlock, from the thread's own code.
NKern_Unlock_reschedule(c) ==
  /\ At(c, "pend")
  /\ reschedule_pending' = [reschedule_pending EXCEPT ![c] = FALSE]
  /\ NKern_LockForSwitch(c, 0)
  /\ Goto(c, "post")

Mut_NKern_LockForSwitch_acquire(c) ==
  /\ rs[c] = "spin"
  /\ big_kernel_lock' = 1
  /\ rs' = [rs EXCEPT ![c] = "pick"]
  /\ UNCHANGED <<preempt_disable_count, reschedule_pending, saved_if,
                 intr, pc, irq, lcpu>>
NKern_LockForSwitch_acquire(c) ==
  /\ rs[c] = "spin"
  /\ big_kernel_lock = 0
  /\ big_kernel_lock' = 1
  /\ rs' = [rs EXCEPT ![c] = "pick"]
  /\ UNCHANGED <<preempt_disable_count, reschedule_pending, saved_if,
                 intr, pc, irq, lcpu>>

(* NKern_UnlockAfterSwitch, the last call of sched64_reschedule and the    *)
(* first of thread_start64.  A new thread runs it with interrupts on.      *)
Mut_NKern_UnlockAfterSwitch_count(c) ==
  /\ rs[c] = "dec"
  /\ rs' = [rs EXCEPT ![c] = "rel"]
  /\ UNCHANGED <<lockVars, intr, pc, irq, lcpu>>
NKern_UnlockAfterSwitch_count(c) ==
  /\ rs[c] = "dec"
  /\ preempt_disable_count' = [preempt_disable_count EXCEPT ![c] = decremented(@)]
  /\ rs' = [rs EXCEPT ![c] = IF preempt_disable_count'[c] = 0
                              THEN "rel" ELSE "none"]
  /\ UNCHANGED <<reschedule_pending, saved_if, big_kernel_lock,
                 intr, pc, irq, lcpu>>

\* spin_release and the unconditional sti.
Mut_NKern_UnlockAfterSwitch_release(c) ==
  /\ rs[c] = "rel"
  /\ big_kernel_lock' = 0
  /\ rs' = [rs EXCEPT ![c] = "none"]
  /\ UNCHANGED <<preempt_disable_count, reschedule_pending, saved_if,
                 intr, pc, irq, lcpu>>
NKern_UnlockAfterSwitch_release(c) ==
  /\ rs[c] = "rel"
  /\ big_kernel_lock' = 0
  /\ intr' = [intr EXCEPT ![c] = TRUE]
  /\ rs' = [rs EXCEPT ![c] = "none"]
  /\ UNCHANGED <<preempt_disable_count, reschedule_pending, saved_if,
                 pc, irq, lcpu>>
-----------------------------------------------------------------------------
\* The points at which the code on c owns big_kernel_lock.
Holds(c) ==
  \/ rs[c] \in {"pick", "switch", "dec", "rel", "dead"}
  \/ /\ rs[c] = "none"
     /\ \/ pc[c] \in {"crit", "unl"}
        \/ pc[c] = "lock" /\ preempt_disable_count[c] > 0
=============================================================================
