------------------------------- MODULE Ring3 -------------------------------
(***************************************************************************)
(* The ring 3 thread while the APs come up: enter_usermode (usermode.s),   *)
(* the interrupts that take it back into the kernel (isr.s, idt.c), and    *)
(* its moves from CPU to CPU.  An interrupt from ring 3 makes the CPU take *)
(* the stack pointer of its TSS, so that this is where the bring-up meets  *)
(* the scheduler: the thread may run on any CPU that is up, while others   *)
(* are still setting up theirs.  The scheduler runs it on one CPU at a     *)
(* time; kernel_main64 creates one such thread.                            *)
(***************************************************************************)
EXTENDS SmpBoot

VARIABLES mode,      \* of the thread: "ready", "kernel", "user", or "lost"
          cpu        \* the CPU it runs on, or NONE
r3vars == <<mode, cpu>>
ring3vars == <<vars, r3vars>>

Ring3Init == Init /\ mode = "ready" /\ cpu = NONE

\* CPUs call sched64_reschedule at the end of their own set-up.
Scheduling(c) == IF c = BSP THEN bsp = "done" ELSE ap[c] = "up"

\* context_switch64 to the thread: into its launcher, or into the handler that
\* was interrupted, on whichever CPU.
switch_to(c) ==
  /\ mode = "ready" /\ Scheduling(c)
  /\ mode' = "kernel" /\ cpu' = c
  /\ UNCHANGED vars

\* The iretq of enter_usermode or of isr_common_stub.
enter_usermode ==
  /\ mode = "kernel"
  /\ mode' = "user"
  /\ UNCHANGED <<vars, cpu>>

\* A tick, a key or int 0x80 in ring 3: without a TSS, or with a stack pointer
\* of 0 in it, the CPU cannot push the frame.
interrupt ==
  /\ mode = "user"
  /\ mode' = IF tss[cpu] # NONE /\ rsp0[tss[cpu]] THEN "kernel" ELSE "lost"
  /\ UNCHANGED <<vars, cpu>>

\* sched64_timer_tick in the handler ends the slice.
switch_away ==
  /\ mode = "kernel"
  /\ mode' = "ready" /\ cpu' = NONE
  /\ UNCHANGED vars

Ring3Next ==
  \/ Next /\ UNCHANGED r3vars
  \/ \E c \in Ids : switch_to(c)
  \/ enter_usermode \/ interrupt \/ switch_away
Ring3Spec == Ring3Init /\ [][Ring3Next]_ring3vars
\* Every CPU that runs goes on running, and the timeout is a finite loop.
Ring3FairSpec ==
  /\ Ring3Spec
  /\ WF_ring3vars(Bsp /\ UNCHANGED r3vars)
  /\ \A c \in Ids : WF_ring3vars(Ap(c) /\ UNCHANGED r3vars)
-----------------------------------------------------------------------------
\* The slot of the TSS array that c is meant to have; gdt_init takes the boot
\* processor to be CPU 0 (gdt64.c:127).
Slot(c) == IF c = BSP THEN 0 ELSE get_cpu_index(c)
Clash(c) == \E d \in (Enabled(firmware) \union {BSP}) \ {c} : Slot(d) = Slot(c)

\* An interrupt from ring 3 finds a kernel stack on whichever CPU the thread
\* has come to (gdt64.c:11-20), also while other CPUs clear and load theirs;
\* but for the CPUs past MAX_TSS_CPUS, and those that share an index.
Ring3Stack ==
  mode = "lost" => Slot(cpu) >= MAX_TSS_CPUS \/ Clash(cpu)
=============================================================================
