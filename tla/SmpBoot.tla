------------------------------ MODULE SmpBoot ------------------------------
(***************************************************************************)
(* Bringing up the application processors: smp_start_aps and ap_entry64 of *)
(* smp.c, with the trampoline (ap_trampoline.s), the CPU list found        *)
(* through ACPI and the per-CPU TSS (gdt64.c).  A CPU is named by its      *)
(* local APIC id.  The boot processor starts the APs one at a time through *)
(* one mailbox, waits for the flag ap_ready[started], and gives up after a *)
(* timeout; the AP reads the mailbox and g_ap_index_starting at its own    *)
(* pace.  Interrupts and the scheduler come after: see Sched64.            *)
(***************************************************************************)
EXTENDS Acpi, FiniteSets, Functions

CONSTANTS Firmwares,    \* those of Acpi, with bsp, the id of the boot processor
          MAX_AP_CPUS, MAX_TSS_CPUS, MAX_TRACKED_CPUS

Enabled(f) == {e.id : e \in {x \in Range(f.madt.entries) : x.type = "lapic" /\ x.enabled}}
Ids == UNION {{f.bsp} \union {e.id : e \in {x \in Range(f.madt.entries) : x.type = "lapic"}}
              : f \in Firmwares}

ASSUME SmpAssumption ==
  /\ Ids \subseteq Nat
  /\ MAX_AP_CPUS \in Nat /\ MAX_TSS_CPUS \in Nat \ {0} /\ MAX_TRACKED_CPUS \in Nat

\* The tables are lists, and a MADT lists each local APIC once.
ASSUME FirmwareAssumption ==
  \A f \in Firmwares :
    /\ f.bios \in Seq(Range(f.bios)) /\ f.ebda \in Seq(Range(f.ebda))
    /\ f.madt.entries \in Seq(Range(f.madt.entries))
    /\ \A j, k \in DOMAIN f.madt.entries :
         LET d == f.madt.entries[j]  e == f.madt.entries[k]
         IN  d.type = "lapic" /\ e.type = "lapic" /\ d.id = e.id => j = k

NONE == -1       \* no stack in the mailbox, no TSS loaded, no AP starting

VARIABLES
  firmware, dead,            \* the machine; its CPUs that never answer a SIPI
  apic_ids,                  \* the list found
  bsp, i, started,           \* smp_start_aps: its point and locals
  confirmed,                 \* the CPUs it reported as alive
  missed,                    \* the CPUs it gave up on that answer later
  mbox_stack, stacks,        \* the mailbox; stacks allocated so far
  ap_ready, g_ap_index_starting,
  ap, stack, tss,            \* of each CPU: its point, its stack, its TSS
  rsp0                       \* does each TSS have its stack

BSP == firmware.bsp
APs == Ids \ {BSP}
bspVars == <<firmware, apic_ids, dead, bsp, i, started, confirmed, missed, stacks>>
apVars == <<ap, stack, tss, rsp0>>
vars == <<bspVars, mbox_stack, ap_ready, g_ap_index_starting, apVars>>

-----------------------------------------------------------------------------
get_cpu_index(id) == IF id < MAX_TRACKED_CPUS THEN id ELSE 0

Init ==
  /\ firmware \in Firmwares
  /\ apic_ids = << >> /\ dead \in SUBSET (Enabled(firmware) \ {BSP})
  /\ bsp = "find" /\ i = 1 /\ started = 0 /\ confirmed = {} /\ missed = {}
  /\ mbox_stack = NONE /\ stacks = 0
  /\ ap_ready = [k \in 0 .. MAX_AP_CPUS - 1 |-> FALSE]
  /\ g_ap_index_starting = NONE
  /\ ap = [c \in Ids |-> "off"] /\ stack = [c \in Ids |-> NONE]
  /\ tss = [c \in Ids |-> IF c = BSP THEN 0 ELSE NONE]   \* gdt_init
  /\ rsp0 = [k \in 0 .. MAX_TSS_CPUS - 1 |-> k = 0]

find_cpus ==
  /\ bsp = "find"
  /\ apic_ids' = acpi_find_cpus(find_madt(firmware, acpi_find_rsdp_bios(firmware)),
                                MAX_AP_CPUS)
  /\ bsp' = IF Len(apic_ids') <= 1 THEN "done" ELSE "loop"
  /\ UNCHANGED <<firmware, dead, i, started, confirmed, missed, stacks, mbox_stack,
                 ap_ready, g_ap_index_starting, apVars>>

More == i <= Len(apic_ids) /\ started < MAX_AP_CPUS
finish ==
  /\ bsp = "loop" /\ ~More
  /\ bsp' = "done"
  /\ UNCHANGED <<firmware, apic_ids, dead, i, started, confirmed, missed, stacks, mbox_stack,
                 ap_ready, g_ap_index_starting, apVars>>

skip_self ==
  /\ bsp = "loop" /\ More /\ apic_ids[i] = BSP
  /\ i' = i + 1
  /\ UNCHANGED <<firmware, apic_ids, dead, bsp, started, confirmed, missed, stacks, mbox_stack,
                 ap_ready, g_ap_index_starting, apVars>>

\* The blob is copied over the trampoline page, mailbox included.
copy_trampoline ==
  /\ bsp = "loop" /\ More /\ apic_ids[i] # BSP
  /\ mbox_stack' = NONE
  /\ bsp' = "fill"
  /\ UNCHANGED <<firmware, apic_ids, dead, i, started, confirmed, missed, stacks, ap_ready,
                 g_ap_index_starting, apVars>>

\* kmalloc of a stack, the mailbox words, the flag and the index.
Mut_new_stack == stacks
new_stack == stacks + 1
fill_mailbox ==
  /\ bsp = "fill"
  /\ stacks' = new_stack /\ mbox_stack' = stacks'
  /\ ap_ready' = [ap_ready EXCEPT ![started] = FALSE]
  /\ g_ap_index_starting' = started
  /\ bsp' = "sipi"
  /\ UNCHANGED <<firmware, apic_ids, dead, i, started, confirmed, missed, apVars>>

send_init_sipi_sipi ==
  /\ bsp = "sipi"
  /\ ap' = [ap EXCEPT ![apic_ids[i]] = "sipi"]
  /\ bsp' = "wait"
  /\ UNCHANGED <<firmware, apic_ids, dead, i, started, confirmed, missed, stacks, mbox_stack,
                 ap_ready, g_ap_index_starting, stack, tss, rsp0>>

confirm ==
  /\ bsp = "wait" /\ ap_ready[started]
  /\ confirmed' = confirmed \union {apic_ids[i]}
  /\ started' = started + 1
  /\ i' = i + 1 /\ bsp' = "loop"
  /\ UNCHANGED <<firmware, apic_ids, dead, missed, stacks, mbox_stack, ap_ready,
                 g_ap_index_starting, apVars>>

\* The timeout, which an AP may miss and still come up.
Mut_give_up_never == FALSE /\ UNCHANGED vars
give_up ==
  /\ bsp = "wait" /\ ~ap_ready[started]
  /\ missed' = missed \union ({apic_ids[i]} \ dead)
  /\ i' = i + 1 /\ bsp' = "loop"
  /\ UNCHANGED <<firmware, apic_ids, dead, started, confirmed, stacks, mbox_stack,
                 ap_ready, g_ap_index_starting, apVars>>
-----------------------------------------------------------------------------
\* The trampoline: mode switches, then the stack and entry of the mailbox.
ap_trampoline(c) ==
  /\ ap[c] = "sipi" /\ c \notin dead
  /\ stack' = [stack EXCEPT ![c] = mbox_stack]
  /\ ap' = [ap EXCEPT ![c] = IF mbox_stack = NONE THEN "crash" ELSE "entry"]
  /\ UNCHANGED <<bspVars, mbox_stack, ap_ready, g_ap_index_starting, tss, rsp0>>

\* ap_entry64: FPU, IDT, then gdt_setup_cpu_tss, which clears the TSS,
Mut_slot(c) == MAX_TSS_CPUS
slot(c) == get_cpu_index(c)
ap_entry64_clear_tss(c) ==
  /\ ap[c] = "entry"
  /\ rsp0' = IF slot(c) < MAX_TSS_CPUS THEN [rsp0 EXCEPT ![slot(c)] = FALSE] ELSE rsp0
  /\ ap' = [ap EXCEPT ![c] = "tss"]
  /\ UNCHANGED <<bspVars, mbox_stack, ap_ready, g_ap_index_starting, stack, tss>>

\* sets its stack and loads it, then the local APIC.
ap_entry64_load_tss(c) ==
  /\ ap[c] = "tss"
  /\ IF slot(c) < MAX_TSS_CPUS
       THEN rsp0' = [rsp0 EXCEPT ![slot(c)] = TRUE] /\ tss' = [tss EXCEPT ![c] = slot(c)]
       ELSE UNCHANGED <<rsp0, tss>>
  /\ ap' = [ap EXCEPT ![c] = "timer"]
  /\ UNCHANGED <<bspVars, mbox_stack, ap_ready, g_ap_index_starting, stack>>

ap_entry64_ready(c) ==
  /\ ap[c] = "timer"
  /\ ap_ready' = IF g_ap_index_starting >= 0
                   THEN [ap_ready EXCEPT ![g_ap_index_starting] = TRUE] ELSE ap_ready
  /\ ap' = [ap EXCEPT ![c] = "up"]
  /\ UNCHANGED <<bspVars, mbox_stack, g_ap_index_starting, stack, tss, rsp0>>

Bsp == \/ find_cpus \/ finish \/ skip_self \/ copy_trampoline \/ fill_mailbox
       \/ send_init_sipi_sipi \/ confirm \/ give_up
Ap(c) == \/ ap_trampoline(c) \/ ap_entry64_clear_tss(c) \/ ap_entry64_load_tss(c)
         \/ ap_entry64_ready(c)
Next == Bsp \/ \E c \in Ids : Ap(c)
Spec == Init /\ [][Next]_vars
-----------------------------------------------------------------------------
OnStack == {c \in APs : ap[c] \in {"entry", "tss", "timer", "up"}}

\* As long as no AP has missed its timeout, each runs on a stack of its own: it
\* has read the mailbox before the boot processor fills it for the next one.
OwnStack ==
  missed = {} =>
    \A c, d \in OnStack : stack[c] # NONE /\ (c # d => stack[c] # stack[d])

\* smp_start_aps reports an AP as confirmed alive only when that very AP has
\* finished its own set-up (smp.c:206-207).
ConfirmedAlive == \A c \in confirmed : ap[c] = "up"

\* The MADT can be found: an RSDP with a right checksum is in one of the two
\* areas, and the root table it prefers lists the MADT.
Rsdps == {s \in Range(firmware.bios) \union
                (IF firmware.ebda_seg # 0 THEN Range(firmware.ebda) ELSE {}) : s.sig /\ s.sum}
MadtFound ==
  /\ Rsdps # {}
  /\ \A s \in Rsdps :
       "APIC" \in Range(IF s.revision >= 2 /\ s.xsdt_address # 0 THEN s.xsdt ELSE s.rsdt)

\* What smp_start_aps returns is the number of APs really started (smp.c:126),
\* only enabled CPUs are ever started, and all of them are that answer, if the
\* MADT can be found and the list has room, unless some AP answered only after
\* its timeout.
CountExact ==
  LET up == {c \in APs : ap[c] = "up"}
  IN  /\ up \subseteq Enabled(firmware)
      /\ bsp = "done" /\ missed = {} => started = Cardinality(up)
      /\ bsp = "done" /\ missed = {} /\ MadtFound
           /\ Cardinality(Enabled(firmware)) \in 2 .. MAX_AP_CPUS
         => Enabled(firmware) \ (dead \union {BSP}) \subseteq up

\* The boot goes on even when APs never answer (smp.c:200-202).
BringUpEnds == <>(bsp = "done")
=============================================================================
