------------------------------- MODULE Paging -------------------------------
(***************************************************************************)
(* Page tables (paging64.c) and the calls of kernel_main64 that build and  *)
(* use them, from paging_init_kernel_map to the running threads.  It is    *)
(* the client of the frame allocator: every table is a frame that          *)
(* FrameAlloc handed out, and the boot calls come in the order of the      *)
(* code.  A table is the function of its present entries; an entry is      *)
(* [to, flags].  The number ENTRIES of entries in a table scales the       *)
(* address space: PT, PD and PDPT indices are computed as in the code.     *)
(***************************************************************************)
EXTENDS FrameAlloc, Acpi, Functions

CONSTANTS ENTRIES,          \* entries of a table (512)
          THREADS,          \* threads created before the ring 3 launcher (3)
          MAX_AP_CPUS,
          Firmwares         \* the ACPI tables considered

LARGE == PAGE * ENTRIES     \* 2 MB
GB == LARGE * ENTRIES
DEMO_VA == GB
USER_CODE_VA == GB + GB \div 4
USER_STACK_PAGE_VA == USER_CODE_VA + PAGE

ASSUME PagingAssumption ==
  /\ ENTRIES \in Nat /\ ENTRIES % 4 = 0 /\ ENTRIES > 3 /\ MAPPED = GB
  /\ THREADS \in Nat /\ MAX_AP_CPUS \in Nat

\* What the tables say of the devices: addresses, none of them in the second GB,
\* which the PC leaves to memory and this kernel to private pages.
Device(pa) == pa \in Nat /\ (pa \div GB) % ENTRIES # 1
ASSUME DeviceAssumption ==
  /\ Device(LAPIC_DEFAULT) /\ Device(IOAPIC_DEFAULT)
  /\ \A f \in Firmwares :
       LET bases == apic_apply_acpi_bases(find_madt(f, acpi_find_rsdp_bios(f)))
       IN  f.at \in Nat /\ Device(bases.lapic) /\ Device(bases.ioapic)

VARIABLES acpi, pc, got,            \* the tables; the boot call running, its frames
          mem,                      \* the page tables
          kernel_pml4, kernel_pdpt,
          apic,                     \* lapic_base_pa and ioapic_base_pa
          spaces,                   \* the address spaces created
          enabled,                  \* how many APs have enabled their local APIC
          fault                     \* the kind of address that was not mapped

tableVars == <<mem, kernel_pml4, kernel_pdpt>>
bootVars == <<acpi, pc, apic, spaces, enabled, fault>>
pagingVars == <<bootVars, tableVars, got>>
allVars == <<vars, pagingVars>>
-----------------------------------------------------------------------------
pdpt_idx(va) == (va \div GB) % ENTRIES
pd_idx(va) == (va \div LARGE) % ENTRIES
pt_idx(va) == (va \div PAGE) % ENTRIES

link(f, flags) == [to |-> f, flags |-> flags]      \* every entry is present
\* The table with the one entry e at i, and table g with those of f set in it.
i :> e == [x \in {i} |-> e]
f @@ g == [x \in DOMAIN f \union DOMAIN g |-> IF x \in DOMAIN f THEN f[x] ELSE g[x]]
KERNEL == {"W"}
USER == {"W", "U"}
\* The table t of m with entry i set.
put(m, t, i, e) == (t :> ((i :> e) @@ m[t])) @@ m
zeroed(fs) == [f \in fs |-> << >>]

\* The page walk of the processor: the physical address and whether ring 3 may
\* use it.  In a large page, address bits below its size other than the lowest
\* one (PAT) are reserved and fault.
ABSENT == [to |-> -1, flags |-> {}]
Walk(m, cr3, va) ==
  LET at(t, i) == IF t \in DOMAIN m /\ i \in DOMAIN m[t] THEN m[t][i] ELSE ABSENT
      e4 == at(cr3, 0)
      e3 == at(e4.to, pdpt_idx(va))
      e2 == at(e3.to, pd_idx(va))
      e1 == IF "PS" \in e2.flags THEN e2 ELSE at(e2.to, pt_idx(va))
  IN  [to |-> IF e1 = ABSENT \/ ("PS" \in e2.flags /\ e2.to % LARGE \notin {0, PAGE})
                THEN -1
              ELSE IF "PS" \in e2.flags THEN (e2.to - (e2.to % LARGE)) + (va % LARGE)
              ELSE e1.to + (va % PAGE),
       user |-> \A e \in {e1, e2, e3, e4} : "U" \in e.flags]
Mapped(m, cr3, va) == Walk(m, cr3, va).to # -1
-----------------------------------------------------------------------------
\* kernel_main64, as far as it concerns memory.
Devices == <<"lapic_enable", "ioapic_write", "apic_timer_init">>
Memory == <<"memmap_parse", "memmap_activate">>
Threads == [k \in 1 .. THREADS + 1 |-> "create_address_space"]
Mut_Boot_devices_last ==
  <<"paging_init_kernel_map", "acpi">> \o Memory \o Threads \o Devices
  \o <<"create_user_process", "smp_start_aps">>
Mut_Boot_smp_first ==
  <<"paging_init_kernel_map", "acpi">> \o Devices \o Memory \o Threads
  \o <<"smp_start_aps", "create_user_process">>
Boot ==
  <<"paging_init_kernel_map", "acpi">> \o Devices \o Memory \o Threads
  \o <<"create_user_process", "smp_start_aps">>

Alive == halted = "no" /\ fault = "none"
Booted == pc > Len(Boot)
At(call) == Alive /\ ~Booted /\ Boot[pc] = call /\ (fw.boot = "uefi" => parsed)
madt == find_madt(acpi, acpi_find_rsdp_bios(acpi))

PagingInit ==
  /\ Init
  /\ acpi \in Firmwares /\ pc = 1 /\ got = << >>
  /\ mem = << >> /\ kernel_pml4 = -1 /\ kernel_pdpt = -1
  /\ apic = [lapic |-> LAPIC_DEFAULT, ioapic |-> IOAPIC_DEFAULT]
  /\ spaces = {} /\ enabled = 0 /\ fault = "none"

\* The frames a call still has to get before it writes any table.
mmio_frames(pa) == IF pdpt_idx(pa) \in DOMAIN mem[kernel_pdpt] THEN 0 ELSE 1
frames_needed ==
  CASE Boot[pc] = "paging_init_kernel_map" -> 3
    [] Boot[pc] = "lapic_enable" -> mmio_frames(apic.lapic)
    [] Boot[pc] = "ioapic_write" -> mmio_frames(apic.ioapic)
    [] Boot[pc] = "create_address_space" -> 5
    [] Boot[pc] = "create_user_process" ->
         5 + mmio_frames(USER_CODE_VA)
    [] OTHER -> 0

alloc_frame ==
  /\ Alive /\ ~Booted /\ Len(got) < frames_needed
  /\ \/ alloc_frame_pool
        /\ got' = IF halted' = "no" THEN Append(got, pool_frame(next_frame)) ELSE got
     \/ take_frame /\ got' = Append(got, addr)
     \/ (alloc_frame_map \/ next_region \/ skip_low \/ skip_image \/ out_of_frames)
        /\ UNCHANGED got
  /\ UNCHANGED <<bootVars, tableVars>>

\* A call that has its frames, and goes on to the next one.
Call(name) ==
  /\ At(name) /\ Len(got) = frames_needed
  /\ got' = << >> /\ pc' = pc + 1

init_map(pml4, pdpt, pd) ==
  [f \in {pml4, pdpt, pd} |->
     IF f = pml4 THEN 0 :> link(pdpt, KERNEL)
     ELSE IF f = pdpt THEN 0 :> link(pd, KERNEL)
     ELSE [i \in 0 .. ENTRIES - 1 |-> link(i * LARGE, KERNEL \union {"PS"})]]
paging_init_kernel_map ==
  /\ Call("paging_init_kernel_map")
  /\ kernel_pml4' = got[1] /\ kernel_pdpt' = got[2]
  /\ mem' = init_map(got[1], got[2], got[3])
  /\ UNCHANGED <<vars, acpi, apic, spaces, enabled, fault>>

\* acpi_find_rsdp_bios reads low memory; apic_apply_acpi_bases reads the tables
\* the RSDP points to.
read_acpi ==
  /\ Call("acpi")
  /\ IF acpi_find_rsdp_bios(acpi) # NULL /\ ~Mapped(mem, kernel_pml4, acpi.at)
       THEN fault' = "tables" /\ UNCHANGED apic
       ELSE apic' = apic_apply_acpi_bases(madt) /\ UNCHANGED fault
  /\ UNCHANGED <<vars, acpi, tableVars, spaces, enabled>>

\* An access to a device register through the address space cr3.
touch(m, cr3, pa) == fault' = IF Mapped(m, cr3, pa) THEN fault ELSE "device"

paging_map_mmio_2mb(pa) ==
  LET i == pdpt_idx(pa)
      m == IF i \in DOMAIN mem[kernel_pdpt] THEN mem
           ELSE put(zeroed({got[1]}) @@ mem, kernel_pdpt, i, link(got[1], KERNEL))
  IN  put(m, m[kernel_pdpt][i].to, pd_idx(pa), link(pa, KERNEL \union {"PS", "PCD"}))

lapic_enable ==
  /\ Call("lapic_enable")
  /\ mem' = paging_map_mmio_2mb(apic.lapic)
  /\ touch(mem', kernel_pml4, apic.lapic)
  /\ UNCHANGED <<vars, acpi, kernel_pml4, kernel_pdpt, apic, spaces, enabled>>

\* ioapic_set_redirect: two writes, the second of which maps the page again.
ioapic_write ==
  /\ Call("ioapic_write")
  /\ mem' = paging_map_mmio_2mb(apic.ioapic)
  /\ touch(mem', kernel_pml4, apic.ioapic)
  /\ UNCHANGED <<vars, acpi, kernel_pml4, kernel_pdpt, apic, spaces, enabled>>

apic_timer_init ==
  /\ Call("apic_timer_init")
  /\ touch(mem, kernel_pml4, apic.lapic)
  /\ UNCHANGED <<vars, acpi, tableVars, apic, spaces, enabled>>

\* With mbi_addr = 0, under UEFI, memmap_parse_multiboot returns at once.
parse_map ==
  /\ \/ Call("memmap_parse") /\ fw.boot = "uefi" /\ UNCHANGED vars
     \/ Call("memmap_parse") /\ memmap_parse_multiboot /\ parsed'
     \/ At("memmap_parse") /\ memmap_parse_multiboot /\ ~parsed' /\ UNCHANGED <<pc, got>>
  /\ UNCHANGED <<acpi, tableVars, apic, spaces, enabled, fault>>

activate_map ==
  /\ Call("memmap_activate")
  /\ memmap_activate
  /\ UNCHANGED <<acpi, tableVars, apic, spaces, enabled, fault>>

Mut_inherit_kernel_pdpt == 0 :> mem[kernel_pdpt][0]
inherit_kernel_pdpt == mem[kernel_pdpt]

\* sched64_create_thread; the frames are pml4, pdpt, pd, pt and the page.
create_address_space ==
  /\ Call("create_address_space")
  /\ mem' = (got[1] :> (0 :> link(got[2], KERNEL)))
         @@ (got[2] :> ((1 :> link(got[3], KERNEL)) @@ inherit_kernel_pdpt))
         @@ (got[3] :> (0 :> link(got[4], KERNEL)))
         @@ (got[4] :> (0 :> link(got[5], KERNEL)))
         @@ mem
  /\ spaces' = spaces \union {[cr3 |-> got[1], ring3 |-> FALSE]}
  /\ UNCHANGED <<vars, acpi, kernel_pml4, kernel_pdpt, apic, enabled, fault>>

\* s holds the tables and the frames not used yet.
get_or_create_next_level(s, t, i) ==
  IF i \in DOMAIN s.mem[t] THEN s
  ELSE [mem |-> put(zeroed({Head(s.left)}) @@ s.mem, t, i, link(Head(s.left), USER)),
        left |-> Tail(s.left)]
map_user_page(s, pml4, va, f) ==
  LET pdpt == s.mem[pml4][0].to
      s2 == get_or_create_next_level(s, pdpt, pdpt_idx(va))
      pd == s2.mem[pdpt][pdpt_idx(va)].to
      s3 == get_or_create_next_level(s2, pd, pd_idx(va))
  IN  [s3 EXCEPT !.mem = put(@, s3.mem[pd][pd_idx(va)].to, pt_idx(va), link(f, USER))]

Mut_PML4_FLAGS == KERNEL
PML4_FLAGS == USER
create_user_process ==
  /\ Call("create_user_process")
  /\ LET s == [mem |-> (got[1] :> (0 :> link(got[2], PML4_FLAGS)))
                    @@ (got[2] :> inherit_kernel_pdpt) @@ mem,
               left |-> SubSeq(got, 5, Len(got))]
         code == map_user_page(s, got[1], USER_CODE_VA, got[3])
     IN  mem' = map_user_page(code, got[1], USER_STACK_PAGE_VA, got[4]).mem
  /\ spaces' = spaces \union {[cr3 |-> got[1], ring3 |-> TRUE]}
  /\ UNCHANGED <<vars, acpi, kernel_pml4, kernel_pdpt, apic, enabled, fault>>

\* Only smp.c has the address of the local APIC hard-coded (smp.c:30).
cpus == acpi_find_cpus(madt, MAX_AP_CPUS)
smp_start_aps ==
  /\ Call("smp_start_aps")
  /\ IF Len(cpus) > 1 THEN touch(mem, kernel_pml4, LAPIC_DEFAULT) ELSE UNCHANGED fault
  /\ UNCHANGED <<vars, acpi, tableVars, apic, spaces, enabled>>

\* ap_entry64: get_cpu_index reads the local APIC, lapic_enable maps it again.
ApsStarted == \E k \in 1 .. pc - 1 : Boot[k] = "smp_start_aps"
ap_entry64 ==
  /\ Alive /\ ApsStarted /\ enabled < Len(cpus) - 1
  /\ touch(mem, kernel_pml4, apic.lapic)
  /\ mem' = IF Mapped(mem, kernel_pml4, apic.lapic)
              THEN paging_map_mmio_2mb(apic.lapic) ELSE mem
  /\ enabled' = enabled + 1
  /\ UNCHANGED <<vars, acpi, pc, got, kernel_pml4, kernel_pdpt, apic, spaces>>

\* Every interrupt ends with lapic_send_eoi, in the address space of the thread
\* it interrupted.
lapic_send_eoi ==
  /\ Alive /\ Booted
  /\ \E s \in spaces : touch(mem, s.cr3, apic.lapic)
  /\ UNCHANGED <<vars, acpi, pc, got, tableVars, apic, spaces, enabled>>

uefi_main == Alive /\ memmap_parse_uefi /\ UNCHANGED pagingVars

PagingNext ==
  \/ uefi_main \/ alloc_frame
  \/ paging_init_kernel_map \/ read_acpi \/ lapic_enable \/ ioapic_write
  \/ apic_timer_init \/ parse_map \/ activate_map \/ create_address_space
  \/ create_user_process \/ smp_start_aps \/ ap_entry64 \/ lapic_send_eoi
PagingSpec == PagingInit /\ [][PagingNext]_allVars
\* The boot is straight-line code on one CPU, with interrupts off; so is the
\* search, with no waiting in it.
PagingFairSpec == PagingSpec /\ WF_allVars(alloc_frame)
-----------------------------------------------------------------------------
\* Pages of every kind: the large ones, and the private ones below 2 GB.
Pages == {i * LARGE : i \in 0 .. 4 * ENTRIES - 1}
         \union {GB + i * PAGE : i \in 0 .. ENTRIES * ENTRIES - 1}

\* Every address space has at every moment every translation of the kernel: the
\* identity map and the devices, but for the GB of private pages.  An address
\* space copies the PDPT when it is made and never looks again
\* (paging64.c:181-192).
KernelVisible ==
  \A s \in spaces : \A va \in {p \in Pages : p \div GB # 1} :
    Walk(mem, kernel_pml4, va).to # -1 =>
      Walk(mem, s.cr3, va) = [Walk(mem, kernel_pml4, va) EXCEPT !.user = FALSE]

\* Ring 3 reaches its code page and its stack page and nothing else, and only
\* in its own address space: the user bits of the upper levels, which it
\* shares with the kernel, open nothing (paging64.c:203-210).
UserReach ==
  \A s \in spaces :
    {va \in Pages : Walk(mem, s.cr3, va).to # -1 /\ Walk(mem, s.cr3, va).user} =
      IF s.ring3 THEN {USER_CODE_VA, USER_STACK_PAGE_VA} ELSE {}

\* A frame has one use: it is the top of one address space, or one entry points
\* to it, except that address spaces share the tables below the kernel PDPT,
\* each at the same index; and alloc_frame never returns a frame that has one.
OneUse ==
  LET refs == UNION {{<<t, i>> : i \in {j \in DOMAIN mem[t] : "PS" \notin mem[t][j].flags}}
                     : t \in DOMAIN mem}
      to(r) == mem[r[1]][r[2]].to
      tops == {s.cr3 : s \in spaces} \union {kernel_pml4}
      used == tops \union {to(r) : r \in refs}
  IN  /\ \A r, q \in refs : r # q /\ to(r) = to(q) =>
           /\ r[2] = q[2] /\ r[2] \in DOMAIN mem[kernel_pdpt]
           /\ mem[kernel_pdpt][r[2]] = mem[r[1]][r[2]]
      /\ \A r \in refs : to(r) \notin tops
      /\ \A s, u \in spaces : s # u => s.cr3 # u.cr3
      /\ \A s \in spaces : s.cr3 # kernel_pml4
      /\ IsInjective(got) /\ \A k \in DOMAIN got : got[k] \notin used

\* The boot touches only what is mapped, and so does every interrupt in every
\* address space.  What can fault: ACPI tables above the identity map, a device
\* that is not at the start of its large page, and the interrupt command
\* register of a local APIC that is not at its default address (smp.c:30).
MappedBeforeUse ==
  /\ fault = "tables" => acpi.at >= MAPPED
  /\ fault = "device" => \/ apic.lapic # LAPIC_DEFAULT
                         \/ apic.lapic % LARGE # 0 \/ apic.ioapic % LARGE # 0

\* Once a second CPU runs, no frame is handed out and no table changes, though
\* neither alloc_frame nor paging_map_mmio_2mb takes a lock (paging64.c:42-46).
OnlyBspAllocates ==
  [][enabled > 0 => UNCHANGED <<next_frame, handed, search, mem>>]_allVars
-----------------------------------------------------------------------------
(* The inductive invariant behind these: what the page tables m look like. *)
Tables(m, k3) == {m[k3][i].to : i \in DOMAIN m[k3]}
KernelFrames(m, k4, k3) == {k4, k3} \union Tables(m, k3)

LargePages(t) ==
  /\ t = [j \in DOMAIN t |-> t[j]]
  /\ \A j \in DOMAIN t : t[j].to \in Nat /\ "PS" \in t[j].flags /\ "U" \notin t[j].flags

\* One PML4, one PDPT without an entry for the private GB, and a table of large
\* pages for each of its entries.
KernelTables(m, k4, k3) ==
  /\ KernelFrames(m, k4, k3) \subseteq DOMAIN m /\ k4 # k3
  /\ m[k4] = (0 :> link(k3, KERNEL))
  /\ 0 \in DOMAIN m[k3] /\ DOMAIN m[k3] \subseteq (0 .. ENTRIES - 1) \ {1}
  /\ m[k3] = [i \in DOMAIN m[k3] |-> link(m[k3][i].to, KERNEL)]
  /\ \A i, j \in DOMAIN m[k3] : m[k3][i].to = m[k3][j].to => i = j
  /\ \A t \in Tables(m, k3) : t \notin {k4, k3} /\ LargePages(m[t])

\* Address space s made of the frames q, in the order it got them.
ThreadSpace(m, k3, q) ==
  /\ Len(q) = 5
  /\ m[q[1]] = (0 :> link(q[2], KERNEL))
  /\ m[q[2]] = (1 :> link(q[3], KERNEL)) @@ m[k3]
  /\ m[q[3]] = (0 :> link(q[4], KERNEL))
  /\ m[q[4]] = (0 :> link(q[5], KERNEL))
UserSpace(m, k3, q) ==
  /\ Len(q) = 6
  /\ m[q[1]] = (0 :> link(q[2], USER))
  /\ m[q[2]] = (1 :> link(q[5], USER)) @@ m[k3]
  /\ m[q[5]] = (pd_idx(USER_CODE_VA) :> link(q[6], USER))
  /\ m[q[6]] = (0 :> link(q[3], USER)) @@ (1 :> link(q[4], USER))
Space(m, k3, s, q) ==
  s.cr3 = q[1] /\ IF s.ring3 THEN UserSpace(m, k3, q) ELSE ThreadSpace(m, k3, q)
SpaceTables(s, q) == IF s.ring3 THEN {q[1], q[2], q[5], q[6]} ELSE {q[1], q[2], q[3], q[4]}

\* The frames of s, found by walking its tables.
Frames(m, s) ==
  LET pdpt == m[s.cr3][0].to
      pd == m[pdpt][1].to
      pt == m[pd][IF s.ring3 THEN pd_idx(USER_CODE_VA) ELSE 0].to
  IN  IF s.ring3 THEN <<s.cr3, pdpt, m[pt][0].to, m[pt][1].to, pd, pt>>
      ELSE <<s.cr3, pdpt, pd, pt, m[pt][0].to>>

\* The address spaces S share the tables below the kernel PDPT and nothing else.
Layout(m, k4, k3, S, own) ==
  /\ m = [t \in DOMAIN m |-> m[t]] /\ KernelTables(m, k4, k3)
  /\ own \in [S -> Seq(Nat)]
  /\ \A s \in S : /\ Space(m, k3, s, own[s]) /\ IsInjective(own[s])
                   /\ Range(own[s]) \cap KernelFrames(m, k4, k3) = {}
  /\ \A s, u \in S : s # u => Range(own[s]) \cap Range(own[u]) = {}
  /\ DOMAIN m = KernelFrames(m, k4, k3) \union UNION {SpaceTables(s, own[s]) : s \in S}

InUse(m, k4, k3, S, own) == KernelFrames(m, k4, k3) \union UNION {Range(own[s]) : s \in S}
own_frames == [s \in spaces |-> Frames(mem, s)]
in_use == IF pc = 1 THEN {} ELSE InUse(mem, kernel_pml4, kernel_pdpt, spaces, own_frames)
taken == handed \union {pool_frame(k) : k \in 0 .. next_frame - 1}

\* The entry for device address pa is one of es.
Slot(pa, es) ==
  LET i == pdpt_idx(pa)
      t == mem[kernel_pdpt][i].to
  IN  i \in DOMAIN mem[kernel_pdpt] /\ pd_idx(pa) \in DOMAIN mem[t] /\ mem[t][pd_idx(pa)] \in es
mmio(pa) == link(pa, KERNEL \union {"PS", "PCD"})

Placed ==
  /\ pc \in 1 .. Len(Boot) + 1 /\ enabled \in Nat
  /\ acpi \in Firmwares /\ Device(apic.lapic) /\ Device(apic.ioapic)
  /\ pc < 9 => spaces = {}
  /\ enabled > 0 => Booted
Laid ==
  IF pc = 1 THEN mem = << >> /\ kernel_pml4 = -1
  ELSE Layout(mem, kernel_pml4, kernel_pdpt, spaces, own_frames)
\* The frames that the running call has taken are not in use yet.
Fresh ==
  /\ got \in Seq(Nat) /\ IsInjective(got) /\ Range(got) \cap in_use = {}
  /\ Range(got) \union in_use \subseteq taken
Entered ==
  /\ pc = 2 => \A j \in 0 .. ENTRIES - 1 :
                 Slot(j * LARGE, {link(j * LARGE, KERNEL \union {"PS"})})
  /\ pc > 3 => Slot(apic.lapic, {mmio(apic.lapic), mmio(apic.ioapic)})
  /\ enabled > 0 /\ Alive => Slot(apic.lapic, {mmio(apic.lapic)})
PInv == Placed /\ Laid /\ Fresh /\ Entered /\ MappedBeforeUse
=============================================================================
