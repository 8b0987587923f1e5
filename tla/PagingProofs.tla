---------------------------- MODULE PagingProofs ----------------------------
(***************************************************************************)
(* The page tables that the boot builds are right for every memory map,    *)
(* every ACPI table and any number of threads: the steps that write them   *)
(* keep PInv, and PInv says that address spaces stay apart, that all of    *)
(* them see the kernel and that nothing unmapped is touched.               *)
(***************************************************************************)
EXTENDS PagingTables

(* read_acpi: low memory and the first GB are mapped.                      *)
LEMMA AcpiStep ==
  ASSUME FInv, PInv, read_acpi
  PROVE  PInv'
<1>1. /\ Call("acpi") /\ Quiet /\ UNCHANGED vars /\ UNCHANGED <<acpi, spaces, enabled>>
  BY Zenon DEF read_acpi, Quiet, tableVars
<1>2. Placed /\ Laid /\ Fresh /\ Entered /\ MappedBeforeUse
  BY Zenon DEF PInv
<1>3. pc = 2 /\ pc' = 3 /\ fault = "none"
  <2>1. pc = 2
    BY <1>1, <1>2, CallAt, Zenon DEF Placed
  <2>2. pc' = pc + 1 /\ fault = "none"
    BY <1>1, <1>2, Moves, Zenon
  <2>3. QED
    BY <2>1, <2>2
<1>4. acpi \in Firmwares
  BY <1>2, Zenon DEF Placed
<1>5. acpi.at \in Nat /\ Device(apic_apply_acpi_bases(madt).lapic)
      /\ Device(apic_apply_acpi_bases(madt).ioapic)
  BY <1>4, DeviceAssumption, Zenon DEF madt
<1>6. Device(apic'.lapic) /\ Device(apic'.ioapic)
  BY <1>2, <1>5, Zenon DEF read_acpi, Placed
<1>7. ASSUME acpi.at < MAPPED PROVE Mapped(mem, kernel_pml4, acpi.at)
  <2> DEFINE a == acpi.at
             j == a \div LARGE
             es == {link(j * LARGE, KERNEL \union {"PS"})}
  <2>1. /\ LARGE \in Nat \ {0} /\ ENTRIES \in Nat \ {0} /\ GB = LARGE * ENTRIES
        /\ GB \in Nat \ {0} /\ a \in Nat /\ a < GB
    BY <1>5, <1>7, Sizes
  <2> HIDE DEF a
  <2>2. j \in 0 .. ENTRIES - 1 /\ pdpt_idx(a) = 0 /\ pd_idx(a) = j
    <3> DEFINE r == a % LARGE
    <3>1. a = LARGE * j + r /\ j \in Nat /\ r \in Nat
      BY <2>1
    <3> HIDE DEF j, r
    <3>2. ~(j >= ENTRIES)
      BY <2>1, <3>1
    <3>3. j \in 0 .. ENTRIES - 1
      BY <2>1, <3>1, <3>2
    <3>4. j % ENTRIES = j
      BY <2>1, <3>3
    <3>5. a \div GB = 0
      BY <2>1
    <3>6. 0 % ENTRIES = 0
      BY <2>1
    <3>7. QED
      BY <3>3, <3>4, <3>5, <3>6, Zenon DEF pdpt_idx, pd_idx, j
  <2>3. pdpt_idx(j * LARGE) = 0 /\ pd_idx(j * LARGE) = j /\ j * LARGE \in Nat
        /\ (j * LARGE) % LARGE = 0
    <3> HIDE DEF j
    <3>1. (j * LARGE + 0) \div LARGE = j /\ (j * LARGE + 0) % LARGE = 0
      BY <2>1, <2>2, DivMod
    <3>2. j * LARGE \in Nat /\ j * LARGE + 0 = j * LARGE /\ j * LARGE < GB
      BY <2>1, <2>2
    <3>3. (j * LARGE) \div GB = 0
      BY <2>1, <3>2
    <3>4. j % ENTRIES = j /\ 0 % ENTRIES = 0
      BY <2>1, <2>2
    <3>5. QED
      BY <3>1, <3>2, <3>3, <3>4, Zenon DEF pdpt_idx, pd_idx
  <2>4. Slot(j * LARGE, es)
    BY <1>2, <1>3, <2>2, Zenon DEF Entered
  <2>5. Slot(a, es)
    BY <2>2, <2>3, <2>4, Zenon DEF Slot
  <2>6. \A e \in es : e.to \in Nat /\ e.to % LARGE = 0
    <3> DEFINE b == j * LARGE
    <3> HIDE DEF b
    <3>1. link(b, KERNEL \union {"PS"}).to = b
      BY Zenon DEF link
    <3>2. QED
      BY <2>3, <3>1, Zenon DEF b
  <2>7. pc # 1
    BY <1>3
  <2>8. KernelTables(mem, kernel_pml4, kernel_pdpt)
    BY <1>2, <2>7, Zenon DEF Laid, Layout
  <2>9. -1 \notin DOMAIN mem
    BY <1>2, <2>7, TablesTaken, Zenon
  <2>10. Through(mem, kernel_pml4, kernel_pdpt, pdpt_idx(a))
    BY <1>2, <2>7, KernelGoes, Zenon
  <2> HIDE DEF es
  <2>11. Mapped(mem, kernel_pml4, a)
    BY <2>1, <2>5, <2>6, <2>8, <2>9, <2>10, SlotMapped, Zenon
  <2>12. QED
    BY <2>11, Zenon DEF a
<1>8. MappedBeforeUse'
  <2>1. MAPPED \in Nat /\ acpi \in Firmwares /\ acpi' = acpi /\ acpi.at \in Nat
    BY <1>1, <1>4, <1>5, FrameAssumption, Zenon
  <2>2. fault' = "tables" => acpi.at >= MAPPED
    <3>1. fault' = "tables" => ~Mapped(mem, kernel_pml4, acpi.at)
      BY <1>3, Zenon DEF read_acpi
    <3>2. QED
      BY <1>7, <2>1, <3>1
  <2>3. fault' # "device"
    BY <1>3, Zenon DEF read_acpi
  <2>4. QED
    BY <2>1, <2>2, <2>3, Zenon DEF MappedBeforeUse
<1>9. ~(pc' > 3) /\ pc # 1
  BY <1>3
<1>10. QED
  BY <1>1, <1>6, <1>8, <1>9, QuietStep, Zenon

(* The other calls that only read the tables.                              *)
LEMMA TimerStep ==
  ASSUME FInv, PInv, apic_timer_init
  PROVE  PInv'
<1>1. /\ Call("apic_timer_init") /\ Quiet /\ UNCHANGED vars /\ UNCHANGED <<acpi, apic, enabled>>
      /\ touch(mem, kernel_pml4, apic.lapic)
  BY Zenon DEF apic_timer_init, Quiet, tableVars
<1>2. Placed /\ Laid
  BY Zenon DEF PInv
<1>3. pc = 5 /\ pc' = pc + 1
  BY <1>1, <1>2, CallAt, Moves, Zenon DEF Placed
<1>4. pc # 1 /\ pc > 3
  BY <1>3
<1>5. MappedBeforeUse'
  BY <1>1, <1>2, <1>4, KernelGoes, TouchDevice, Zenon
<1>6. Device(apic'.lapic) /\ Device(apic'.ioapic)
  BY <1>1, <1>2, Zenon DEF Placed
<1>7. QED
  BY <1>1, <1>4, <1>5, <1>6, QuietStep, Zenon

(* memmap_parse_multiboot and memmap_activate.                             *)
LEMMA MapStep ==
  ASSUME FInv, PInv, parse_map \/ activate_map
  PROVE  PInv'
<1>1. UNCHANGED <<acpi, mem, kernel_pml4, kernel_pdpt, apic, spaces, enabled, fault>>
  BY Zenon DEF parse_map, activate_map, tableVars
<1>2. Placed /\ MappedBeforeUse
  BY Zenon DEF PInv
<1>3. MappedBeforeUse' /\ Quiet
  BY <1>1, <1>2, Zenon DEF MappedBeforeUse, Quiet
<1>4. [Next]_vars
  BY Zenon DEF parse_map, activate_map, Next
<1>5. Device(apic'.lapic) /\ Device(apic'.ioapic)
  BY <1>1, <1>2, Zenon DEF Placed
<1>6. CASE Call("memmap_parse")
  <2>1. pc = 6
    BY <1>2, <1>6, CallAt, Zenon DEF Placed, Call
  <2>2. pc # 1 /\ pc > 3
    BY <2>1
  <2>3. QED
    BY <1>1, <1>3, <1>4, <1>5, <1>6, <2>2, QuietStep, Zenon
<1>7. CASE Call("memmap_activate")
  <2>1. pc = 7
    BY <1>2, <1>7, CallAt, Zenon DEF Placed
  <2>2. pc # 1 /\ pc > 3
    BY <2>1
  <2>3. QED
    BY <1>1, <1>3, <1>4, <1>5, <1>7, <2>2, QuietStep, Zenon
<1>8. CASE At("memmap_parse") /\ UNCHANGED <<pc, got>>
  <2>1. Alive
    BY <1>8, Zenon DEF At
  <2>2. QED
    BY <1>1, <1>3, <1>4, <1>8, <2>1, IdleStep, Zenon
<1>9. QED
  BY <1>6, <1>7, <1>8, Zenon DEF parse_map, activate_map

(* smp_start_aps uses the local APIC at its default address.               *)
LEMMA SmpStep ==
  ASSUME FInv, PInv, smp_start_aps
  PROVE  PInv'
<1>1. /\ Call("smp_start_aps") /\ Quiet /\ UNCHANGED vars /\ UNCHANGED <<acpi, apic, enabled>>
      /\ IF Len(cpus) > 1 THEN touch(mem, kernel_pml4, LAPIC_DEFAULT) ELSE UNCHANGED fault
  BY Zenon DEF smp_start_aps, Quiet, tableVars
<1>2. Placed /\ Laid /\ MappedBeforeUse
  BY Zenon DEF PInv
<1>3. pc = THREADS + 10 /\ pc' = pc + 1 /\ THREADS \in Nat
  BY <1>1, <1>2, CallAt, Moves, BootOrder, Zenon DEF Placed
<1>4. pc # 1 /\ pc > 3
  BY <1>3
<1>5. MappedBeforeUse'
  <2>1. CASE UNCHANGED fault
    BY <1>1, <1>2, <2>1, Zenon DEF MappedBeforeUse
  <2>2. CASE touch(mem, kernel_pml4, LAPIC_DEFAULT) /\ apic.lapic = LAPIC_DEFAULT
    BY <1>1, <1>2, <1>4, <2>2, KernelGoes, TouchDevice, Zenon
  <2>3. CASE touch(mem, kernel_pml4, LAPIC_DEFAULT) /\ apic.lapic # LAPIC_DEFAULT
    <3>1. fault' = fault \/ fault' = "device"
      BY <2>3, Zenon DEF touch
    <3>2. fault' = "tables" => acpi'.at >= MAPPED
      BY <1>1, <1>2, <3>1, Zenon DEF MappedBeforeUse
    <3>3. QED
      BY <1>1, <2>3, <3>2, Zenon DEF MappedBeforeUse
  <2>4. QED
    BY <1>1, <2>1, <2>2, <2>3, Zenon
<1>6. Device(apic'.lapic) /\ Device(apic'.ioapic)
  BY <1>1, <1>2, Zenon DEF Placed
<1>7. QED
  BY <1>1, <1>4, <1>5, <1>6, QuietStep, Zenon

(* An interrupt uses the local APIC in the space of the thread it          *)
(* interrupted, which goes through the kernel's tables.                    *)
LEMMA EoiStep ==
  ASSUME FInv, PInv, lapic_send_eoi
  PROVE  PInv'
<1>1. /\ Alive /\ Booted /\ UNCHANGED vars
      /\ UNCHANGED <<acpi, pc, got, mem, kernel_pml4, kernel_pdpt, apic, spaces, enabled>>
  BY Zenon DEF lapic_send_eoi, tableVars
<1>2. PICK s \in spaces : touch(mem, s.cr3, apic.lapic)
  BY Zenon DEF lapic_send_eoi
<1>3. Placed /\ Laid
  BY Zenon DEF PInv
<1>4. pc # 1 /\ pc > 3
  BY <1>1, <1>3, BootOrder DEF Placed, Booted
<1>5. pdpt_idx(apic.lapic) # 1
  BY <1>3, Index, Zenon DEF Placed
<1>6. Layout(mem, kernel_pml4, kernel_pdpt, spaces, own_frames)
  BY <1>3, <1>4, Zenon DEF Laid
<1>7. Through(mem, s.cr3, kernel_pdpt, pdpt_idx(apic.lapic))
  BY <1>5, <1>6, SpaceThrough, Zenon
<1>8. MappedBeforeUse'
  BY <1>1, <1>2, <1>4, <1>7, TouchDevice, Zenon
<1>9. QED
  BY <1>1, <1>8, IdleStep, Zenon

(* uefi_main parses its map before the boot.                               *)
LEMMA UefiStep ==
  ASSUME FInv, PInv, uefi_main
  PROVE  PInv'
<1>1. Alive /\ [Next]_vars /\ UNCHANGED pagingVars
  BY Zenon DEF uefi_main, Next
<1>2. UNCHANGED <<acpi, pc, got, mem, kernel_pml4, kernel_pdpt, apic, spaces, enabled, fault>>
  BY <1>1, Zenon DEF pagingVars, bootVars, tableVars
<1>3. MappedBeforeUse'
  BY <1>2, Zenon DEF PInv, MappedBeforeUse
<1>4. QED
  BY <1>1, <1>2, <1>3, IdleStep, Zenon

(* How many frames the first calls get.                                    *)
LEMMA Needed ==
  ASSUME Placed
  PROVE  /\ Boot[pc] = "paging_init_kernel_map" => frames_needed = 3
         /\ Boot[pc] = "lapic_enable" => frames_needed = mmio_frames(apic.lapic)
         /\ Boot[pc] = "ioapic_write" => frames_needed = mmio_frames(apic.ioapic)
         /\ Boot[pc] = "create_address_space" => frames_needed = 5
         /\ Boot[pc] = "create_user_process" => frames_needed = 5 + mmio_frames(USER_CODE_VA)
BY Zenon DEF frames_needed

(* The frames of a call become frames in use.                              *)
LEMMA FreshUsed ==
  ASSUME Fresh, got' = << >>, taken \subseteq taken', in_use' \subseteq in_use \union Range(got)
  PROVE  Fresh'
<1>1. in_use' \subseteq taken'
  <2>1. Range(got) \union in_use \subseteq taken
    BY Zenon DEF Fresh
  <2>2. QED
    BY <2>1, Zenon
<1>2. << >> \in Seq(Nat) /\ IsInjective(<< >>) /\ Range(<< >>) = {}
  BY DEF IsInjective, Range
<1>3. QED
  BY <1>1, <1>2, Zenon DEF Fresh

(* paging_init_kernel_map.                                                 *)
LEMMA InitMapStep ==
  ASSUME FInv, PInv, paging_init_kernel_map
  PROVE  PInv'
<1> DEFINE a == got[1]
           b == got[2]
           c == got[3]
<1>1. /\ Call("paging_init_kernel_map") /\ kernel_pml4' = a /\ kernel_pdpt' = b
      /\ mem' = init_map(a, b, c) /\ UNCHANGED vars
      /\ UNCHANGED <<acpi, apic, spaces, enabled, fault>>
  BY Zenon DEF paging_init_kernel_map
<1>2. Placed /\ Fresh /\ MappedBeforeUse
  BY Zenon DEF PInv
<1>3. /\ pc = 1 /\ pc' = pc + 1 /\ got' = << >> /\ ~(enabled' > 0) /\ Len(got) = 3
      /\ fault = "none"
  BY <1>1, <1>2, CallAt, Moves, Needed, Zenon DEF Placed
<1>4. pc' = 2 /\ ~(pc' > 3) /\ pc < 9 /\ pc' # 1
  BY <1>3
<1>5. spaces = {} /\ spaces' = {}
  BY <1>1, <1>2, <1>4, Zenon DEF Placed
<1>6. a \in Nat /\ b \in Nat /\ c \in Nat /\ a # b /\ b # c /\ a # c /\ {a, b, c} = Range(got)
  <2>1. got \in Seq(Nat) /\ IsInjective(got)
    BY <1>2, Zenon DEF Fresh
  <2>2. DOMAIN got = 1 .. 3
    BY <1>3, <2>1
  <2>3. a \in Nat /\ b \in Nat /\ c \in Nat
    <3>1. 1 \in DOMAIN got /\ 2 \in DOMAIN got /\ 3 \in DOMAIN got
      BY <2>2
    <3>2. \A k \in DOMAIN got : got[k] \in Nat
      BY <2>1
    <3>3. QED
      BY <3>1, <3>2, Zenon
  <2>4. a # b /\ b # c /\ a # c
    BY <2>1, <2>2 DEF IsInjective
  <2>5. {a, b, c} = Range(got)
    BY <2>2 DEF Range
  <2>6. QED
    BY <2>3, <2>4, <2>5, Zenon
<1>7. FirstTables(init_map(a, b, c), a, b, c)
  BY <1>6, InitLayout, Zenon
<1> HIDE DEF a, b, c
<1> DEFINE m == init_map(a, b, c)
<1>8. /\ Layout(m, a, b, {}, [s \in {} |-> << >>]) /\ KernelFrames(m, a, b) = {a, b, c}
      /\ DOMAIN m[b] = {0} /\ m[b][0].to = c
      /\ m[c] = [i \in 0 .. ENTRIES - 1 |-> link(i * LARGE, KERNEL \union {"PS"})]
  BY <1>7, Zenon DEF FirstTables
<1> HIDE DEF m
<1>9. own_frames' = [s \in {} |-> << >>]
  <2>1. [s \in {} |-> Frames(mem', s)] = [s \in {} |-> << >>]
    BY Zenon
  <2>2. own_frames' = [s \in {} |-> Frames(mem', s)]
    BY <1>5, Zenon DEF own_frames
  <2>3. QED
    BY <2>1, <2>2, Zenon
<1>10. Laid'
  <2>1. mem' = m
    BY <1>1, Zenon DEF m
  <2>2. Layout(mem, kernel_pml4, kernel_pdpt, spaces, own_frames)'
    BY <1>1, <1>5, <1>8, <1>9, <2>1, Zenon
  <2>3. QED
    BY <1>4, <2>2, Zenon DEF Laid
<1>11. in_use' = Range(got)
  <2>1. mem' = m
    BY <1>1, Zenon DEF m
  <2>2. in_use' = InUse(m, a, b, {}, [s \in {} |-> << >>])
    BY <1>1, <1>4, <1>5, <1>9, <2>1, Zenon DEF in_use
  <2>3. InUse(m, a, b, {}, [s \in {} |-> << >>]) = KernelFrames(m, a, b)
    BY Zenon DEF InUse
  <2>4. QED
    BY <1>6, <1>8, <2>2, <2>3, Zenon
<1>12. Fresh'
  <2>1. taken \subseteq taken'
    BY <1>1, TakenGrows, Zenon DEF FInv
  <2>2. in_use' \subseteq in_use \union Range(got)
    BY <1>11, Zenon
  <2>3. QED
    BY <1>2, <1>3, <2>1, <2>2, FreshUsed, Zenon
<1>13. Placed'
  <2>1. Device(apic'.lapic) /\ Device(apic'.ioapic)
    BY <1>1, <1>2, Zenon DEF Placed
  <2>2. QED
    BY <1>1, <1>2, <1>5, <2>1, PlacedNext, Zenon
<1>14. ASSUME NEW j \in 0 .. ENTRIES - 1
       PROVE  Slot(j * LARGE, {link(j * LARGE, KERNEL \union {"PS"})})'
  <2> DEFINE e == link(j * LARGE, KERNEL \union {"PS"})
  <2>1. j \in DOMAIN m[c] /\ m[c][j] = e
    BY <1>8, Zenon
  <2>2. pdpt_idx(j * LARGE) = 0 /\ pd_idx(j * LARGE) = j
    <3>0. LARGE \in Nat \ {0} /\ ENTRIES \in Nat \ {0} /\ GB = LARGE * ENTRIES /\ GB \in Nat \ {0}
      BY Sizes
    <3>1. (j * LARGE + 0) \div LARGE = j
      BY <3>0, DivMod
    <3>2. j * LARGE \in Nat /\ j * LARGE + 0 = j * LARGE /\ j * LARGE < GB
      BY <3>0
    <3>3. (j * LARGE) \div GB = 0
      BY <3>0, <3>2
    <3>4. j % ENTRIES = j /\ 0 % ENTRIES = 0
      BY <3>0
    <3>5. QED
      BY <3>1, <3>2, <3>3, <3>4, Zenon DEF pdpt_idx, pd_idx
  <2>3. 0 \in DOMAIN m[b] /\ e \in {e}
    BY <1>8, Zenon
  <2>4. mem' = m
    BY <1>1, Zenon DEF m
  <2>5. SlotIn(mem', kernel_pdpt', j * LARGE, {e})
    BY <1>1, <1>8, <2>1, <2>2, <2>3, <2>4, Zenon DEF SlotIn
  <2>6. QED
    BY <2>5, Zenon DEF SlotIn, Slot
<1>15. Entered'
  BY <1>3, <1>4, <1>14, Zenon DEF Entered
<1>16. MappedBeforeUse'
  BY <1>1, <1>2, Zenon DEF MappedBeforeUse
<1>17. QED
  BY <1>10, <1>12, <1>13, <1>15, <1>16, Zenon DEF PInv

(* paging_map_mmio_2mb keeps the invariant of the tables.                  *)
LEMMA MmioKeeps ==
  ASSUME FInv, PInv, pc # 1, pc' # 1, NEW pa, Device(pa), mem' = paging_map_mmio_2mb(pa),
         UNCHANGED <<vars, kernel_pml4, kernel_pdpt, spaces>>,
         MayMap(mem, kernel_pml4, kernel_pdpt, spaces, got[1], pa),
         pdpt_idx(pa) \in DOMAIN mem[kernel_pdpt] \/ got[1] \in Range(got)
  PROVE  /\ Laid' /\ in_use' \subseteq in_use \union Range(got)
         /\ pdpt_idx(pa) \in DOMAIN mem[kernel_pdpt] => in_use' \subseteq in_use
         /\ SlotIn(mem', kernel_pdpt, pa, {mmio(pa)})
         /\ \A pb, es : SlotIn(mem, kernel_pdpt, pb, es) =>
              SlotIn(mem', kernel_pdpt, pb, es \union {mmio(pa)})
         /\ pa % LARGE = 0 => Mapped(mem', kernel_pml4, pa)
<1> DEFINE k4 == kernel_pml4
           k3 == kernel_pdpt
           f == got[1]
           own == own_frames
           n == mem'
<1>1. Layout(mem, k4, k3, spaces, own) /\ in_use = InUse(mem, k4, k3, spaces, own)
  BY Zenon DEF PInv, Laid, in_use
<1>2. mem' = MmioMem(mem, k3, f, pa)
  BY Zenon DEF paging_map_mmio_2mb, MmioMem, Level1, mmio
<1>3. Maps1(mem, n, k4, k3, spaces, own, f, pa)
  BY <1>1, <1>2, MmioMaps, Zenon
<1>4. /\ Layout(n, k4, k3, spaces, own)
      /\ KernelFrames(n, k4, k3) \subseteq
           KernelFrames(mem, k4, k3) \union (IF pdpt_idx(pa) \in DOMAIN mem[k3] THEN {} ELSE {f})
      /\ SlotIn(n, k3, pa, {mmio(pa)})
      /\ \A pb, es : SlotIn(mem, k3, pb, es) => SlotIn(n, k3, pb, es \union {mmio(pa)})
  BY <1>3, Zenon DEF Maps1
<1>5. own = [s \in spaces |-> Frames(n, s)]
  BY <1>4, OwnIsFrames
<1>6. own_frames' = own
  <2>1. own_frames' = [s \in spaces |-> Frames(mem', s)]
    BY Zenon DEF own_frames
  <2>2. QED
    BY <1>5, <2>1, Zenon
<1>7. Laid'
  <2>1. Layout(mem, kernel_pml4, kernel_pdpt, spaces, own_frames)'
    BY <1>4, <1>6, Zenon
  <2>2. QED
    BY <2>1, Zenon DEF Laid
<1>8. in_use' = InUse(n, k4, k3, spaces, own)
  BY <1>6, Zenon DEF in_use
<1>9. /\ in_use' \subseteq in_use \union Range(got)
      /\ pdpt_idx(pa) \in DOMAIN mem[k3] => in_use' \subseteq in_use
  <2> DEFINE U == UNION {Range(own[s]) : s \in spaces}
             K == KernelFrames(mem, k4, k3)
             L == KernelFrames(n, k4, k3)
             I == IF pdpt_idx(pa) \in DOMAIN mem[k3] THEN {} ELSE {f}
             G == Range(got)
  <2>1. in_use' = L \union U /\ in_use = K \union U
    BY <1>1, <1>8, Zenon DEF InUse
  <2>2. I \subseteq G
    BY Zenon
  <2>3. L \subseteq K \union I
    BY <1>4, Zenon
  <2> HIDE DEF U, K, L, I, G
  <2>4. L \union U \subseteq (K \union U) \union G
    BY <2>2, <2>3, Zenon
  <2>5. I = {} => L \union U \subseteq K \union U
    BY <2>3, Zenon
  <2>6. pdpt_idx(pa) \in DOMAIN mem[k3] => I = {}
    BY Zenon DEF I
  <2>7. QED
    BY <2>1, <2>4, <2>5, <2>6, Zenon DEF G
<1>10. -1 \notin DOMAIN n
  <2>1. DOMAIN n \subseteq in_use'
    BY <1>4, <1>8, LayoutDomain, Zenon
  <2>2. in_use \union Range(got) \subseteq Nat
    <3>1. in_use \union Range(got) \subseteq taken
      BY Zenon DEF PInv, Fresh
    <3>2. taken \subseteq Nat
      BY TakenNat, Zenon DEF FInv
    <3>3. QED
      BY <3>1, <3>2, Zenon
  <2>3. QED
    BY <1>9, <2>1, <2>2
<1>11. ASSUME pa % LARGE = 0 PROVE Mapped(n, k4, pa)
  <2>1. KernelTables(n, k4, k3)
    BY <1>4, Zenon DEF Layout
  <2>2. Through(n, k4, k3, pdpt_idx(pa))
    BY <2>1, KernelThrough, Zenon
  <2>3. mmio(pa).to = pa /\ pa \in Nat
    BY Zenon DEF mmio, link, Device
  <2> DEFINE es == {mmio(pa)}
  <2>4. \A e \in es : e.to \in Nat /\ e.to % LARGE = 0
    BY <1>11, <2>3, Zenon
  <2> HIDE DEF es
  <2>5. SlotIn(n, k3, pa, es)
    BY <1>4, Zenon DEF es
  <2>6. QED
    BY <1>10, <2>1, <2>2, <2>3, <2>4, <2>5, SlotInMapped, Zenon
<1>12. QED
  BY <1>4, <1>7, <1>9, <1>11, Zenon

(* Both are such calls.                                                    *)
LEMMA DevicesStep ==
  ASSUME FInv, PInv, lapic_enable \/ ioapic_write
  PROVE  PInv'
(* lapic_enable and ioapic_write.                                          *)
<1>DeviceStep.
  ASSUME FInv, PInv, NEW name, Call(name), pc \in {3, 4},
         NEW pa, pa = (IF pc = 3 THEN apic.lapic ELSE apic.ioapic), Len(got) = mmio_frames(pa),
         mem' = paging_map_mmio_2mb(pa), touch(mem', kernel_pml4, pa),
         UNCHANGED <<vars, acpi, kernel_pml4, kernel_pdpt, apic, spaces, enabled>>
  PROVE  PInv'
  <2> USE <1>DeviceStep
  (* A call that maps a device has the frame it needs.                       *)
  <2>MapReady.
    ASSUME PInv, pc # 1, spaces = {}, NEW pa1, Len(got) = mmio_frames(pa1)
    PROVE  /\ MayMap(mem, kernel_pml4, kernel_pdpt, spaces, got[1], pa1)
           /\ pdpt_idx(pa1) \in DOMAIN mem[kernel_pdpt] \/ got[1] \in Range(got)
    <3> USE <2>MapReady
    <3>1. CASE pdpt_idx(pa1) \in DOMAIN mem[kernel_pdpt]
      BY <3>1, Zenon DEF MayMap
    <3>2. CASE pdpt_idx(pa1) \notin DOMAIN mem[kernel_pdpt]
      <4>1. Len(got) = 1
        BY <3>2, Zenon DEF mmio_frames
      <4>2. got \in Seq(Nat) /\ Range(got) \cap in_use = {}
        BY Zenon DEF PInv, Fresh
      <4>3. 1 \in DOMAIN got
        BY <4>1, <4>2
      <4>4. got[1] \in Range(got) /\ got[1] \in Nat
        <5>1. \A k \in DOMAIN got : got[k] \in Nat
          BY <4>2
        <5>2. QED
          BY <4>3, <5>1, Zenon DEF Range
      <4>5. KernelFrames(mem, kernel_pml4, kernel_pdpt) \subseteq in_use
        BY Zenon DEF in_use, InUse
      <4>6. QED
        BY <4>2, <4>4, <4>5, Zenon DEF MayMap
    <3>3. QED
      BY <3>1, <3>2, Zenon
  <2>1. Placed /\ Fresh /\ Entered /\ MappedBeforeUse
    BY Zenon DEF PInv
  <2>2. /\ pc \in Nat /\ pc' = pc + 1 /\ got' = << >> /\ ~(enabled' > 0) /\ fault = "none"
    BY <2>1, Moves, Zenon
  <2>3. pc # 1 /\ pc' # 1 /\ pc' # 2 /\ pc < 9 /\ (pc = 4 => pc > 3)
    BY <2>2
  <2>4. spaces = {} /\ spaces' = {} /\ Device(pa)
    BY <2>1, <2>3, Zenon DEF Placed
  <2>5. /\ Laid' /\ in_use' \subseteq in_use \union Range(got)
        /\ SlotIn(mem', kernel_pdpt, pa, {mmio(pa)})
        /\ \A pb, es : SlotIn(mem, kernel_pdpt, pb, es) =>
             SlotIn(mem', kernel_pdpt, pb, es \union {mmio(pa)})
        /\ pa % LARGE = 0 => Mapped(mem', kernel_pml4, pa)
    <3>1. /\ MayMap(mem, kernel_pml4, kernel_pdpt, spaces, got[1], pa)
          /\ pdpt_idx(pa) \in DOMAIN mem[kernel_pdpt] \/ got[1] \in Range(got)
      BY <2>3, <2>4, <2>MapReady, Zenon
    <3>2. QED
      BY <2>3, <2>4, <3>1, MmioKeeps, Zenon
  <2>6. Placed'
    <3>1. Device(apic'.lapic) /\ Device(apic'.ioapic)
      BY <2>1, Zenon DEF Placed
    <3>2. QED
      BY <2>1, <2>4, <3>1, PlacedNext, Zenon
  <2>7. Fresh'
    <3>1. taken \subseteq taken'
      BY TakenGrows, Zenon DEF FInv
    <3>2. QED
      BY <2>1, <2>2, <2>5, <3>1, FreshUsed, Zenon
  <2> DEFINE es == {mmio(apic.lapic), mmio(apic.ioapic)}
  <2>8. SlotIn(mem', kernel_pdpt, apic.lapic, es)
    <3>1. CASE pc = 3
      <4>1. pa = apic.lapic /\ mmio(pa) \in es
        BY <3>1, Zenon
      <4>2. \A x \in {mmio(pa)} : x \in es
        BY <4>1, Zenon
      <4>3. QED
        BY <2>5, <4>1, <4>2, Zenon DEF SlotIn
    <3>2. CASE pc = 4
      <4>1. pa = apic.ioapic
        BY <3>2
      <4>2. Slot(apic.lapic, es)
        BY <2>1, <2>3, <3>2, Zenon DEF Entered
      <4>3. SlotIn(mem, kernel_pdpt, apic.lapic, es)
        BY <4>2, Zenon DEF Slot, SlotIn
      <4>4. SlotIn(mem', kernel_pdpt, apic.lapic, es \union {mmio(pa)})
        BY <2>5, <4>3, Zenon
      <4>5. es \union {mmio(pa)} = es
        BY <4>1, Zenon
      <4>6. QED
        BY <4>4, <4>5, Zenon
    <3>3. QED
      BY <3>1, <3>2, Zenon
  <2>9. Entered'
    <3>1. Slot(apic.lapic, {mmio(apic.lapic), mmio(apic.ioapic)})'
      BY <2>8, Zenon DEF Slot, SlotIn
    <3>2. QED
      BY <2>2, <2>3, <3>1, Zenon DEF Entered
  <2>10. MappedBeforeUse'
    <3>1. CASE Mapped(mem', kernel_pml4, pa)
      BY <2>1, <3>1, Zenon DEF touch, MappedBeforeUse
    <3>2. CASE ~Mapped(mem', kernel_pml4, pa)
      <4>1. apic.lapic % LARGE # 0 \/ apic.ioapic % LARGE # 0
        BY <2>5, <3>2, Zenon
      <4>2. fault' = "device"
        BY <3>2, Zenon DEF touch
      <4>3. fault' # "tables"
        BY <4>2, Zenon
      <4>4. QED
        BY <4>1, <4>3, Zenon DEF MappedBeforeUse
    <3>3. QED
      BY <3>1, <3>2, Zenon
  <2>11. QED
    BY <2>5, <2>6, <2>7, <2>9, <2>10, Zenon DEF PInv
<1>1. Placed
  BY Zenon DEF PInv
<1>2. CASE lapic_enable
  <2>1. /\ Call("lapic_enable") /\ mem' = paging_map_mmio_2mb(apic.lapic)
        /\ touch(mem', kernel_pml4, apic.lapic)
        /\ UNCHANGED <<vars, acpi, kernel_pml4, kernel_pdpt, apic, spaces, enabled>>
    BY <1>2, Zenon DEF lapic_enable
  <2>2. pc = 3 /\ Len(got) = mmio_frames(apic.lapic)
    BY <1>1, <2>1, CallAt, Moves, Needed, Zenon DEF Placed
  <2>3. pc \in {3, 4} /\ apic.lapic = IF pc = 3 THEN apic.lapic ELSE apic.ioapic
    BY <2>2, Zenon
  <2>4. QED
    BY <2>1, <2>2, <2>3, <1>DeviceStep, Zenon
<1>3. CASE ioapic_write
  <2>1. /\ Call("ioapic_write") /\ mem' = paging_map_mmio_2mb(apic.ioapic)
        /\ touch(mem', kernel_pml4, apic.ioapic)
        /\ UNCHANGED <<vars, acpi, kernel_pml4, kernel_pdpt, apic, spaces, enabled>>
    BY <1>3, Zenon DEF ioapic_write
  <2>2. pc = 4 /\ Len(got) = mmio_frames(apic.ioapic)
    BY <1>1, <2>1, CallAt, Moves, Needed, Zenon DEF Placed
  <2>3. pc \in {3, 4} /\ apic.ioapic = IF pc = 3 THEN apic.lapic ELSE apic.ioapic
    BY <2>2
  <2>4. QED
    BY <2>1, <2>2, <2>3, <1>DeviceStep, Zenon
<1>4. QED
  BY <1>2, <1>3, Zenon

(* The APs start when the boot has made its last call.                     *)
LEMMA ApsLate ==
  ASSUME Placed, ApsStarted
  PROVE  Booted /\ pc # 1 /\ pc # 2 /\ pc > 3
<1>1. PICK k \in 1 .. pc - 1 : Boot[k] = "smp_start_aps"
  BY Zenon DEF ApsStarted
<1>2. pc \in 1 .. THREADS + 11 /\ THREADS \in Nat /\ Len(Boot) = THREADS + 10
  BY BootOrder DEF Placed
<1>3. \/ k \in 1 .. 7 \/ k \in 8 .. THREADS + 8 \/ k = THREADS + 9 \/ k = THREADS + 10
  BY <1>2
<1>4. k = THREADS + 10
  BY <1>1, <1>3, BootOrder
<1>5. QED
  BY <1>2, <1>4 DEF Booted

(* ap_entry64 maps a device that is mapped already.                        *)
LEMMA ApStep ==
  ASSUME FInv, PInv, ap_entry64
  PROVE  PInv'
<1> DEFINE pa == apic.lapic
<1>1. /\ Alive /\ ApsStarted /\ touch(mem, kernel_pml4, pa) /\ enabled' = enabled + 1
      /\ mem' = (IF Mapped(mem, kernel_pml4, pa) THEN paging_map_mmio_2mb(pa) ELSE mem)
      /\ UNCHANGED <<vars, acpi, pc, got, kernel_pml4, kernel_pdpt, apic, spaces>>
  BY Zenon DEF ap_entry64
<1>2. Placed /\ Laid /\ Fresh /\ Entered
  BY Zenon DEF PInv
<1>3. Booted /\ pc # 1 /\ pc # 2 /\ pc > 3
  BY <1>1, <1>2, ApsLate, Zenon
<1>4. Placed'
  <2>1. enabled' \in Nat
    BY <1>1, <1>2 DEF Placed
  <2>2. QED
    BY <1>1, <1>2, <1>3, <2>1, Zenon DEF Placed, Booted
<1>5. MappedBeforeUse'
  <2>1. Through(mem, kernel_pml4, kernel_pdpt, pdpt_idx(pa))
    BY <1>2, <1>3, KernelGoes, Zenon
  <2>2. QED
    BY <1>1, <1>3, <2>1, TouchDevice, Zenon
<1> DEFINE es == {mmio(apic.lapic), mmio(apic.ioapic)}
<1>6. Slot(pa, es) /\ pdpt_idx(pa) \in DOMAIN mem[kernel_pdpt]
  BY <1>2, <1>3, Zenon DEF Entered, Slot
<1>7. taken' = taken
  <2>1. UNCHANGED <<fw, handed, next_frame>>
    BY <1>1, Zenon DEF vars, parseVars
  <2>2. QED
    BY <2>1, Zenon DEF taken, pool_frame
<1>8. CASE ~Mapped(mem, kernel_pml4, pa)
  <2>1. mem' = mem /\ fault' = "device"
    BY <1>1, <1>8, Zenon DEF touch
  <2>2. ~Alive'
    BY <2>1, Zenon DEF Alive
  <2>3. Laid' /\ in_use' = in_use /\ Slot(pa, es)'
    BY <1>1, <1>2, <1>3, <1>6, <2>1, TablesSame, Zenon DEF Laid
  <2>4. Fresh'
    BY <1>1, <1>2, <1>7, <2>3, Zenon DEF Fresh
  <2>5. Entered'
    BY <1>1, <1>3, <2>2, <2>3, Zenon DEF Entered
  <2>6. QED
    BY <1>4, <1>5, <2>3, <2>4, <2>5, Zenon DEF PInv
<1>9. CASE Mapped(mem, kernel_pml4, pa)
  <2>1. mem' = paging_map_mmio_2mb(pa)
    BY <1>1, <1>9, Zenon
  <2>2. Device(pa) /\ MayMap(mem, kernel_pml4, kernel_pdpt, spaces, got[1], pa)
    BY <1>2, <1>6, Zenon DEF Placed, MayMap
  <2>3. /\ Laid' /\ in_use' \subseteq in_use /\ SlotIn(mem', kernel_pdpt, pa, {mmio(pa)})
    BY <1>1, <1>3, <1>6, <2>1, <2>2, MmioKeeps, Zenon
  <2>4. Fresh'
    <3>1. Range(got) \cap in_use' = {} /\ Range(got) \union in_use' \subseteq taken
      BY <1>2, <2>3, Zenon DEF Fresh
    <3>2. QED
      BY <1>1, <1>2, <1>7, <3>1, Zenon DEF Fresh
  <2>5. Slot(pa, {mmio(pa)})'
    BY <1>1, <2>3, Zenon DEF Slot, SlotIn
  <2>6. Slot(pa, es)'
    <3>1. \A x \in {mmio(pa)} : x \in es
      BY Zenon
    <3>2. SlotIn(mem', kernel_pdpt, pa, es)
      BY <2>3, <3>1, Zenon DEF SlotIn
    <3>3. QED
      BY <1>1, <3>2, Zenon DEF Slot, SlotIn
  <2>7. Entered'
    BY <1>1, <1>3, <2>5, <2>6, Zenon DEF Entered
  <2>8. QED
    BY <1>4, <1>5, <2>3, <2>4, <2>7, Zenon DEF PInv
<1>10. QED
  BY <1>8, <1>9, Zenon

(* The layout with the new space in it.                                    *)
Joined(m, k4, k3, S, own, n, s, q) ==
  /\ Layout(n, k4, k3, S \union {s}, with(S, own, s, q))
  /\ InUse(n, k4, k3, S \union {s}, with(S, own, s, q)) = InUse(m, k4, k3, S, own) \union Range(q)

(* A boot call that makes an address space of its frames.                  *)
LEMMA JoinStep ==
  ASSUME FInv, PInv, NEW name, Call(name), pc > 7, NEW s, Joins(mem, kernel_pdpt, mem', s, got),
         spaces' = spaces \union {s},
         UNCHANGED <<vars, acpi, kernel_pml4, kernel_pdpt, apic, enabled, fault>>
  PROVE  PInv'
(* A new address space leaves the entries of the devices alone.            *)
<1>JoinSlots.
  ASSUME NEW m, NEW k4, NEW k3, KernelTables(m, k4, k3), NEW n,
         \A x \in DOMAIN m : n[x] = m[x], NEW pa, NEW es, SlotIn(m, k3, pa, es)
  PROVE  SlotIn(n, k3, pa, es)
  <2> USE <1>JoinSlots
  <2> DEFINE i == pdpt_idx(pa)
             t == m[k3][i].to
  <2>1. i \in DOMAIN m[k3] /\ pd_idx(pa) \in DOMAIN m[t] /\ m[t][pd_idx(pa)] \in es
    BY Zenon DEF SlotIn
  <2>2. k3 \in DOMAIN m /\ t \in DOMAIN m
    <3>1. t \in Tables(m, k3)
      BY <2>1, Zenon DEF Tables
    <3>2. QED
      BY <3>1, Zenon DEF KernelTables, KernelFrames
  <2>3. n[k3] = m[k3] /\ n[t] = m[t]
    BY <2>2, Zenon
  <2>4. QED
    BY <2>1, <2>3, Zenon DEF SlotIn
(* It is one.                                                              *)
<1>JoinedIs.
  ASSUME NEW m, NEW k4, NEW k3, NEW S, NEW own, Layout(m, k4, k3, S, own),
         NEW n, NEW s1, NEW q, Joins(m, k3, n, s1, q),
         Range(q) \cap InUse(m, k4, k3, S, own) = {}
  PROVE  Joined(m, k4, k3, S, own, n, s1, q)
  BY <1>JoinedIs, JoinLayout DEF Joined
<1> DEFINE k4 == kernel_pml4
           k3 == kernel_pdpt
           own == own_frames
           S == spaces \union {s}
           own2 == with(spaces, own, s, got)
           n == mem'
<1>1. Placed /\ Laid /\ Fresh /\ Entered /\ MappedBeforeUse
  BY Zenon DEF PInv
<1>2. pc \in Nat /\ pc' = pc + 1 /\ got' = << >> /\ ~(enabled' > 0)
  BY <1>1, Moves, Zenon
<1>3. pc # 1 /\ pc' # 1 /\ pc' # 2 /\ pc > 3 /\ ~(pc' < 9)
  BY <1>2
<1>4. Layout(mem, k4, k3, spaces, own) /\ in_use = InUse(mem, k4, k3, spaces, own)
  BY <1>1, <1>3, Zenon DEF Laid, in_use
<1>5. Range(got) \cap InUse(mem, k4, k3, spaces, own) = {}
  BY <1>1, <1>4, Zenon DEF Fresh
<1>6. /\ Layout(n, k4, k3, S, own2)
      /\ InUse(n, k4, k3, S, own2) = InUse(mem, k4, k3, spaces, own) \union Range(got)
  <2>1. Joined(mem, k4, k3, spaces, own, n, s, got)
    BY <1>4, <1>5, <1>JoinedIs, Zenon
  <2>2. QED
    BY <2>1, Zenon DEF Joined
<1>7. own_frames' = own2
  <2> HIDE DEF own2, S, n
  <2>1. own2 = [u \in S |-> Frames(n, u)]
    BY <1>6, OwnIsFrames, Zenon
  <2>2. own_frames' = [u \in spaces' |-> Frames(mem', u)]
    BY Zenon DEF own_frames
  <2>3. QED
    BY <2>1, <2>2, Zenon DEF S, n
<1>8. Laid'
  <2>1. Layout(mem, kernel_pml4, kernel_pdpt, spaces, own_frames)'
    BY <1>6, <1>7, Zenon
  <2>2. QED
    BY <1>3, <2>1, Zenon DEF Laid
<1>9. Fresh'
  <2>1. in_use' = in_use \union Range(got)
    BY <1>3, <1>4, <1>6, <1>7, Zenon DEF in_use
  <2>2. in_use' \subseteq in_use \union Range(got)
    BY <2>1, Zenon
  <2>3. taken \subseteq taken'
    BY TakenGrows, Zenon DEF FInv
  <2>4. QED
    BY <1>1, <1>2, <2>2, <2>3, FreshUsed, Zenon
<1>10. Placed'
  <2>1. Device(apic'.lapic) /\ Device(apic'.ioapic)
    BY <1>1, Zenon DEF Placed
  <2>2. QED
    BY <1>1, <1>3, <2>1, PlacedNext, Zenon
<1>11. Entered'
  <2> DEFINE es == {mmio(apic.lapic), mmio(apic.ioapic)}
  <2>1. SlotIn(mem, k3, apic.lapic, es)
    BY <1>1, <1>3, Zenon DEF Entered, Slot, SlotIn
  <2>2. KernelTables(mem, k4, k3) /\ \A x \in DOMAIN mem : n[x] = mem[x]
    BY <1>4, Zenon DEF Layout, Joins
  <2>3. SlotIn(n, k3, apic.lapic, es)
    BY <2>1, <2>2, <1>JoinSlots, Zenon
  <2>4. Slot(apic.lapic, {mmio(apic.lapic), mmio(apic.ioapic)})'
    BY <2>3, Zenon DEF Slot, SlotIn
  <2>5. QED
    BY <1>2, <1>3, <2>4, Zenon DEF Entered
<1>12. MappedBeforeUse'
  BY <1>1, Zenon DEF MappedBeforeUse
<1>13. QED
  BY <1>8, <1>9, <1>10, <1>11, <1>12, Zenon DEF PInv

(* sched64_create_thread.                                                  *)
LEMMA ThreadStep ==
  ASSUME FInv, PInv, create_address_space
  PROVE  PInv'
<1>1. Placed /\ Laid /\ Fresh
  BY Zenon DEF PInv
<1> DEFINE s == [cr3 |-> got[1], ring3 |-> FALSE]
<1>2. /\ Call("create_address_space") /\ spaces' = spaces \union {s}
      /\ mem' = (got[1] :> (0 :> link(got[2], KERNEL)))
             @@ (got[2] :> ((1 :> link(got[3], KERNEL)) @@ mem[kernel_pdpt]))
             @@ (got[3] :> (0 :> link(got[4], KERNEL)))
             @@ (got[4] :> (0 :> link(got[5], KERNEL)))
             @@ mem
      /\ UNCHANGED <<vars, acpi, kernel_pml4, kernel_pdpt, apic, enabled, fault>>
  BY Zenon DEF create_address_space, inherit_kernel_pdpt
<1>3. pc \in 8 .. THREADS + 8 /\ Len(got) = 5
  BY <1>1, <1>2, CallAt, Moves, Needed, Zenon DEF Placed
<1>4. pc # 1 /\ pc > 7
  BY <1>3, BootOrder
<1>5. /\ Layout(mem, kernel_pml4, kernel_pdpt, spaces, own_frames)
      /\ got \in Seq(Nat) /\ IsInjective(got)
      /\ Range(got) \cap InUse(mem, kernel_pml4, kernel_pdpt, spaces, own_frames) = {}
  BY <1>1, <1>4, Zenon DEF Laid, Fresh, in_use
<1>6. Joins(mem, kernel_pdpt, mem', s, got)
  BY <1>2, <1>3, <1>5, ThreadJoins, Zenon
<1> HIDE DEF s
<1>7. QED
  BY <1>2, <1>4, <1>6, JoinStep, Zenon

(* create_user_process.                                                    *)
LEMMA UserStep ==
  ASSUME FInv, PInv, create_user_process
  PROVE  PInv'
<1>1. Placed /\ Laid /\ Fresh
  BY Zenon DEF PInv
<1> DEFINE s == [cr3 |-> got[1], ring3 |-> TRUE]
<1>2. /\ Call("create_user_process") /\ spaces' = spaces \union {s}
      /\ mem' = UserDone(mem, got, mem[kernel_pdpt])
      /\ UNCHANGED <<vars, acpi, kernel_pml4, kernel_pdpt, apic, enabled, fault>>
  BY Zenon DEF create_user_process, inherit_kernel_pdpt, UserDone
<1>3. pc = THREADS + 9 /\ Len(got) = 5 + mmio_frames(USER_CODE_VA)
  BY <1>1, <1>2, CallAt, Moves, Needed, Zenon DEF Placed
<1>4. pc # 1 /\ pc > 7
  BY <1>3, BootOrder
<1>5. /\ Layout(mem, kernel_pml4, kernel_pdpt, spaces, own_frames)
      /\ got \in Seq(Nat) /\ IsInjective(got)
      /\ Range(got) \cap InUse(mem, kernel_pml4, kernel_pdpt, spaces, own_frames) = {}
  BY <1>1, <1>4, Zenon DEF Laid, Fresh, in_use
<1>6. Len(got) = 6
  <2>1. 1 \notin DOMAIN mem[kernel_pdpt]
    BY <1>5, Zenon DEF Layout, KernelTables
  <2>2. pdpt_idx(USER_CODE_VA) = 1
    BY UserIndices, Zenon
  <2>3. mmio_frames(USER_CODE_VA) = 1
    BY <2>1, <2>2, Zenon DEF mmio_frames
  <2>4. QED
    BY <1>3, <2>3
<1>7. Joins(mem, kernel_pdpt, mem', s, got)
  BY <1>2, <1>5, <1>6, UserJoins, Zenon
<1> HIDE DEF s
<1>8. QED
  BY <1>2, <1>4, <1>7, JoinStep, Zenon

(* Every step of the boot keeps the invariant.                             *)
LEMMA PInvNext ==
  ASSUME FInv, PInv, [PagingNext]_allVars
  PROVE  PInv'
<1>1. CASE UNCHANGED allVars
  <2>1. /\ UNCHANGED vars
        /\ UNCHANGED <<acpi, pc, got, mem, kernel_pml4, kernel_pdpt, apic, spaces, enabled, fault>>
    BY <1>1, Zenon DEF allVars, pagingVars, bootVars, tableVars
  <2>2. UNCHANGED <<fw, handed, next_frame, halted>>
    BY <2>1, Zenon DEF vars, parseVars
  <2>3. Placed' /\ Laid' /\ Entered' /\ MappedBeforeUse'
    BY <2>1, <2>2, Zenon DEF PInv, Placed, Laid, Entered, MappedBeforeUse, Booted, own_frames,
                             Slot, Alive
  <2>4. in_use' = in_use /\ taken' = taken
    BY <2>1, <2>2, TablesSame, Zenon DEF taken, pool_frame
  <2>5. Fresh'
    BY <2>1, <2>4, Zenon DEF PInv, Fresh
  <2>6. QED
    BY <2>3, <2>5, Zenon DEF PInv
<1>2. CASE uefi_main \/ alloc_frame
  BY <1>2, UefiStep, AllocStep, Zenon
<1>3. CASE paging_init_kernel_map \/ read_acpi
  BY <1>3, InitMapStep, AcpiStep, Zenon
<1>4. CASE lapic_enable \/ ioapic_write \/ apic_timer_init
  BY <1>4, DevicesStep, TimerStep, Zenon
<1>5. CASE parse_map \/ activate_map
  BY <1>5, MapStep, Zenon
<1>6. CASE create_address_space \/ create_user_process
  BY <1>6, ThreadStep, UserStep, Zenon
<1>7. CASE smp_start_aps \/ ap_entry64 \/ lapic_send_eoi
  BY <1>7, SmpStep, ApStep, EoiStep, Zenon
<1>8. QED
  BY <1>1, <1>2, <1>3, <1>4, <1>5, <1>6, <1>7, Zenon DEF PagingNext

(* The two invariants together are inductive.                              *)
LEMMA Inductive == PagingSpec => [](FInv /\ PInv)
<1>1. PagingInit => FInv /\ PInv
  BY FInvInit, PInvInit, Zenon DEF PagingInit
<1>2. FInv /\ PInv /\ [PagingNext]_allVars => (FInv /\ PInv)'
  BY BootStep, FInvNext, PInvNext, Zenon
<1>3. QED
  BY <1>1, <1>2, PTL DEF PagingSpec

(* The boot, the start of the APs and every interrupt touch only mapped    *)
(* addresses, but for the cases MappedBeforeUse names; wherever the        *)
(* firmware puts its tables and the devices.                               *)
THEOREM DevicesMapped == PagingSpec => []MappedBeforeUse
<1>1. PInv => MappedBeforeUse
  BY Zenon DEF PInv
<1>2. QED
  BY <1>1, Inductive, PTL
-----------------------------------------------------------------------------
(* An AP that maps its local APIC again writes the entry that is there.    *)
LEMMA SameEntry ==
  ASSUME NEW pa, Laid, pc # 1, Slot(pa, {mmio(pa)})
  PROVE  paging_map_mmio_2mb(pa) = mem
(* Writing an entry of a table of large pages once more changes nothing.   *)
<1>PutAgain.
  ASSUME NEW m, IsTable(m), NEW t \in DOMAIN m, LargePages(m[t]), NEW j \in DOMAIN m[t],
         NEW e, m[t][j] = e
  PROVE  put(m, t, j, e) = m
  <2> USE <1>PutAgain
  <2>1. m = [x \in DOMAIN m |-> m[x]] /\ m[t] = [y \in DOMAIN m[t] |-> m[t][y]]
    BY Zenon DEF IsTable, LargePages
  <2>2. QED
    BY <2>1, PutSame
<1> DEFINE i == pdpt_idx(pa)
           j == pd_idx(pa)
           t == mem[kernel_pdpt][i].to
<1>1. i \in DOMAIN mem[kernel_pdpt] /\ j \in DOMAIN mem[t] /\ mem[t][j] = mmio(pa)
  BY Zenon DEF Slot
<1>2. paging_map_mmio_2mb(pa) = put(mem, t, j, mmio(pa))
  BY <1>1, Zenon DEF paging_map_mmio_2mb, mmio
<1>3. IsTable(mem) /\ KernelTables(mem, kernel_pml4, kernel_pdpt)
  BY Zenon DEF Laid, Layout, IsTable
<1>4. t \in DOMAIN mem /\ LargePages(mem[t])
  BY <1>1, <1>3, KernelFacts, Zenon
<1> HIDE DEF t, j, i
<1>5. put(mem, t, j, mmio(pa)) = mem
  BY <1>1, <1>3, <1>4, <1>PutAgain, Zenon
<1>6. QED
  BY <1>2, <1>5, Zenon

(* With an AP up no step takes a frame or changes a table.                 *)
LEMMA OneAllocatorStep ==
  ASSUME FInv, PInv, [PagingNext]_allVars, enabled > 0
  PROVE  UNCHANGED <<next_frame, handed, search, mem>>
<1>1. Placed /\ Laid /\ Entered
  BY Zenon DEF PInv
<1>2. Booted /\ pc # 1
  <2>1. Booted
    BY <1>1, Zenon DEF Placed
  <2>2. QED
    BY <1>1, <2>1, BootOrder DEF Placed, Booted
<1>3. \A name : ~At(name) /\ ~Call(name)
  BY <1>2, Zenon DEF At, Call
<1>4. CASE UNCHANGED allVars
  BY <1>4, Zenon DEF allVars, pagingVars, tableVars, vars
<1>5. CASE uefi_main
  BY <1>5, Zenon DEF uefi_main, memmap_parse_uefi, parse_entry, parse_end, pagingVars, tableVars
<1>6. CASE ap_entry64
  <2>1. Slot(apic.lapic, {mmio(apic.lapic)})
    BY <1>1, <1>6, Zenon DEF Entered, ap_entry64
  <2>2. mem' = mem
    BY <1>1, <1>2, <1>6, <2>1, SameEntry, Zenon DEF ap_entry64
  <2>3. UNCHANGED vars
    BY <1>6, Zenon DEF ap_entry64
  <2>4. QED
    BY <2>2, <2>3, Zenon DEF vars
<1>7. CASE lapic_send_eoi
  BY <1>7, Zenon DEF lapic_send_eoi, tableVars, vars
<1>8. ~alloc_frame
  BY <1>2, Zenon DEF alloc_frame
<1>9. /\ ~paging_init_kernel_map /\ ~read_acpi /\ ~lapic_enable /\ ~ioapic_write
      /\ ~apic_timer_init /\ ~parse_map /\ ~activate_map /\ ~create_address_space
      /\ ~create_user_process /\ ~smp_start_aps
  BY <1>3, Zenon DEF paging_init_kernel_map, read_acpi, lapic_enable, ioapic_write,
       apic_timer_init, parse_map, activate_map, create_address_space, create_user_process,
       smp_start_aps
<1>10. QED
  BY <1>4, <1>5, <1>6, <1>7, <1>8, <1>9, Zenon DEF PagingNext

(* Once a second CPU runs, no frame is handed out and no page table        *)
(* changes, so that neither alloc_frame nor paging_map_mmio_2mb needs the  *)
(* lock it does not take.                                                  *)
THEOREM OneAllocator == PagingSpec => OnlyBspAllocates
<1>1. FInv /\ PInv /\ [PagingNext]_allVars =>
        [enabled > 0 => UNCHANGED <<next_frame, handed, search, mem>>]_allVars
  BY OneAllocatorStep, Zenon
<1>2. QED
  BY <1>1, Inductive, PTL DEF PagingSpec, OnlyBspAllocates
-----------------------------------------------------------------------------
(* A page outside the second GB is one of another entry of the PDPT.       *)
LEMMA PageIndex ==
  ASSUME NEW va \in Pages
  PROVE  va \in Nat /\ pdpt_idx(va) = va \div GB
<1>1. /\ PAGE \in Nat \ {0} /\ ENTRIES \in Nat /\ ENTRIES >= 4 /\ LARGE \in Nat \ {0}
      /\ GB \in Nat \ {0} /\ LARGE = PAGE * ENTRIES /\ GB = LARGE * ENTRIES
  BY Sizes, Zenon
<1>2. va \in Nat /\ va < 4 * GB
  <2>1. CASE va \in {i * LARGE : i \in 0 .. 4 * ENTRIES - 1}
    <3>1. PICK i \in 0 .. 4 * ENTRIES - 1 : va = i * LARGE
      BY <2>1, Zenon
    <3>2. i \in Nat /\ i < 4 * ENTRIES
      BY <1>1, <3>1
    <3>3. i * LARGE < (4 * ENTRIES) * LARGE
      BY <1>1, <3>2
    <3>4. (4 * ENTRIES) * LARGE = 4 * GB
      BY <1>1
    <3>5. QED
      BY <1>1, <3>1, <3>2, <3>3, <3>4
  <2>2. CASE va \in {GB + i * PAGE : i \in 0 .. ENTRIES * ENTRIES - 1}
    <3>1. PICK i \in 0 .. ENTRIES * ENTRIES - 1 : va = GB + i * PAGE
      BY <2>2, Zenon
    <3> DEFINE n == ENTRIES * ENTRIES
    <3>2. n \in Nat /\ n * PAGE = GB
      BY <1>1
    <3>3. i \in 0 .. n - 1
      BY <3>1, Zenon
    <3> HIDE DEF n
    <3>4. i \in Nat /\ i < n
      BY <3>2, <3>3
    <3>5. i * PAGE < n * PAGE /\ i * PAGE \in Nat
      BY <1>1, <3>2, <3>4
    <3> DEFINE b == i * PAGE
    <3>6. b \in Nat /\ b < GB /\ va = GB + b
      BY <3>1, <3>2, <3>5, Zenon
    <3> HIDE DEF b
    <3>7. QED
      BY <1>1, <3>6
  <2>3. QED
    BY <2>1, <2>2, Zenon DEF Pages
<1> DEFINE d == va \div GB
<1>3. d \in Nat /\ d < 4
  <2>1. va = GB * d + (va % GB) /\ d \in Nat /\ va % GB \in Nat
    BY <1>1, <1>2
  <2> HIDE DEF d
  <2>2. ~(d >= 4)
    <3>1. SUFFICES ASSUME d >= 4 PROVE FALSE
      BY Zenon
    <3>2. GB * d >= GB * 4
      BY <1>1, <2>1, <3>1
    <3>3. QED
      BY <1>1, <1>2, <2>1, <3>2
  <2>3. QED
    BY <2>1, <2>2
<1> HIDE DEF d
<1>4. d % ENTRIES = d
  BY <1>1, <1>3
<1>5. QED
  BY <1>2, <1>4, Zenon DEF d, pdpt_idx

(* What the invariant says of kernel addresses in an address space.        *)
LEMMA SeenFromInv == FInv /\ PInv => KernelVisible
<1> SUFFICES ASSUME FInv, PInv, NEW s \in spaces, NEW va \in Pages, va \div GB # 1
             PROVE  Walk(mem, s.cr3, va) = [Walk(mem, kernel_pml4, va) EXCEPT !.user = FALSE]
  BY Zenon DEF KernelVisible
<1>1. Placed /\ Laid /\ Fresh
  BY Zenon DEF PInv
<1>2. pc # 1
  <2>1. ~(pc < 9)
    BY <1>1, Zenon DEF Placed
  <2>2. QED
    BY <2>1
<1>3. Layout(mem, kernel_pml4, kernel_pdpt, spaces, own_frames)
  BY <1>1, <1>2, Zenon DEF Laid
<1>4. KernelTables(mem, kernel_pml4, kernel_pdpt) /\ -1 \notin DOMAIN mem
  BY <1>1, <1>2, <1>3, TablesTaken, Zenon DEF Layout
<1>5. pdpt_idx(va) # 1
  BY PageIndex, Zenon
<1>6. /\ Through(mem, s.cr3, kernel_pdpt, pdpt_idx(va))
      /\ Through(mem, kernel_pml4, kernel_pdpt, pdpt_idx(va))
  BY <1>3, <1>4, <1>5, SpaceThrough, KernelThrough, Zenon
<1>7. /\ Walk(mem, s.cr3, va) = KWalk(mem, kernel_pdpt, va)
      /\ Walk(mem, kernel_pml4, va) = KWalk(mem, kernel_pdpt, va)
  BY <1>4, <1>6, KernelWalk, Zenon
<1>8. KWalk(mem, kernel_pdpt, va) = [KWalk(mem, kernel_pdpt, va) EXCEPT !.user = FALSE]
  <2>1. ASSUME NEW x, NEW u PROVE [[to |-> x, user |-> u] EXCEPT !.user = u] = [to |-> x, user |-> u]
    OBVIOUS
  <2>2. QED
    BY <2>1, Zenon DEF KWalk
<1>9. QED
  BY <1>7, <1>8, Zenon

(* Every address space has, at every moment of the boot and after it,      *)
(* every translation of the kernel, closed to ring 3, though each copies   *)
(* the kernel PDPT once and never looks again.                             *)
THEOREM KernelInAll == PagingSpec => []KernelVisible
BY SeenFromInv, Inductive, PTL
-----------------------------------------------------------------------------
(* What the tables of an address space hold, entry by entry.               *)
Copied(m, k3, t, e) ==
  /\ DOMAIN m[t] = {1} \union DOMAIN m[k3] /\ m[t][1] = e
  /\ \A j \in DOMAIN m[k3] \ {1} : m[t][j] = m[k3][j]
OneEntry(m, t, i, e) == DOMAIN m[t] = {i} /\ m[t][i] = e
TwoEntries(m, t, e, f) == DOMAIN m[t] = {0, 1} /\ m[t][0] = e /\ m[t][1] = f
UserEntries(m, k3, q) ==
  /\ OneEntry(m, q[1], 0, link(q[2], USER)) /\ Copied(m, k3, q[2], link(q[5], USER))
  /\ OneEntry(m, q[5], pd_idx(USER_CODE_VA), link(q[6], USER))
  /\ TwoEntries(m, q[6], link(q[3], USER), link(q[4], USER))
ThreadEntries(m, k3, q) ==
  /\ OneEntry(m, q[1], 0, link(q[2], KERNEL)) /\ Copied(m, k3, q[2], link(q[3], KERNEL))
  /\ OneEntry(m, q[3], 0, link(q[4], KERNEL)) /\ OneEntry(m, q[4], 0, link(q[5], KERNEL))

(* The two kinds of address space.                                         *)
LEMMA SpaceEntries ==
  ASSUME NEW m, NEW k3, NEW s, NEW q, Space(m, k3, s, q)
  PROVE  IF s.ring3 THEN UserEntries(m, k3, q) ELSE ThreadEntries(m, k3, q)
(* A table given by its entries holds them.                                *)
<1>HoldsOne.
  ASSUME NEW m1, NEW t, NEW i, NEW e, m1[t] = (i :> e)
  PROVE  OneEntry(m1, t, i, e)
  <2> USE <1>HoldsOne
  <2>1. DOMAIN (i :> e) = {i} /\ (i :> e)[i] = e
    BY Single, Zenon
  <2>2. QED
    BY <2>1, Zenon DEF OneEntry
(* So does a copy of the kernel PDPT.                                      *)
<1>HoldsCopy.
  ASSUME NEW m1, NEW k31, NEW t, NEW e, m1[t] = (1 :> e) @@ m1[k31]
  PROVE  Copied(m1, k31, t, e)
  <2> USE <1>HoldsCopy
  <2> DEFINE g == m1[k31]
             h == (1 :> e) @@ g
  <2>1. h = [j \in {1} \union DOMAIN g |-> IF j = 1 THEN e ELSE g[j]]
    BY Zenon DEF :>, @@
  <2>2. m1[t] = h
    BY Zenon
  <2> HIDE DEF h, g
  <2>3. DOMAIN h = {1} \union DOMAIN g /\ h[1] = e /\ \A j \in DOMAIN g \ {1} : h[j] = g[j]
    BY <2>1, Zenon
  <2>4. QED
    BY <2>2, <2>3, Zenon DEF Copied, g
(* And the page table of ring 3.                                           *)
<1>HoldsTwo.
  ASSUME NEW m1, NEW u, NEW a, NEW b, m1[u] = (0 :> a) @@ (1 :> b)
  PROVE  TwoEntries(m1, u, a, b)
  <2> USE <1>HoldsTwo
  <2>1. DOMAIN (0 :> a) = {0} /\ (0 :> a)[0] = a /\ DOMAIN (1 :> b) = {1} /\ (1 :> b)[1] = b
    BY Single, Zenon
  <2> DEFINE f == 0 :> a
             g == 1 :> b
             t == m1[u]
  <2>2. /\ DOMAIN (f @@ g) = DOMAIN f \union DOMAIN g
        /\ \A x \in DOMAIN f : (f @@ g)[x] = f[x]
        /\ \A x \in DOMAIN g : x \notin DOMAIN f => (f @@ g)[x] = g[x]
    BY Merge, Zenon
  <2>3. t = f @@ g
    BY Zenon
  <2> HIDE DEF f, g, t
  <2>4. DOMAIN t = DOMAIN f \union DOMAIN g /\ (\A x \in DOMAIN f : t[x] = f[x])
        /\ \A x \in DOMAIN g : x \notin DOMAIN f => t[x] = g[x]
    BY <2>2, <2>3, Zenon
  <2>5. DOMAIN f = {0} /\ f[0] = a /\ DOMAIN g = {1} /\ g[1] = b
    BY <2>1, Zenon DEF f, g
  <2>6. DOMAIN t = {0, 1} /\ t[0] = a /\ t[1] = b
    BY <2>4, <2>5
  <2>7. QED
    BY <2>6, Zenon DEF t, TwoEntries
<1>1. CASE s.ring3
  <2>1. /\ m[q[1]] = (0 :> link(q[2], USER)) /\ m[q[2]] = (1 :> link(q[5], USER)) @@ m[k3]
        /\ m[q[5]] = (pd_idx(USER_CODE_VA) :> link(q[6], USER))
        /\ m[q[6]] = (0 :> link(q[3], USER)) @@ (1 :> link(q[4], USER))
    BY <1>1, Zenon DEF Space, UserSpace
  <2>2. TwoEntries(m, q[6], link(q[3], USER), link(q[4], USER))
    BY <2>1, <1>HoldsTwo, Zenon
  <2>3. UserEntries(m, k3, q)
    BY <2>1, <2>2, <1>HoldsOne, <1>HoldsCopy, Zenon DEF UserEntries
  <2>4. QED
    BY <1>1, <2>3, Zenon
<1>2. CASE ~s.ring3
  <2>1. /\ m[q[1]] = (0 :> link(q[2], KERNEL)) /\ m[q[2]] = (1 :> link(q[3], KERNEL)) @@ m[k3]
        /\ m[q[3]] = (0 :> link(q[4], KERNEL)) /\ m[q[4]] = (0 :> link(q[5], KERNEL))
    BY <1>2, Zenon DEF Space, ThreadSpace
  <2>2. ThreadEntries(m, k3, q)
    BY <2>1, <1>HoldsOne, <1>HoldsCopy, Zenon DEF ThreadEntries
  <2>3. QED
    BY <1>2, <2>2, Zenon
<1>3. QED
  BY <1>1, <1>2, Zenon

(* The pages of ring 3 are pages, and no other page has their indices.     *)
LEMMA UserVas ==
  /\ USER_CODE_VA \in Pages /\ USER_STACK_PAGE_VA \in Pages
  /\ \A va \in Pages :
       pdpt_idx(va) = 1 /\ pd_idx(va) = pd_idx(USER_CODE_VA) /\ pt_idx(va) \in {0, 1} =>
         va \in {USER_CODE_VA, USER_STACK_PAGE_VA}
(* A multiple of the page size is made of its three indices.               *)
<1>Decompose.
  ASSUME NEW a \in Nat, NEW va, va = a * PAGE
  PROVE  va = (va \div GB) * GB + pd_idx(va) * LARGE + pt_idx(va) * PAGE
  <2> USE <1>Decompose
  <2>1. /\ PAGE \in Nat \ {0} /\ ENTRIES \in Nat \ {0} /\ ENTRIES >= 4 /\ LARGE \in Nat \ {0}
        /\ GB \in Nat \ {0} /\ LARGE = PAGE * ENTRIES /\ GB = LARGE * ENTRIES
    BY Sizes
  <2> DEFINE k == a % ENTRIES
             d == a \div ENTRIES
             j == d % ENTRIES
             c == d \div ENTRIES
  <2>2. a = ENTRIES * d + k /\ d \in Nat /\ k \in Nat /\ k < ENTRIES
    BY <2>1
  <2>3. d = ENTRIES * c + j /\ c \in Nat /\ j \in Nat /\ j < ENTRIES
    BY <2>1, <2>2
  <2>4. va \div PAGE = a
    <3>1. (a * PAGE + 0) \div PAGE = a
      BY <2>1, DivMod
    <3>2. a * PAGE + 0 = va /\ va \in Nat
      BY <2>1
    <3>3. QED
      BY <3>1, <3>2, Zenon
  <2>5. pt_idx(va) = k
    BY <2>4, Zenon DEF pt_idx
  <2> HIDE DEF k, d, j, c
  <2> DEFINE r == k * PAGE
  <2>6. r \in Nat /\ r <= LARGE - PAGE /\ r < LARGE
    <3>1. k <= ENTRIES - 1 /\ ENTRIES - 1 \in Nat
      BY <2>1, <2>2
    <3>2. k * PAGE <= (ENTRIES - 1) * PAGE
      BY <2>1, <2>2, <3>1
    <3>3. (ENTRIES - 1) * PAGE = LARGE - PAGE
      BY <2>1
    <3>4. QED
      BY <2>1, <2>2, <3>2, <3>3
  <2>7. va = d * LARGE + r
    <3>1. (ENTRIES * d + k) * PAGE = d * (PAGE * ENTRIES) + k * PAGE
      BY <2>1, <2>2
    <3>2. QED
      BY <2>1, <2>2, <3>1, Zenon
  <2> HIDE DEF r
  <2>8. va \div LARGE = d
    BY <2>1, <2>2, <2>6, <2>7, DivMod, Zenon
  <2> DEFINE x == j * LARGE + r
  <2>9. x \in Nat /\ x < GB
    <3>1. j <= ENTRIES - 1 /\ ENTRIES - 1 \in Nat
      BY <2>1, <2>3
    <3>2. j * LARGE <= (ENTRIES - 1) * LARGE
      BY <2>1, <2>3, <3>1
    <3>3. (ENTRIES - 1) * LARGE = GB - LARGE
      BY <2>1
    <3> DEFINE y == j * LARGE
    <3>4. y \in Nat /\ y <= GB - LARGE
      BY <2>1, <2>3, <3>2, <3>3
    <3> HIDE DEF y
    <3>5. y + r \in Nat /\ y + r < GB
      BY <2>1, <2>6, <3>4
    <3>6. QED
      BY <3>5, Zenon DEF y
  <2>10. va = c * GB + x
    <3>1. (ENTRIES * c + j) * LARGE = c * (LARGE * ENTRIES) + j * LARGE
      BY <2>1, <2>3
    <3>2. va = c * GB + j * LARGE + r
      BY <2>1, <2>3, <2>7, <3>1, Zenon
    <3>3. c * GB \in Nat /\ j * LARGE \in Nat
      BY <2>1, <2>3
    <3>4. QED
      BY <2>6, <3>2, <3>3
  <2> HIDE DEF x
  <2>11. va \div GB = c
    BY <2>1, <2>3, <2>9, <2>10, DivMod, Zenon
  <2>12. pd_idx(va) = j
    BY <2>8, Zenon DEF pd_idx, j
  <2>13. c * GB \in Nat /\ j * LARGE \in Nat
    BY <2>1, <2>3
  <2>14. QED
    BY <2>5, <2>6, <2>10, <2>11, <2>12, <2>13 DEF r, x
<1> DEFINE e == ENTRIES \div 4
<1>1. /\ PAGE \in Nat \ {0} /\ ENTRIES \in Nat \ {0} /\ ENTRIES >= 4 /\ LARGE \in Nat \ {0}
      /\ GB \in Nat \ {0} /\ LARGE = PAGE * ENTRIES /\ GB = LARGE * ENTRIES
  BY Sizes
<1>2. e \in Nat /\ ENTRIES = 4 * e /\ e >= 1 /\ e < ENTRIES
  BY <1>1, PagingAssumption
<1>3. pd_idx(USER_CODE_VA) = e
  BY UserIndices, Zenon
<1> HIDE DEF e
<1>4. USER_CODE_VA = GB + LARGE * e /\ USER_STACK_PAGE_VA = GB + LARGE * e + PAGE
  <2>1. GB = 4 * (LARGE * e) /\ LARGE * e \in Nat
    BY <1>1, <1>2
  <2>2. GB \div 4 = LARGE * e
    BY <2>1
  <2>3. QED
    BY <2>2, Zenon DEF USER_CODE_VA, USER_STACK_PAGE_VA
<1>5. ASSUME NEW va \in Pages, pdpt_idx(va) = 1, pd_idx(va) = e, pt_idx(va) \in {0, 1}
      PROVE  va \in {USER_CODE_VA, USER_STACK_PAGE_VA}
  <2>1. va \div GB = 1
    BY <1>5, PageIndex, Zenon
  <2>2. PICK a \in Nat : va = a * PAGE
    <3>1. CASE va \in {i * LARGE : i \in 0 .. 4 * ENTRIES - 1}
      <4>1. PICK i \in 0 .. 4 * ENTRIES - 1 : va = i * LARGE
        BY <3>1, Zenon
      <4>2. i \in Nat
        BY <1>1, <4>1
      <4>3. i * LARGE = (i * ENTRIES) * PAGE /\ i * ENTRIES \in Nat
        BY <1>1, <4>2
      <4>4. QED
        BY <4>1, <4>3, Zenon
    <3>2. CASE va \in {GB + i * PAGE : i \in 0 .. ENTRIES * ENTRIES - 1}
      <4>1. PICK i \in 0 .. ENTRIES * ENTRIES - 1 : va = GB + i * PAGE
        BY <3>2, Zenon
      <4>2. i \in Nat
        BY <1>1, <4>1
      <4>3. GB + i * PAGE = (ENTRIES * ENTRIES + i) * PAGE /\ ENTRIES * ENTRIES + i \in Nat
        BY <1>1, <4>2
      <4>4. QED
        BY <4>1, <4>3, Zenon
    <3>3. QED
      BY <3>1, <3>2, <1>5, Zenon DEF Pages
  <2>3. va = 1 * GB + e * LARGE + pt_idx(va) * PAGE
    BY <1>5, <2>1, <2>2, <1>Decompose, Zenon
  <2>4. QED
    BY <1>1, <1>2, <1>4, <1>5, <2>3
<1>6. USER_CODE_VA \in Pages /\ USER_STACK_PAGE_VA \in Pages
  <2> DEFINE x == e * ENTRIES
             n == ENTRIES * ENTRIES
  <2>1. x \in Nat /\ n \in Nat /\ x + 1 < n
    <3>1. e <= ENTRIES - 1 /\ ENTRIES - 1 \in Nat
      BY <1>1, <1>2
    <3>2. e * ENTRIES <= (ENTRIES - 1) * ENTRIES
      BY <1>1, <1>2, <3>1
    <3>3. (ENTRIES - 1) * ENTRIES = ENTRIES * ENTRIES - ENTRIES
      BY <1>1
    <3>4. x \in Nat /\ n \in Nat
      BY <1>1, <1>2
    <3>5. QED
      BY <1>1, <3>2, <3>3, <3>4
  <2>2. LARGE * e = x * PAGE /\ LARGE * e + PAGE = (x + 1) * PAGE
    BY <1>1, <1>2
  <2>3. x \in 0 .. n - 1 /\ x + 1 \in 0 .. n - 1
    <3> HIDE DEF x, n
    <3>1. QED
      BY <2>1
  <2>4. USER_CODE_VA = GB + x * PAGE /\ USER_STACK_PAGE_VA = GB + (x + 1) * PAGE
    <3>1. LARGE * e \in Nat
      BY <1>1, <1>2
    <3>2. QED
      BY <1>1, <1>4, <2>2, <3>1
  <2> HIDE DEF x
  <2>5. QED
    BY <2>3, <2>4, Zenon DEF Pages
<1>7. QED
  BY <1>3, <1>5, <1>6, Zenon

(* And so in every one.                                                    *)
LEMMA ReachFromInv == FInv /\ PInv => UserReach
(* What the invariant says of ring 3 in one address space.                 *)
<1>ReachOne.
  ASSUME FInv, PInv, NEW s \in spaces, NEW va \in Pages
  PROVE  (Walk(mem, s.cr3, va).to # -1 /\ Walk(mem, s.cr3, va).user) <=>
           s.ring3 /\ va \in {USER_CODE_VA, USER_STACK_PAGE_VA}
  <2> USE <1>ReachOne
  (* Nothing of a thread's own address space is open to ring 3: its PML4     *)
  (* entry is not.                                                           *)
  <2>ThreadClosed.
    ASSUME NEW m, NEW k3, NEW q, q[1] \in DOMAIN m, ThreadEntries(m, k3, q), NEW va1
    PROVE  Walk(m, q[1], va1).user = FALSE
    <3> USE <2>ThreadClosed
    <3> DEFINE e4 == EntryAt(m, q[1], 0)
               e3 == EntryAt(m, e4.to, pdpt_idx(va1))
               e2 == EntryAt(m, e3.to, pd_idx(va1))
               e1 == IF "PS" \in e2.flags THEN e2 ELSE EntryAt(m, e2.to, pt_idx(va1))
    <3>1. Walk(m, q[1], va1) = WalkOf(e1, e2, e3, e4, va1)
      BY WalkIs, Zenon
    <3>2. DOMAIN m[q[1]] = {0} /\ m[q[1]][0] = link(q[2], KERNEL)
      BY Zenon DEF ThreadEntries, OneEntry
    <3>3. e4 = link(q[2], KERNEL)
      BY <3>2, Zenon DEF EntryAt
    <3>4. "U" \notin e4.flags
      <4>1. link(q[2], KERNEL).flags = KERNEL
        BY Zenon DEF link
      <4>2. "U" \notin KERNEL
        BY Zenon DEF KERNEL
      <4>3. QED
        BY <3>3, <4>1, <4>2, Zenon
    <3> HIDE DEF e1, e2, e3, e4
    <3>5. (\A e \in {e1, e2, e3, e4} : "U" \in e.flags) = FALSE
      BY <3>4, Zenon
    <3>6. WalkOf(e1, e2, e3, e4, va1).user = FALSE
      BY <3>5, Zenon DEF WalkOf
    <3>7. QED
      BY <3>1, <3>6, Zenon
  (* In the second GB ring 3 has its code page and its stack page.           *)
  <2>UserWalk.
    ASSUME NEW m, -1 \notin DOMAIN m, NEW k3, NEW q, {q[1], q[2], q[5], q[6]} \subseteq DOMAIN m,
           UserEntries(m, k3, q), NEW va1, pdpt_idx(va1) = 1
    PROVE  Walk(m, q[1], va1) =
             IF pd_idx(va1) = pd_idx(USER_CODE_VA) /\ pt_idx(va1) \in {0, 1}
               THEN [to |-> (IF pt_idx(va1) = 0 THEN q[3] ELSE q[4]) + (va1 % PAGE), user |-> TRUE]
               ELSE [to |-> -1, user |-> FALSE]
    <3> USE <2>UserWalk
    <3> DEFINE j == pd_idx(va1)
               k == pt_idx(va1)
               pi == pd_idx(USER_CODE_VA)
               e4 == EntryAt(m, q[1], 0)
               e3 == EntryAt(m, e4.to, pdpt_idx(va1))
               e2 == EntryAt(m, e3.to, j)
               e1 == IF "PS" \in e2.flags THEN e2 ELSE EntryAt(m, e2.to, k)
    <3>1. Walk(m, q[1], va1) = WalkOf(e1, e2, e3, e4, va1)
      BY WalkIs, Zenon
    <3>2. \A f : link(f, USER).to = f /\ link(f, USER).flags = USER
      BY Zenon DEF link
    <3>3. "U" \in USER /\ "PS" \notin USER
      BY Zenon DEF USER
    <3>4. ABSENT.to = -1 /\ ABSENT.flags = {} /\ "PS" \notin {} /\ "U" \notin {}
      BY Zenon DEF ABSENT
    <3>5. q[1] \in DOMAIN m /\ q[2] \in DOMAIN m /\ q[5] \in DOMAIN m /\ q[6] \in DOMAIN m
      BY Zenon
    <3>6. e4 = link(q[2], USER) /\ e4.to = q[2]
      <4>1. 0 \in DOMAIN m[q[1]] /\ m[q[1]][0] = link(q[2], USER)
        BY Zenon DEF UserEntries, OneEntry
      <4>2. QED
        BY <3>2, <3>5, <4>1, Zenon DEF EntryAt
    <3>7. e3 = link(q[5], USER) /\ e3.to = q[5]
      <4>1. 1 \in DOMAIN m[q[2]] /\ m[q[2]][1] = link(q[5], USER)
        BY Zenon DEF UserEntries, Copied
      <4>2. QED
        BY <3>2, <3>5, <3>6, <4>1, ZenonT(30) DEF EntryAt
    <3>8. DOMAIN m[q[5]] = {pi} /\ m[q[5]][pi] = link(q[6], USER)
      BY Zenon DEF UserEntries, OneEntry
    <3>9. DOMAIN m[q[6]] = {0, 1} /\ m[q[6]][0] = link(q[3], USER) /\ m[q[6]][1] = link(q[4], USER)
      BY Zenon DEF UserEntries, TwoEntries
    <3>10. ASSUME e1 = ABSENT PROVE WalkOf(e1, e2, e3, e4, va1) = [to |-> -1, user |-> FALSE]
      <4> HIDE DEF e1, e2, e3, e4
      <4>1. (\A e \in {e1, e2, e3, e4} : "U" \in e.flags) = FALSE
        BY <3>4, <3>10, Zenon
      <4>2. (IF e1 = ABSENT \/ ("PS" \in e2.flags /\ e2.to % LARGE \notin {0, PAGE}) THEN -1
             ELSE IF "PS" \in e2.flags THEN (e2.to - (e2.to % LARGE)) + (va1 % LARGE)
             ELSE e1.to + (va1 % PAGE)) = -1
        BY <3>10, Zenon
      <4>3. QED
        BY <4>1, <4>2, Zenon DEF WalkOf
    <3>11. ASSUME j = pi PROVE e2 = link(q[6], USER) /\ e2.to = q[6] /\ "PS" \notin e2.flags
      <4>1. j \in DOMAIN m[q[5]] /\ m[q[5]][j] = link(q[6], USER)
        BY <3>8, <3>11, Zenon
      <4>2. e2 = EntryAt(m, q[5], j)
        BY <3>7, Zenon
      <4> HIDE DEF e2, e1
      <4>3. e2 = link(q[6], USER)
        BY <3>5, <4>1, <4>2, Zenon DEF EntryAt
      <4>4. QED
        BY <3>2, <3>3, <4>3, Zenon
    <3>12. CASE j = pi /\ k \in {0, 1}
      <4> DEFINE f == IF k = 0 THEN q[3] ELSE q[4]
      <4>1. e2 = link(q[6], USER) /\ e2.to = q[6] /\ "PS" \notin e2.flags
        BY <3>11, <3>12, Zenon
      <4>2. e1 = link(f, USER)
        <5>1. e1 = EntryAt(m, q[6], k)
          BY <4>1, Zenon
        <5>2. k \in DOMAIN m[q[6]]
          BY <3>9, <3>12, ZenonT(30)
        <5>3. m[q[6]][k] = link(f, USER)
          BY <3>9, <3>12, Zenon
        <5>4. QED
          BY <3>5, <5>1, <5>2, <5>3, Zenon DEF EntryAt
      <4> HIDE DEF e1, e2, e3, e4, f
      <4>3. e1.to = f /\ "U" \in e1.flags /\ "U" \in e2.flags /\ "U" \in e3.flags /\ "U" \in e4.flags
        BY <3>2, <3>3, <3>6, <3>7, <4>1, <4>2, Zenon
      <4>4. e1 # ABSENT
        BY <3>4, <4>3, Zenon
      <4>5. (\A e \in {e1, e2, e3, e4} : "U" \in e.flags) = TRUE
        BY <4>3, Zenon
      <4>6. (IF e1 = ABSENT \/ ("PS" \in e2.flags /\ e2.to % LARGE \notin {0, PAGE}) THEN -1
             ELSE IF "PS" \in e2.flags THEN (e2.to - (e2.to % LARGE)) + (va1 % LARGE)
             ELSE e1.to + (va1 % PAGE)) = f + (va1 % PAGE)
        BY <4>1, <4>3, <4>4, Zenon
      <4>7. WalkOf(e1, e2, e3, e4, va1) = [to |-> f + (va1 % PAGE), user |-> TRUE]
        BY <4>5, <4>6, Zenon DEF WalkOf
      <4>8. QED
        BY <3>1, <3>12, <4>7, Zenon DEF f
    <3>13. CASE ~(j = pi /\ k \in {0, 1})
      <4>1. e1 = ABSENT
        <5>1. CASE j = pi
          <6>1. e2.to = q[6] /\ "PS" \notin e2.flags
            BY <3>11, <5>1, Zenon
          <6>2. k \notin DOMAIN m[q[6]]
            BY <3>9, <3>13, <5>1, Zenon
          <6>3. QED
            BY <6>1, <6>2, Zenon DEF EntryAt
        <5>2. CASE j # pi
          <6>1. j \notin DOMAIN m[q[5]]
            BY <3>8, <5>2, Zenon
          <6>2. e2 = ABSENT
            BY <3>7, <6>1, Zenon DEF EntryAt
          <6>3. e2.to = -1 /\ "PS" \notin e2.flags
            BY <3>4, <6>2, Zenon
          <6>4. QED
            BY <6>3, Zenon DEF EntryAt
        <5>3. QED
          BY <5>1, <5>2, Zenon
      <4>2. QED
        BY <3>1, <3>10, <3>13, <4>1, ZenonT(30)
    <3>14. QED
      BY <3>12, <3>13, Zenon
  <2> DEFINE m == mem
             k3 == kernel_pdpt
             q == own_frames[s]
             W == Walk(mem, s.cr3, va)
  <2>1. Placed /\ Laid /\ Fresh
    BY Zenon DEF PInv
  <2>2. pc # 1
    <3>1. ~(pc < 9)
      BY <2>1, Zenon DEF Placed
    <3>2. QED
      BY <3>1
  <2>3. Layout(mem, kernel_pml4, kernel_pdpt, spaces, own_frames)
    BY <2>1, <2>2, Zenon DEF Laid
  <2>4. KernelTables(mem, kernel_pml4, kernel_pdpt) /\ -1 \notin DOMAIN mem
    BY <2>1, <2>2, <2>3, TablesTaken, Zenon DEF Layout
  <2>5. q \in Seq(Nat) /\ Space(m, k3, s, q) /\ s.cr3 = q[1] /\ SpaceTables(s, q) \subseteq DOMAIN m
    <3>1. q \in Seq(Nat) /\ Space(m, k3, s, q) /\ SpaceTables(s, q) \subseteq DOMAIN m
      BY <2>3, LayoutSpaces, Zenon
    <3>2. Rooted(s, q)
      BY <2>3, SpaceRoot, Zenon
    <3>3. QED
      BY <3>1, <3>2, Zenon DEF Rooted
  <2>6. IF s.ring3 THEN UserEntries(m, k3, q) ELSE ThreadEntries(m, k3, q)
    BY <2>5, SpaceEntries, Zenon
  <2>7. CASE ~s.ring3
    <3>1. q[1] \in DOMAIN m
      BY <2>5, <2>7, Zenon DEF SpaceTables
    <3>2. W.user = FALSE
      <4>1. ThreadEntries(m, k3, q)
        BY <2>6, <2>7, Zenon
      <4>2. Walk(m, q[1], va).user = FALSE
        BY <3>1, <4>1, <2>ThreadClosed, Zenon
      <4>3. QED
        BY <2>5, <4>2, Zenon
    <3>3. QED
      BY <2>7, <3>2, Zenon
  <2>8. CASE s.ring3 /\ pdpt_idx(va) # 1
    <3>1. Through(m, s.cr3, k3, pdpt_idx(va))
      BY <2>3, <2>8, SpaceThrough, Zenon
    <3>2. W = KWalk(m, k3, va)
      BY <2>4, <3>1, KernelWalk, Zenon
    <3>3. KWalk(m, k3, va).user = FALSE
      BY Zenon DEF KWalk
    <3>4. va \notin {USER_CODE_VA, USER_STACK_PAGE_VA}
      BY <2>8, UserIndices, Zenon
    <3>5. QED
      BY <3>2, <3>3, <3>4, Zenon
  <2>9. CASE s.ring3 /\ pdpt_idx(va) = 1
    <3> DEFINE j == pd_idx(va)
               k == pt_idx(va)
               pi == pd_idx(USER_CODE_VA)
               f == IF k = 0 THEN q[3] ELSE q[4]
    <3>1. {q[1], q[2], q[5], q[6]} \subseteq DOMAIN m
      BY <2>5, <2>9, Zenon DEF SpaceTables
    <3>2. UserEntries(m, k3, q)
      BY <2>6, <2>9, Zenon
    <3>3. Walk(m, q[1], va) =
             IF pd_idx(va) = pd_idx(USER_CODE_VA) /\ pt_idx(va) \in {0, 1}
               THEN [to |-> (IF pt_idx(va) = 0 THEN q[3] ELSE q[4]) + (va % PAGE), user |-> TRUE]
               ELSE [to |-> -1, user |-> FALSE]
      BY <2>4, <2>9, <3>1, <3>2, <2>UserWalk, Zenon
    <3>4. q[3] \in Nat /\ q[4] \in Nat
      <4>1. Len(q) = 6
        BY <2>5, <2>9, Zenon DEF Space, UserSpace
      <4> HIDE DEF q
      <4>2. 3 \in DOMAIN q /\ 4 \in DOMAIN q
        BY <2>5, <4>1
      <4>3. \A x \in DOMAIN q : q[x] \in Nat
        BY <2>5
      <4>4. QED
        BY <4>2, <4>3, Zenon
    <3>5. va % PAGE \in Nat
      BY PageIndex, Sizes
    <3>6. CASE j = pi /\ k \in {0, 1}
      <4>1. W = [to |-> f + (va % PAGE), user |-> TRUE]
        BY <2>5, <3>3, <3>6, Zenon
      <4>2. f \in Nat
        BY <3>4, Zenon
      <4> DEFINE x == va % PAGE
      <4> HIDE DEF f, x
      <4>3. f + x # -1
        BY <3>5, <4>2 DEF x
      <4>4. va \in {USER_CODE_VA, USER_STACK_PAGE_VA}
        BY <2>9, <3>6, UserVas, Zenon
      <4>5. W.to # -1 /\ W.user = TRUE
        <5>1. \A y : [to |-> y, user |-> TRUE].to = y /\ [to |-> y, user |-> TRUE].user = TRUE
          BY Zenon
        <5> HIDE DEF W
        <5>2. W.to = f + x /\ W.user = TRUE
          BY <4>1, <5>1, Zenon DEF x
        <5>3. QED
          BY <4>3, <5>2, Zenon
      <4>6. QED
        BY <2>9, <4>4, <4>5, Zenon
    <3>7. CASE ~(j = pi /\ k \in {0, 1})
      <4>1. W = [to |-> -1, user |-> FALSE]
        BY <2>5, <3>3, <3>7, Zenon
      <4>2. va \notin {USER_CODE_VA, USER_STACK_PAGE_VA}
        BY <3>7, UserIndices, Zenon
      <4>3. [to |-> -1, user |-> FALSE].user = FALSE
        BY Zenon
      <4>4. W.user = FALSE
        BY <4>1, <4>3, Zenon
      <4>5. QED
        BY <4>2, <4>4, Zenon
    <3>8. QED
      BY <3>6, <3>7, Zenon
  <2>10. QED
    BY <2>7, <2>8, <2>9, Zenon
<1> SUFFICES ASSUME FInv, PInv, NEW s \in spaces
             PROVE  {va \in Pages : Walk(mem, s.cr3, va).to # -1 /\ Walk(mem, s.cr3, va).user} =
                      IF s.ring3 THEN {USER_CODE_VA, USER_STACK_PAGE_VA} ELSE {}
  BY Zenon DEF UserReach
<1> DEFINE P(va) == Walk(mem, s.cr3, va).to # -1 /\ Walk(mem, s.cr3, va).user
<1>1. \A va \in Pages : P(va) <=> s.ring3 /\ va \in {USER_CODE_VA, USER_STACK_PAGE_VA}
  BY <1>ReachOne, Zenon
<1>2. USER_CODE_VA \in Pages /\ USER_STACK_PAGE_VA \in Pages
  BY UserVas, Zenon
<1> HIDE DEF P
<1>3. {va \in Pages : P(va)} = IF s.ring3 THEN {USER_CODE_VA, USER_STACK_PAGE_VA} ELSE {}
  BY <1>1, <1>2, Zenon
<1>4. QED
  BY <1>3, Zenon DEF P

(* At every moment of the boot and after it, ring 3 reaches its code page  *)
(* and its stack page and nothing else, and only in its own address space. *)
THEOREM Ring3Reaches == PagingSpec => []UserReach
BY ReachFromInv, Inductive, PTL
-----------------------------------------------------------------------------
(* The entries of the page tables that point to a frame of their own, and  *)
(* what they point to.                                                     *)
Refs(m) ==
  UNION {{<<t, i>> : i \in {j \in DOMAIN m[t] : "PS" \notin m[t][j].flags}} : t \in DOMAIN m}
To(m, r) == m[r[1]][r[2]].to
(* The entry that points to the n-th frame of address space s.             *)
Ref(s, q, n) ==
  IF n = 2 THEN <<q[1], 0>>
  ELSE IF s.ring3
    THEN IF n = 5 THEN <<q[2], 1>> ELSE IF n = 6 THEN <<q[5], pd_idx(USER_CODE_VA)>>
         ELSE IF n = 3 THEN <<q[6], 0>> ELSE <<q[6], 1>>
    ELSE IF n = 3 THEN <<q[2], 1>> ELSE IF n = 4 THEN <<q[3], 0>> ELSE <<q[4], 0>>
Shared(m, k3, t, i) == i \in DOMAIN m[k3] /\ m[t][i] = m[k3][i]
Private(m, s, q, t, i) ==
  \E n \in 2 .. Len(q) : <<t, i>> = Ref(s, q, n) /\ m[t][i].to = q[n]

(* An entry of a ring 3 address space is the kernel's or the one that      *)
(* points to one of its frames.                                            *)
LEMMA UserKind ==
  ASSUME NEW m, NEW k3, NEW s, s.ring3, NEW q, Len(q) = 6, UserEntries(m, k3, q),
         NEW t \in {q[1], q[2], q[5], q[6]}, NEW i \in DOMAIN m[t]
  PROVE  Shared(m, k3, t, i) \/ Private(m, s, q, t, i)
<1>1. \A f : link(f, USER).to = f
  BY Zenon DEF link
<1>2. ASSUME NEW n \in 2 .. 6, <<t, i>> = Ref(s, q, n), m[t][i] = link(q[n], USER)
      PROVE  Private(m, s, q, t, i)
  <2>1. m[t][i].to = q[n]
    BY <1>1, <1>2, Zenon
  <2>2. n \in 2 .. Len(q)
    BY Zenon
  <2>3. QED
    BY <1>2, <2>1, <2>2, Zenon DEF Private
<1>3. CASE t = q[1]
  <2>1. DOMAIN m[q[1]] = {0} /\ m[q[1]][0] = link(q[2], USER)
    BY Zenon DEF UserEntries, OneEntry
  <2>2. i = 0 /\ m[t][i] = link(q[2], USER)
    BY <1>3, <2>1, Zenon
  <2>3. <<t, i>> = Ref(s, q, 2) /\ 2 \in 2 .. 6
    BY <1>3, <2>2 DEF Ref
  <2>4. QED
    BY <1>2, <2>2, <2>3, Zenon
<1>4. CASE t = q[2]
  <2>1. /\ DOMAIN m[q[2]] = {1} \union DOMAIN m[k3] /\ m[q[2]][1] = link(q[5], USER)
        /\ \A j \in DOMAIN m[k3] \ {1} : m[q[2]][j] = m[k3][j]
    BY Zenon DEF UserEntries, Copied
  <2>2. CASE i = 1
    <3>1. m[t][i] = link(q[5], USER)
      BY <1>4, <2>1, <2>2, Zenon
    <3>2. <<t, i>> = Ref(s, q, 5) /\ 5 \in 2 .. 6
      BY <1>4, <2>2 DEF Ref
    <3>3. QED
      BY <1>2, <3>1, <3>2, Zenon
  <2>3. CASE i # 1
    <3>1. i \in DOMAIN m[k3] \ {1}
      BY <1>4, <2>1, <2>3, Zenon
    <3>2. QED
      BY <1>4, <2>1, <3>1, Zenon DEF Shared
  <2>4. QED
    BY <2>2, <2>3, Zenon
<1>5. CASE t = q[5]
  <2>1. /\ DOMAIN m[q[5]] = {pd_idx(USER_CODE_VA)}
        /\ m[q[5]][pd_idx(USER_CODE_VA)] = link(q[6], USER)
    BY Zenon DEF UserEntries, OneEntry
  <2>2. i = pd_idx(USER_CODE_VA) /\ m[t][i] = link(q[6], USER)
    BY <1>5, <2>1, Zenon
  <2>3. <<t, i>> = Ref(s, q, 6) /\ 6 \in 2 .. 6
    BY <1>5, <2>2 DEF Ref
  <2>4. QED
    BY <1>2, <2>2, <2>3, Zenon
<1>6. CASE t = q[6]
  <2>1. DOMAIN m[q[6]] = {0, 1} /\ m[q[6]][0] = link(q[3], USER) /\ m[q[6]][1] = link(q[4], USER)
    BY Zenon DEF UserEntries, TwoEntries
  <2>2. i \in {0, 1}
    BY <1>6, <2>1, Zenon
  <2>3. CASE i = 0
    <3>1. <<t, i>> = Ref(s, q, 3) /\ 3 \in 2 .. 6
      BY <1>6, <2>3 DEF Ref
    <3>2. QED
      BY <1>2, <1>6, <2>1, <2>3, <3>1, Zenon
  <2>4. CASE i = 1
    <3>1. <<t, i>> = Ref(s, q, 4) /\ 4 \in 2 .. 6
      BY <1>6, <2>4 DEF Ref
    <3>2. QED
      BY <1>2, <1>6, <2>1, <2>4, <3>1, Zenon
  <2>5. QED
    BY <2>2, <2>3, <2>4, Zenon
<1>7. QED
  BY <1>3, <1>4, <1>5, <1>6, Zenon

(* So is one of a thread's.                                                *)
LEMMA ThreadKind ==
  ASSUME NEW m, NEW k3, NEW s, ~s.ring3, NEW q, Len(q) = 5, ThreadEntries(m, k3, q),
         NEW t \in {q[1], q[2], q[3], q[4]}, NEW i \in DOMAIN m[t]
  PROVE  Shared(m, k3, t, i) \/ Private(m, s, q, t, i)
<1>1. \A f : link(f, KERNEL).to = f
  BY Zenon DEF link
<1>2. ASSUME NEW n \in 2 .. 5, <<t, i>> = Ref(s, q, n), m[t][i] = link(q[n], KERNEL)
      PROVE  Private(m, s, q, t, i)
  <2>1. m[t][i].to = q[n]
    BY <1>1, <1>2, Zenon
  <2>2. n \in 2 .. Len(q)
    BY Zenon
  <2>3. QED
    BY <1>2, <2>1, <2>2, Zenon DEF Private
<1>3. CASE t = q[1]
  <2>1. DOMAIN m[q[1]] = {0} /\ m[q[1]][0] = link(q[2], KERNEL)
    BY Zenon DEF ThreadEntries, OneEntry
  <2>2. i = 0 /\ m[t][i] = link(q[2], KERNEL)
    BY <1>3, <2>1, Zenon
  <2>3. <<t, i>> = Ref(s, q, 2) /\ 2 \in 2 .. 5
    BY <1>3, <2>2 DEF Ref
  <2>4. QED
    BY <1>2, <2>2, <2>3, Zenon
<1>4. CASE t = q[2]
  <2>1. /\ DOMAIN m[q[2]] = {1} \union DOMAIN m[k3] /\ m[q[2]][1] = link(q[3], KERNEL)
        /\ \A j \in DOMAIN m[k3] \ {1} : m[q[2]][j] = m[k3][j]
    BY Zenon DEF ThreadEntries, Copied
  <2>2. CASE i = 1
    <3>1. m[t][i] = link(q[3], KERNEL)
      BY <1>4, <2>1, <2>2, Zenon
    <3>2. <<t, i>> = Ref(s, q, 3) /\ 3 \in 2 .. 5
      BY <1>4, <2>2 DEF Ref
    <3>3. QED
      BY <1>2, <3>1, <3>2, Zenon
  <2>3. CASE i # 1
    <3>1. i \in DOMAIN m[k3] \ {1}
      BY <1>4, <2>1, <2>3, Zenon
    <3>2. QED
      BY <1>4, <2>1, <3>1, Zenon DEF Shared
  <2>4. QED
    BY <2>2, <2>3, Zenon
<1>5. CASE t = q[3]
  <2>1. DOMAIN m[q[3]] = {0} /\ m[q[3]][0] = link(q[4], KERNEL)
    BY Zenon DEF ThreadEntries, OneEntry
  <2>2. i = 0 /\ m[t][i] = link(q[4], KERNEL)
    BY <1>5, <2>1, Zenon
  <2>3. <<t, i>> = Ref(s, q, 4) /\ 4 \in 2 .. 5
    BY <1>5, <2>2 DEF Ref
  <2>4. QED
    BY <1>2, <2>2, <2>3, Zenon
<1>6. CASE t = q[4]
  <2>1. DOMAIN m[q[4]] = {0} /\ m[q[4]][0] = link(q[5], KERNEL)
    BY Zenon DEF ThreadEntries, OneEntry
  <2>2. i = 0 /\ m[t][i] = link(q[5], KERNEL)
    BY <1>6, <2>1, Zenon
  <2>3. <<t, i>> = Ref(s, q, 5) /\ 5 \in 2 .. 5
    BY <1>6, <2>2 DEF Ref
  <2>4. QED
    BY <1>2, <2>2, <2>3, Zenon
<1>7. QED
  BY <1>3, <1>4, <1>5, <1>6, Zenon

(* Every entry is the kernel's, or the kernel's PML4 entry, or points to a *)
(* frame of one address space.                                             *)
Kind(m, k4, k3, S, own, t, i) ==
  \/ Shared(m, k3, t, i)
  \/ t = k4 /\ i = 0 /\ m[t][i].to = k3
  \/ \E s \in S : Private(m, s, own[s], t, i)

(* That is so in every layout.                                             *)
LEMMA EntryKind ==
  ASSUME NEW m, NEW k4, NEW k3, NEW S, NEW own, Layout(m, k4, k3, S, own),
         NEW t \in DOMAIN m, NEW i \in DOMAIN m[t], "PS" \notin m[t][i].flags
  PROVE  Kind(m, k4, k3, S, own, t, i)
<1>1. KernelTables(m, k4, k3)
  BY Zenon DEF Layout
<1>2. CASE t = k4
  <2>1. DOMAIN m[k4] = {0} /\ m[k4][0].to = k3
    BY <1>1, KernelFacts, ZenonT(30)
  <2>2. i = 0
    BY <1>2, <2>1, Zenon
  <2>3. QED
    BY <1>2, <2>1, <2>2, Zenon DEF Kind
<1>3. CASE t = k3
  BY <1>3, Zenon DEF Kind, Shared
<1>4. CASE t \in Tables(m, k3)
  <2>1. LargePages(m[t])
    BY <1>1, <1>4, Zenon DEF KernelTables
  <2>2. QED
    BY <2>1, Zenon DEF LargePages
<1>5. CASE \E s \in S : t \in SpaceTables(s, own[s])
  <2>1. PICK s \in S : t \in SpaceTables(s, own[s])
    BY <1>5, Zenon
  <2> DEFINE q == own[s]
  <2>2. Space(m, k3, s, q)
    BY Zenon DEF Layout
  <2>3. t \in SpaceTables(s, q)
    BY <2>1, Zenon
  <2> HIDE DEF q
  <2>4. IF s.ring3 THEN UserEntries(m, k3, q) ELSE ThreadEntries(m, k3, q)
    BY <2>2, SpaceEntries, Zenon
  <2>5. Shared(m, k3, t, i) \/ Private(m, s, q, t, i)
    <3>1. CASE s.ring3
      <4>1. Len(q) = 6 /\ t \in {q[1], q[2], q[5], q[6]}
        BY <2>2, <2>3, <3>1, Zenon DEF Space, UserSpace, SpaceTables
      <4>2. QED
        BY <2>4, <3>1, <4>1, UserKind, Zenon
    <3>2. CASE ~s.ring3
      <4>1. Len(q) = 5 /\ t \in {q[1], q[2], q[3], q[4]}
        BY <2>2, <2>3, <3>2, Zenon DEF Space, ThreadSpace, SpaceTables
      <4>2. QED
        BY <2>4, <3>2, <4>1, ThreadKind, Zenon
    <3>3. QED
      BY <3>1, <3>2, Zenon
  <2>6. QED
    BY <2>5, Zenon DEF Kind, q
<1>6. t = k4 \/ t = k3 \/ t \in Tables(m, k3) \/ \E s \in S : t \in SpaceTables(s, own[s])
  <2>1. DOMAIN m = KernelFrames(m, k4, k3) \union UNION {SpaceTables(s, own[s]) : s \in S}
    BY Zenon DEF Layout
  <2>2. t \in KernelFrames(m, k4, k3) \/ \E s \in S : t \in SpaceTables(s, own[s])
    BY <2>1, Zenon
  <2>3. QED
    BY <2>2, Zenon DEF KernelFrames
<1>7. QED
  BY <1>2, <1>3, <1>4, <1>5, <1>6, Zenon

(* Where a shared entry points to,                                         *)
LEMMA SharedTo ==
  ASSUME NEW m, NEW k4, NEW k3, KernelTables(m, k4, k3), NEW t, NEW i, Shared(m, k3, t, i)
  PROVE  /\ m[t][i].to \in KernelFrames(m, k4, k3) /\ m[t][i].to # k4 /\ m[t][i].to # k3
<1>1. i \in DOMAIN m[k3] /\ m[t][i] = m[k3][i]
  BY Zenon DEF Shared
<1>2. m[k3][i].to \in Tables(m, k3)
  BY <1>1, Zenon DEF Tables
<1>3. m[k3][i].to \notin {k4, k3}
  BY <1>2, Zenon DEF KernelTables
<1>4. m[k3][i].to \in KernelFrames(m, k4, k3)
  BY <1>2, Zenon DEF KernelFrames
<1>5. QED
  BY <1>1, <1>3, <1>4, Zenon

(* and a private one.                                                      *)
LEMMA PrivateTo ==
  ASSUME NEW m, NEW s, NEW q \in Seq(Nat), IsInjective(q), NEW t, NEW i, Private(m, s, q, t, i)
  PROVE  m[t][i].to \in Range(q) /\ m[t][i].to # q[1]
<1>1. PICK n \in 2 .. Len(q) : m[t][i].to = q[n]
  BY Zenon DEF Private
<1>2. n \in DOMAIN q /\ 1 \in DOMAIN q /\ n # 1
  BY <1>1
<1>3. q[n] \in Range(q)
  BY <1>2, Zenon DEF Range
<1>4. q[n] # q[1]
  BY <1>2, Zenon DEF IsInjective
<1>5. QED
  BY <1>1, <1>3, <1>4, Zenon

(* Only one private entry of an address space points to a frame.           *)
LEMMA PrivateOne ==
  ASSUME NEW m, NEW s, NEW q \in Seq(Nat), IsInjective(q), NEW t, NEW i, Private(m, s, q, t, i),
         NEW u, NEW j, Private(m, s, q, u, j), m[t][i].to = m[u][j].to
  PROVE  t = u /\ i = j
<1>1. PICK n \in 2 .. Len(q) : <<t, i>> = Ref(s, q, n) /\ m[t][i].to = q[n]
  BY Zenon DEF Private
<1>2. PICK x \in 2 .. Len(q) : <<u, j>> = Ref(s, q, x) /\ m[u][j].to = q[x]
  BY Zenon DEF Private
<1>3. n \in DOMAIN q /\ x \in DOMAIN q
  BY <1>1, <1>2
<1>4. q[n] = q[x]
  BY <1>1, <1>2, Zenon
<1>5. n = x
  BY <1>3, <1>4, Zenon DEF IsInjective
<1>6. <<t, i>> = <<u, j>>
  BY <1>1, <1>2, <1>5, Zenon
<1>7. QED
  BY <1>6, Zenon

(* What an entry points to is in use, and is no PML4.                      *)
LEMMA NoTop ==
  ASSUME NEW m, NEW k4, NEW k3, NEW S, NEW own, Layout(m, k4, k3, S, own),
         NEW t, NEW i, Kind(m, k4, k3, S, own, t, i)
  PROVE  /\ m[t][i].to \in InUse(m, k4, k3, S, own)
         /\ m[t][i].to # k4 /\ \A s \in S : m[t][i].to # s.cr3
<1> DEFINE f == m[t][i].to
           K == KernelFrames(m, k4, k3)
<1>1. KernelTables(m, k4, k3) /\ k3 \in K /\ k4 \in K /\ k4 # k3
  BY Zenon DEF Layout, KernelTables, KernelFrames
<1>2. \A s \in S : /\ own[s] \in Seq(Nat) /\ IsInjective(own[s]) /\ Range(own[s]) \cap K = {}
                   /\ s.cr3 \in Range(own[s]) /\ s.cr3 = own[s][1]
  <2> SUFFICES ASSUME NEW s \in S
               PROVE  /\ own[s] \in Seq(Nat) /\ IsInjective(own[s]) /\ Range(own[s]) \cap K = {}
                      /\ s.cr3 \in Range(own[s]) /\ s.cr3 = own[s][1]
    BY Zenon
  <2>1. own[s] \in Seq(Nat) /\ IsInjective(own[s]) /\ s.cr3 \in Range(own[s])
    BY LayoutSpaces, Zenon
  <2>2. Range(own[s]) \cap KernelFrames(m, k4, k3) = {}
    BY LayoutSpaces, Zenon
  <2>3. Rooted(s, own[s])
    BY SpaceRoot, Zenon
  <2>4. QED
    BY <2>1, <2>2, <2>3, Zenon DEF Rooted
<1>3. K \subseteq InUse(m, k4, k3, S, own)
  BY Zenon DEF InUse
<1>4. ASSUME f \in K, f # k4
      PROVE  f \in InUse(m, k4, k3, S, own) /\ f # k4 /\ \A s \in S : f # s.cr3
  <2> HIDE DEF f, K
  <2>1. QED
    BY <1>2, <1>3, <1>4, Zenon
<1>5. CASE Shared(m, k3, t, i)
  <2>1. f \in K /\ f # k4
    BY <1>1, <1>5, SharedTo, Zenon
  <2>2. QED
    BY <1>4, <2>1, Zenon
<1>6. CASE t = k4 /\ i = 0 /\ m[t][i].to = k3
  BY <1>1, <1>4, <1>6, Zenon
<1>7. CASE \E s \in S : Private(m, s, own[s], t, i)
  <2>1. PICK s \in S : Private(m, s, own[s], t, i)
    BY <1>7, Zenon
  <2>2. f \in Range(own[s]) /\ f # own[s][1]
    <3>1. own[s] \in Seq(Nat) /\ IsInjective(own[s])
      BY <1>2, Zenon
    <3> DEFINE q == own[s]
    <3>2. q \in Seq(Nat) /\ IsInjective(q) /\ Private(m, s, q, t, i)
      BY <2>1, <3>1, Zenon
    <3> HIDE DEF q
    <3>3. m[t][i].to \in Range(q) /\ m[t][i].to # q[1]
      BY <3>2, PrivateTo, Zenon
    <3>4. QED
      BY <3>3, Zenon DEF q
  <2>3. f \in InUse(m, k4, k3, S, own)
    <3> HIDE DEF f
    <3>1. QED
      BY <2>2, Zenon DEF InUse
  <2>4. f # k4
    <3> HIDE DEF f, K
    <3>1. QED
      BY <1>1, <1>2, <2>2, Zenon
  <2>5. ASSUME NEW u \in S PROVE f # u.cr3
    <3>1. CASE u = s
      BY <1>2, <2>2, <3>1, Zenon
    <3>2. CASE u # s
      <4>1. Range(own[s]) \cap Range(own[u]) = {}
        BY <3>2, Zenon DEF Layout
      <4>2. u.cr3 \in Range(own[u])
        BY <1>2, Zenon
      <4> HIDE DEF f
      <4>3. QED
        BY <2>2, <4>1, <4>2, Zenon
    <3>3. QED
      BY <3>1, <3>2, Zenon
  <2>6. QED
    BY <2>3, <2>4, <2>5, Zenon
<1>8. QED
  BY <1>5, <1>6, <1>7, Zenon DEF Kind

(* Two entries that point to the same frame are copies of a kernel entry.  *)
LEMMA TwoRefs ==
  ASSUME NEW m, NEW k4, NEW k3, NEW S, NEW own, Layout(m, k4, k3, S, own),
         NEW t, NEW i, Kind(m, k4, k3, S, own, t, i), NEW u, NEW j, Kind(m, k4, k3, S, own, u, j),
         ~(t = u /\ i = j), m[t][i].to = m[u][j].to
  PROVE  i = j /\ Shared(m, k3, t, i)
<1> DEFINE K == KernelFrames(m, k4, k3)
           A(x, y) == Shared(m, k3, x, y)
           B(x, y) == x = k4 /\ y = 0 /\ m[x][y].to = k3
           C(x, y) == \E s \in S : Private(m, s, own[s], x, y)
<1>1. KernelTables(m, k4, k3) /\ k3 \in K
  BY Zenon DEF Layout, KernelTables, KernelFrames
<1>2. ASSUME NEW s \in S
      PROVE  own[s] \in Seq(Nat) /\ IsInjective(own[s]) /\ Range(own[s]) \cap K = {}
  BY LayoutSpaces, Zenon
<1>3. ASSUME NEW x, NEW y, A(x, y)
      PROVE  m[x][y].to \in K /\ m[x][y].to # k3
  BY <1>1, <1>3, SharedTo, Zenon
<1>4. ASSUME NEW x, NEW y, C(x, y)
      PROVE  m[x][y].to \notin K
  <2>1. PICK s \in S : Private(m, s, own[s], x, y)
    BY <1>4, Zenon
  <2> DEFINE q == own[s]
  <2>2. q \in Seq(Nat) /\ IsInjective(q) /\ Private(m, s, q, x, y) /\ Range(q) \cap K = {}
    BY <1>2, <2>1, Zenon
  <2> HIDE DEF q, K
  <2>3. m[x][y].to \in Range(q)
    BY <2>2, PrivateTo, Zenon
  <2>4. QED
    BY <2>2, <2>3, Zenon
<1>5. /\ A(t, i) \/ B(t, i) \/ C(t, i)
      /\ A(u, j) \/ B(u, j) \/ C(u, j)
  BY Zenon DEF Kind
<1>6. CASE A(t, i) /\ A(u, j)
  <2>1. /\ i \in DOMAIN m[k3] /\ m[t][i] = m[k3][i]
        /\ j \in DOMAIN m[k3] /\ m[u][j] = m[k3][j]
    BY <1>6, Zenon DEF Shared
  <2>2. m[k3][i].to = m[k3][j].to
    BY <2>1, Zenon
  <2>3. i = j
    BY <1>1, <2>1, <2>2, Zenon DEF KernelTables
  <2>4. QED
    BY <1>6, <2>3, Zenon
<1>7. CASE B(t, i) /\ B(u, j)
  BY <1>7, Zenon
<1>8. CASE C(t, i) /\ C(u, j)
  <2>1. PICK s \in S : Private(m, s, own[s], t, i)
    BY <1>8, Zenon
  <2>2. PICK x \in S : Private(m, x, own[x], u, j)
    BY <1>8, Zenon
  <2>3. CASE s = x
    <3> DEFINE q == own[s]
    <3>1. /\ q \in Seq(Nat) /\ IsInjective(q)
          /\ Private(m, s, q, t, i) /\ Private(m, s, q, u, j)
      BY <1>2, <2>1, <2>2, <2>3, Zenon
    <3> HIDE DEF q
    <3>2. QED
      BY <3>1, PrivateOne, Zenon
  <2>4. CASE s # x
    <3> DEFINE q == own[s]
               r == own[x]
    <3>1. q \in Seq(Nat) /\ IsInjective(q) /\ r \in Seq(Nat) /\ IsInjective(r)
      BY <1>2, Zenon
    <3>2. Private(m, s, q, t, i) /\ Private(m, x, r, u, j)
      BY <2>1, <2>2, Zenon
    <3>3. Range(q) \cap Range(r) = {}
      BY <2>4, Zenon DEF Layout
    <3> HIDE DEF q, r
    <3>4. m[t][i].to \in Range(q) /\ m[u][j].to \in Range(r)
      BY <3>1, <3>2, PrivateTo, Zenon
    <3>5. QED
      BY <3>3, <3>4, Zenon
  <2>5. QED
    BY <2>3, <2>4, Zenon
<1>9. ASSUME NEW x, NEW y, B(x, y)
      PROVE  m[x][y].to = k3
  BY <1>9, Zenon
<1> HIDE DEF A, B, C, K
<1>10. ~(A(t, i) /\ B(u, j)) /\ ~(B(t, i) /\ A(u, j))
  BY <1>3, <1>9, Zenon
<1>11. ~(A(t, i) /\ C(u, j)) /\ ~(C(t, i) /\ A(u, j))
  BY <1>3, <1>4, Zenon
<1>12. ~(B(t, i) /\ C(u, j)) /\ ~(C(t, i) /\ B(u, j))
  BY <1>1, <1>4, <1>9, Zenon
<1>13. QED
  BY <1>5, <1>6, <1>7, <1>8, <1>10, <1>11, <1>12, Zenon

(* Each address space has a PML4 of its own, which is not the kernel's.    *)
LEMMA OwnTops ==
  ASSUME NEW m, NEW k4, NEW k3, NEW S, NEW own, Layout(m, k4, k3, S, own)
  PROVE  /\ \A s, u \in S : s # u => s.cr3 # u.cr3
         /\ \A s \in S : s.cr3 # k4
<1>1. k4 \in KernelFrames(m, k4, k3)
  BY Zenon DEF KernelFrames
<1>2. ASSUME NEW s \in S
      PROVE  s.cr3 \in Range(own[s]) /\ Range(own[s]) \cap KernelFrames(m, k4, k3) = {}
  BY LayoutSpaces, Zenon
<1>3. ASSUME NEW s \in S, NEW u \in S, s # u PROVE s.cr3 # u.cr3
  <2>1. Range(own[s]) \cap Range(own[u]) = {}
    BY <1>3, Zenon DEF Layout
  <2>2. QED
    BY <1>2, <2>1, Zenon
<1>4. ASSUME NEW s \in S PROVE s.cr3 # k4
  BY <1>1, <1>2, Zenon
<1>5. QED
  BY <1>3, <1>4, Zenon

(* A frame has one use.                                                    *)
OneUseIn(m, k4, k3, S, g) ==
  LET tops == {s.cr3 : s \in S} \union {k4}
      used == tops \union {To(m, r) : r \in Refs(m)}
  IN  /\ \A r, q \in Refs(m) : r # q /\ To(m, r) = To(m, q) =>
           /\ r[2] = q[2] /\ r[2] \in DOMAIN m[k3]
           /\ m[k3][r[2]] = m[r[1]][r[2]]
      /\ \A r \in Refs(m) : To(m, r) \notin tops
      /\ \A s, u \in S : s # u => s.cr3 # u.cr3
      /\ \A s \in S : s.cr3 # k4
      /\ IsInjective(g) /\ \A k \in DOMAIN g : g[k] \notin used

(* So it has in a layout.                                                  *)
LEMMA LayoutOneUse ==
  ASSUME NEW m, NEW k4, NEW k3, NEW S, NEW own, Layout(m, k4, k3, S, own),
         NEW g, IsInjective(g), Range(g) \cap InUse(m, k4, k3, S, own) = {}
  PROVE  OneUseIn(m, k4, k3, S, g)
<1> DEFINE tops == {s.cr3 : s \in S} \union {k4}
           used == tops \union {To(m, r) : r \in Refs(m)}
           U == InUse(m, k4, k3, S, own)
<1>1. ASSUME NEW r \in Refs(m)
      PROVE  /\ Kind(m, k4, k3, S, own, r[1], r[2]) /\ r = <<r[1], r[2]>>
  <2>1. PICK t \in DOMAIN m : r \in {<<t, i>> : i \in {j \in DOMAIN m[t] : "PS" \notin m[t][j].flags}}
    BY <1>1, Zenon DEF Refs
  <2>2. PICK i \in DOMAIN m[t] : "PS" \notin m[t][i].flags /\ r = <<t, i>>
    BY <2>1, Zenon
  <2>3. r[1] = t /\ r[2] = i
    BY <2>2, Zenon
  <2>4. Kind(m, k4, k3, S, own, t, i)
    BY <2>2, EntryKind, Zenon
  <2>5. QED
    BY <2>2, <2>3, <2>4, Zenon
<1>2. ASSUME NEW r \in Refs(m), NEW q \in Refs(m), r # q, To(m, r) = To(m, q)
      PROVE  r[2] = q[2] /\ r[2] \in DOMAIN m[k3] /\ m[k3][r[2]] = m[r[1]][r[2]]
  <2>1. ~(r[1] = q[1] /\ r[2] = q[2])
    BY <1>1, <1>2, Zenon
  <2>2. m[r[1]][r[2]].to = m[q[1]][q[2]].to
    BY <1>2, Zenon DEF To
  <2>3. Kind(m, k4, k3, S, own, r[1], r[2]) /\ Kind(m, k4, k3, S, own, q[1], q[2])
    BY <1>1, Zenon
  <2>4. r[2] = q[2] /\ Shared(m, k3, r[1], r[2])
    <3> DEFINE t == r[1]
               i == r[2]
               u == q[1]
               j == q[2]
    <3>1. /\ Kind(m, k4, k3, S, own, t, i) /\ Kind(m, k4, k3, S, own, u, j)
          /\ ~(t = u /\ i = j) /\ m[t][i].to = m[u][j].to
      BY <2>1, <2>2, <2>3, Zenon
    <3> HIDE DEF t, i, u, j
    <3>2. i = j /\ Shared(m, k3, t, i)
      BY <3>1, TwoRefs
    <3>3. QED
      BY <3>2, Zenon DEF t, i, j
  <2>5. QED
    BY <2>4, Zenon DEF Shared
<1>3. ASSUME NEW r \in Refs(m)
      PROVE  To(m, r) \in U /\ To(m, r) # k4 /\ \A s \in S : To(m, r) # s.cr3
  <2>1. Kind(m, k4, k3, S, own, r[1], r[2])
    BY <1>1, Zenon
  <2>2. QED
    BY <2>1, NoTop, Zenon DEF To
<1>4. \A r \in Refs(m) : To(m, r) \notin tops
  BY <1>3, Zenon
<1>5. /\ \A s, u \in S : s # u => s.cr3 # u.cr3
      /\ \A s \in S : s.cr3 # k4
  BY OwnTops, Zenon
<1>6. used \subseteq U
  <2>1. k4 \in U
    BY Zenon DEF InUse, KernelFrames
  <2>2. ASSUME NEW s \in S PROVE s.cr3 \in U
    <3>1. s.cr3 \in Range(own[s])
      BY LayoutSpaces, Zenon
    <3>2. QED
      BY <3>1, Zenon DEF InUse
  <2> HIDE DEF U
  <2>3. QED
    BY <1>3, <2>1, <2>2, Zenon
<1>7. \A k \in DOMAIN g : g[k] \notin used
  <2>1. \A k \in DOMAIN g : g[k] \in Range(g)
    BY Zenon DEF Range
  <2> HIDE DEF used
  <2>2. Range(g) \cap U = {}
    BY Zenon
  <2> HIDE DEF U
  <2>3. QED
    BY <1>6, <2>1, <2>2, Zenon
<1> HIDE DEF U
<1>8. QED
  BY <1>2, <1>4, <1>5, <1>7, Zenon DEF OneUseIn

(* The property, for the page tables of the moment.                        *)
LEMMA OneUseIs == OneUseIn(mem, kernel_pml4, kernel_pdpt, spaces, got) => OneUse
BY Zenon DEF OneUseIn, OneUse, Refs, To

(* Before there is a page table nothing but the frames of the first call   *)
(* is in use.                                                              *)
LEMMA OneUseFirst ==
  ASSUME mem = << >>, kernel_pml4 = -1, spaces = {}, IsInjective(got), got \in Seq(Nat)
  PROVE  OneUseIn(mem, kernel_pml4, kernel_pdpt, spaces, got)
<1> DEFINE tops == {s.cr3 : s \in spaces} \union {kernel_pml4}
           used == tops \union {To(mem, r) : r \in Refs(mem)}
<1>1. Refs(mem) = {}
  BY DEF Refs
<1>2. tops = {-1} /\ used = {-1}
  BY <1>1, Zenon
<1>3. \A s \in spaces : FALSE
  BY Zenon
<1>4. \A k \in DOMAIN got : got[k] \notin used
  <2>1. \A k \in DOMAIN got : got[k] \in Nat
    OBVIOUS
  <2> HIDE DEF used
  <2>2. QED
    BY <1>2, <2>1
<1>5. \A r, q \in Refs(mem) : FALSE
  BY <1>1, Zenon
<1>6. \A r \in Refs(mem) : FALSE
  BY <1>1, Zenon
<1>7. QED
  BY <1>3, <1>4, <1>5, <1>6, Zenon DEF OneUseIn

(* The invariant implies it.                                               *)
LEMMA OneUseFromInv == PInv => OneUse
<1> SUFFICES ASSUME PInv PROVE OneUseIn(mem, kernel_pml4, kernel_pdpt, spaces, got)
  BY OneUseIs, Zenon
<1>1. Placed /\ Laid /\ Fresh
  BY Zenon DEF PInv
<1>2. IsInjective(got) /\ got \in Seq(Nat)
  BY <1>1, Zenon DEF Fresh
<1>3. CASE pc = 1
  <2>1. spaces = {}
    <3>1. pc < 9
      BY <1>3
    <3>2. QED
      BY <1>1, <3>1, Zenon DEF Placed
  <2>2. mem = << >> /\ kernel_pml4 = -1
    BY <1>1, <1>3, Zenon DEF Laid
  <2>3. QED
    BY <1>2, <2>1, <2>2, OneUseFirst, Zenon
<1>4. CASE pc # 1
  <2>1. /\ Layout(mem, kernel_pml4, kernel_pdpt, spaces, own_frames)
        /\ Range(got) \cap InUse(mem, kernel_pml4, kernel_pdpt, spaces, own_frames) = {}
    BY <1>1, <1>4, Zenon DEF Laid, Fresh, in_use
  <2>2. QED
    BY <1>2, <2>1, LayoutOneUse, Zenon
<1>5. QED
  BY <1>3, <1>4, Zenon

(* Every frame has one use: as a PML4, or through one entry, but for the   *)
(* tables below the kernel PDPT, which the address spaces share; and what  *)
(* alloc_frame hands out is not in use.                                    *)
THEOREM FramesOneUse == PagingSpec => []OneUse
BY OneUseFromInv, Inductive, PTL
=============================================================================
