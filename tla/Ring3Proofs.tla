---------------------------- MODULE Ring3Proofs ----------------------------
(***************************************************************************)
(* The start of the APs and the ring 3 thread on any machine: any number   *)
(* of CPUs with any ids, any tables, any AP dead or late.  First what the  *)
(* list of CPUs holds, then the invariant of the bring-up:                 *)
(*   ListInv   where smp_start_aps is in the list;                         *)
(*   ApInv     only CPUs it has come to run, and none that is dead;        *)
(*   TssInv    what each TSS slot holds, and for whom;                     *)
(*   OrderInv  as long as no AP has missed its timeout, at most the AP it  *)
(*             waits for is under way, on the newest stack, and the others *)
(*             that run are those it has counted.                          *)
(***************************************************************************)
EXTENDS Ring3, FiniteSetTheorems, NaturalsInduction, WellFoundedInduction, TLAPS

LapicOn(entries, j) == entries[j].type = "lapic" /\ entries[j].enabled

\* What the list made of the first k entries holds.
Lists(entries, max, ids, k) ==
  /\ ids \in Seq({entries[j].id : j \in 1 .. Len(entries)})
  /\ Len(ids) <= max
  /\ \A a, b \in 1 .. Len(ids) : ids[a] = ids[b] => a = b
  /\ \A a \in 1 .. Len(ids) : \E j \in 1 .. k : LapicOn(entries, j) /\ ids[a] = entries[j].id
  /\ \/ Len(ids) = max
     \/ \A j \in 1 .. k : LapicOn(entries, j) => \E a \in 1 .. Len(ids) : ids[a] = entries[j].id
-----------------------------------------------------------------------------
BspPoints == {"find", "loop", "fill", "sipi", "wait", "done"}
ApPoints == {"off", "sipi", "crash", "entry", "tss", "timer", "up"}
Running == {"entry", "tss", "timer", "up"}

SmpType ==
  /\ firmware \in Firmwares /\ dead \subseteq Enabled(firmware) \ {BSP}
  /\ bsp \in BspPoints /\ i \in Nat \ {0} /\ started \in Nat /\ stacks \in Nat
  /\ apic_ids \in Seq(Enabled(firmware))
  /\ mbox_stack \in {NONE} \union 1 .. stacks
  /\ ap_ready \in [0 .. MAX_AP_CPUS - 1 -> BOOLEAN]
  /\ g_ap_index_starting \in {NONE} \union 0 .. MAX_AP_CPUS - 1
  /\ ap \in [Ids -> ApPoints] /\ stack \in [Ids -> {NONE} \union 1 .. stacks]
  /\ tss \in [Ids -> {NONE} \union 0 .. MAX_TSS_CPUS - 1]
  /\ rsp0 \in [0 .. MAX_TSS_CPUS - 1 -> BOOLEAN]

Roomy == MadtFound /\ Cardinality(Enabled(firmware)) <= MAX_AP_CPUS
ListInv ==
  /\ \A a, b \in 1 .. Len(apic_ids) : apic_ids[a] = apic_ids[b] => a = b
  /\ Len(apic_ids) <= MAX_AP_CPUS
  /\ bsp # "find" /\ Roomy => \A c \in Enabled(firmware) : \E k \in 1 .. Len(apic_ids) : c = apic_ids[k]
  /\ i <= Len(apic_ids) + 1 /\ started < i
  /\ bsp = "find" => i = 1 /\ apic_ids = << >>
  /\ bsp = "done" => Len(apic_ids) <= 1 \/ i = Len(apic_ids) + 1
  /\ bsp \in {"fill", "sipi", "wait"} => i <= Len(apic_ids) /\ apic_ids[i] # BSP
  /\ bsp \in {"sipi", "wait"} => mbox_stack = stacks /\ g_ap_index_starting = started

ApInv ==
  /\ \A c \in Ids : ap[c] # "off" =>
       /\ c \in Enabled(firmware) \ {BSP}
       /\ \E k \in 1 .. Len(apic_ids) : c = apic_ids[k] /\ (k < i \/ (k = i /\ bsp = "wait"))
  /\ \A c \in dead : ap[c] \in {"off", "sipi"}

TssInv ==
  /\ \A c \in Ids : tss[c] # NONE => tss[c] = Slot(c) /\ c \in Enabled(firmware) \union {BSP}
  /\ tss[BSP] = 0
  /\ rsp0[0] \/ Clash(BSP)
  /\ \A c \in APs : ap[c] \in {"timer", "up"} /\ Slot(c) < MAX_TSS_CPUS =>
       tss[c] = Slot(c) /\ (rsp0[Slot(c)] \/ Clash(c))

OrderInv ==
  /\ \A c \in Ids : ap[c] # "off" /\ c \notin dead =>
       c \in confirmed \/ (bsp = "wait" /\ c = apic_ids[i])
  /\ \A c \in confirmed : c \in Ids /\ ap[c] = "up" /\ \E k \in 1 .. i - 1 : c = apic_ids[k]
  /\ \A k \in 1 .. i - 1 : apic_ids[k] \in confirmed \union dead \union {BSP}
  /\ IsFiniteSet(confirmed) /\ Cardinality(confirmed) = started
  /\ \A c \in Ids : ap[c] \in Running =>
       /\ stack[c] # NONE
       /\ c \in confirmed /\ bsp \in {"sipi", "wait"} => stack[c] # stacks
       /\ c \notin confirmed => stack[c] = stacks
  /\ \A c, d \in confirmed : stack[c] = stack[d] => c = d
  /\ bsp = "sipi" => ~ap_ready[started]
  /\ bsp = "wait" => (ap_ready[started] <=> ap[apic_ids[i]] = "up")

SInv == SmpType /\ ListInv /\ ApInv /\ TssInv /\ (missed = {} => OrderInv)

R3Inv ==
  /\ mode \in {"ready", "kernel", "user", "lost"}
  /\ mode # "ready" => cpu \in Ids /\ Scheduling(cpu)
  /\ Ring3Stack
Inv3 == SInv /\ R3Inv
-----------------------------------------------------------------------------
(* A set of numbers that is not empty has a least one.                     *)
LEMMA Least ==
  ASSUME NEW V \in SUBSET Nat, V # {}
  PROVE  \E m \in V : \A v \in V : m <= v
<1>1. \A Q, U, W : IsWellFoundedOn(Q, U) /\ W \in SUBSET U /\ W # {}
                   => \E x \in W : \A y \in W : <<y, x>> \notin Q
  BY WFMin, Zenon
<1>2. PICK m \in V : \A y \in V : <<y, m>> \notin OpToRel(<, Nat)
  BY <1>1, NatLessThanWellFounded, Zenon
<1>3. \A y \in V : ~(y < m)
  BY <1>2, Zenon DEF OpToRel
<1>4. QED
  BY <1>3

(* list_cpus goes through the entries one by one.                          *)
LEMMA ListSteps ==
  ASSUME NEW es, NEW max, Len(es) \in Nat
  PROVE  /\ list_cpus(es, max)[0] = << >>
         /\ \A k \in 1 .. Len(es) :
              list_cpus(es, max)[k] = list_cpu(list_cpus(es, max)[k - 1], es[k], max)
<1> DEFINE Rec(f, n) == f = [k \in 0 .. n |-> IF k = 0 THEN << >> ELSE list_cpu(f[k - 1], es[k], max)]
           V == {n \in Nat : ~ \E f : Rec(f, n)}
<1>1. V = {}
  <2> SUFFICES ASSUME V # {} PROVE FALSE
    BY Zenon
  <2>1. PICK m \in V : \A v \in V : m <= v
    <3>1. V \in SUBSET Nat
      BY Zenon
    <3> HIDE DEF V
    <3>2. QED
      BY <3>1, Least, Zenon
  <2>2. m \in Nat
    BY Zenon
  <2>3. CASE m = 0
    <3> DEFINE f == [k \in 0 .. 0 |-> << >>]
    <3>1. \A k \in 0 .. 0 : k = 0
      OBVIOUS
    <3>2. Rec(f, 0)
      BY <3>1, Zenon
    <3>3. QED
      BY <2>3, <3>2, Zenon
  <2>4. CASE m # 0
    <3>1. m - 1 \in Nat /\ m - 1 \notin V
      <4> HIDE DEF V
      <4>1. m - 1 \in Nat /\ ~(m <= m - 1)
        BY <2>2, <2>4
      <4>2. QED
        BY <2>1, <4>1, Zenon
    <3>2. PICK g : Rec(g, m - 1)
      BY <3>1, Zenon
    <3> DEFINE f == [k \in 0 .. m |-> IF k = m THEN list_cpu(g[m - 1], es[m], max) ELSE g[k]]
    <3>3. ASSUME NEW k \in 0 .. m
          PROVE  f[k] = IF k = 0 THEN << >> ELSE list_cpu(f[k - 1], es[k], max)
      <4>1. CASE k = m
        <5>1. k - 1 \in 0 .. m /\ k - 1 # m /\ k # 0
          BY <2>2, <2>4, <4>1
        <5>2. f[k - 1] = g[k - 1] /\ f[k] = list_cpu(g[m - 1], es[m], max)
          BY <4>1, <5>1, Zenon
        <5>3. QED
          BY <4>1, <5>1, <5>2, Zenon
      <4>2. CASE k # m
        <5>1. k \in 0 .. m - 1 /\ (k # 0 => k - 1 \in 0 .. m /\ k - 1 # m)
          BY <2>2, <4>2
        <5>2. f[k] = g[k] /\ (k # 0 => f[k - 1] = g[k - 1])
          BY <4>2, <5>1, Zenon
        <5>3. g[k] = IF k = 0 THEN << >> ELSE list_cpu(g[k - 1], es[k], max)
          BY <3>2, <5>1, Zenon
        <5>4. QED
          BY <5>2, <5>3, Zenon
      <4>3. QED
        BY <4>1, <4>2, Zenon
    <3>4. f = [k \in 0 .. m |-> f[k]]
      BY Zenon
    <3>5. Rec(f, m)
      <4> HIDE DEF f
      <4>1. QED
        BY <3>3, <3>4, Zenon
    <3>6. QED
      BY <3>5, Zenon
  <2>5. QED
    BY <2>3, <2>4, Zenon
<1>2. \E f : Rec(f, Len(es))
  BY <1>1, Zenon
<1>3. Rec(list_cpus(es, max), Len(es))
  BY <1>2, Zenon DEF list_cpus
<1> DEFINE L == list_cpus(es, max)
<1>4. L = [k \in 0 .. Len(es) |-> IF k = 0 THEN << >> ELSE list_cpu(L[k - 1], es[k], max)]
  BY <1>3, Zenon
<1> HIDE DEF L
<1>5. 0 \in 0 .. Len(es) /\ \A k \in 1 .. Len(es) : k \in 0 .. Len(es) /\ k # 0
  OBVIOUS
<1>6. L[0] = << >> /\ \A k \in 1 .. Len(es) : L[k] = list_cpu(L[k - 1], es[k], max)
  BY <1>4, <1>5, Zenon
<1>7. QED
  BY <1>6, Zenon DEF L

(* One entry more: the list stays free of duplicates and within max, and   *)
(* misses an enabled CPU only when it is full.                             *)
LEMMA ListOne ==
  ASSUME NEW es, NEW max \in Nat, Len(es) \in Nat,
         \A j, k \in 1 .. Len(es) :
           es[j].type = "lapic" /\ es[k].type = "lapic" /\ es[j].id = es[k].id => j = k,
         NEW m \in 1 .. Len(es), NEW ids, Lists(es, max, ids, m - 1)
  PROVE  Lists(es, max, list_cpu(ids, es[m], max), m)
<1> DEFINE S == {es[j].id : j \in 1 .. Len(es)}
<1>1. /\ ids \in Seq(S) /\ Len(ids) \in Nat /\ Len(ids) <= max
      /\ \A a, b \in 1 .. Len(ids) : ids[a] = ids[b] => a = b
      /\ \A a \in 1 .. Len(ids) : \E j \in 1 .. m - 1 : LapicOn(es, j) /\ ids[a] = es[j].id
      /\ \/ Len(ids) = max
         \/ \A j \in 1 .. m - 1 : LapicOn(es, j) => \E a \in 1 .. Len(ids) : ids[a] = es[j].id
  BY DEF Lists
<1>2. m \in Nat /\ \A j \in 1 .. m - 1 : j \in 1 .. m /\ j \in 1 .. Len(es) /\ j # m
  OBVIOUS
<1>3. \A j \in 1 .. m : j # m => j \in 1 .. m - 1
  OBVIOUS
<1>4. es[m].id \in S
  BY Zenon
<1> HIDE DEF S
<1>5. CASE Len(ids) < max /\ LapicOn(es, m)
  <2> DEFINE new == Append(ids, es[m].id)
             x == es[m].id
  <2>1. list_cpu(ids, es[m], max) = new
    BY <1>5, Zenon DEF list_cpu, LapicOn
  <2>2. /\ new \in Seq(S) /\ Len(new) = Len(ids) + 1 /\ new[Len(ids) + 1] = x
        /\ \A a \in 1 .. Len(ids) : new[a] = ids[a]
    BY <1>1, <1>4
  <2>3. \A a \in 1 .. Len(ids) : ids[a] # x
    <3> SUFFICES ASSUME NEW a \in 1 .. Len(ids), ids[a] = x PROVE FALSE
      BY Zenon
    <3>1. PICK j \in 1 .. m - 1 : LapicOn(es, j) /\ ids[a] = es[j].id
      BY <1>1, Zenon
    <3>2. j = m
      BY <1>2, <1>5, <3>1, Zenon DEF LapicOn
    <3>3. QED
      BY <1>2, <3>2, Zenon
  <2> HIDE DEF new, x
  <2>4. \A a \in 1 .. Len(new) : a \in 1 .. Len(ids) \/ a = Len(ids) + 1
    BY <1>1, <2>2
  <2>5. \A a, b \in 1 .. Len(new) : new[a] = new[b] => a = b
    <3> SUFFICES ASSUME NEW a \in 1 .. Len(new), NEW b \in 1 .. Len(new), new[a] = new[b]
                 PROVE  a = b
      BY Zenon
    <3>1. CASE a \in 1 .. Len(ids) /\ b \in 1 .. Len(ids)
      BY <1>1, <2>2, <3>1, Zenon
    <3>2. CASE a = Len(ids) + 1 \/ b = Len(ids) + 1
      BY <2>2, <2>3, <2>4, <3>2, Zenon
    <3>3. QED
      BY <2>4, <3>1, <3>2, Zenon
  <2>6. \A a \in 1 .. Len(new) : \E j \in 1 .. m : LapicOn(es, j) /\ new[a] = es[j].id
    <3> SUFFICES ASSUME NEW a \in 1 .. Len(new)
                 PROVE  \E j \in 1 .. m : LapicOn(es, j) /\ new[a] = es[j].id
      BY Zenon
    <3>1. CASE a \in 1 .. Len(ids)
      <4>1. PICK j \in 1 .. m - 1 : LapicOn(es, j) /\ ids[a] = es[j].id
        BY <1>1, <3>1, Zenon
      <4>2. new[a] = ids[a] /\ j \in 1 .. m
        BY <1>2, <2>2, <3>1, Zenon
      <4>3. QED
        BY <4>1, <4>2, Zenon
    <3>2. CASE a = Len(ids) + 1
      <4>1. m \in 1 .. m
        BY <1>2
      <4>2. QED
        BY <1>5, <2>2, <3>2, <4>1, Zenon DEF x
    <3>3. QED
      BY <2>4, <3>1, <3>2, Zenon
  <2>7. \A j \in 1 .. m : LapicOn(es, j) => \E a \in 1 .. Len(new) : new[a] = es[j].id
    <3> SUFFICES ASSUME NEW j \in 1 .. m, LapicOn(es, j)
                 PROVE  \E a \in 1 .. Len(new) : new[a] = es[j].id
      BY Zenon
    <3>1. CASE j = m
      <4>1. Len(ids) + 1 \in 1 .. Len(new)
        BY <1>1, <2>2
      <4>2. QED
        BY <2>2, <3>1, <4>1, Zenon DEF x
    <3>2. CASE j # m
      <4>1. Len(ids) # max
        BY <1>1, <1>5
      <4>2. PICK a \in 1 .. Len(ids) : ids[a] = es[j].id
        BY <1>1, <1>3, <3>2, <4>1, Zenon
      <4>3. a \in 1 .. Len(new)
        BY <1>1, <2>2
      <4>4. QED
        BY <2>2, <4>2, <4>3, Zenon
    <3>3. QED
      BY <3>1, <3>2, Zenon
  <2>8. Len(new) <= max
    BY <1>1, <1>5, <2>2
  <2>9. Lists(es, max, new, m)
    BY <2>2, <2>5, <2>6, <2>7, <2>8, Zenon DEF Lists, S
  <2>10. QED
    BY <2>1, <2>9, Zenon
<1>6. CASE ~(Len(ids) < max /\ LapicOn(es, m))
  <2>1. list_cpu(ids, es[m], max) = ids
    BY <1>6, Zenon DEF list_cpu, LapicOn
  <2>2. \A a \in 1 .. Len(ids) : \E j \in 1 .. m : LapicOn(es, j) /\ ids[a] = es[j].id
    BY <1>1, <1>2, Zenon
  <2>3. ~(Len(ids) < max) => Len(ids) = max
    BY <1>1
  <2>4. \/ Len(ids) = max
        \/ \A j \in 1 .. m : LapicOn(es, j) => \E a \in 1 .. Len(ids) : ids[a] = es[j].id
    BY <1>1, <1>3, <1>6, <2>3, Zenon
  <2>5. Lists(es, max, ids, m)
    BY <1>1, <2>2, <2>4, Zenon DEF Lists, S
  <2>6. QED
    BY <2>1, <2>5, Zenon
<1>7. QED
  BY <1>5, <1>6, Zenon

(* What acpi_find_cpus returns for a MADT that lists each CPU once.        *)
LEMMA ListAll ==
  ASSUME NEW es, NEW max \in Nat, Len(es) \in Nat,
         \A j, k \in 1 .. Len(es) :
           es[j].type = "lapic" /\ es[k].type = "lapic" /\ es[j].id = es[k].id => j = k
  PROVE  Lists(es, max, list_cpus(es, max)[Len(es)], Len(es))
<1> DEFINE L == list_cpus(es, max)
           V == {k \in Nat : k <= Len(es) /\ ~Lists(es, max, L[k], k)}
<1>1. L[0] = << >> /\ \A k \in 1 .. Len(es) : L[k] = list_cpu(L[k - 1], es[k], max)
  BY ListSteps, Zenon
<1> HIDE DEF L
<1>2. ASSUME V # {} PROVE FALSE
  <2>1. PICK m \in V : \A v \in V : m <= v
    <3>1. V \in SUBSET Nat
      BY Zenon
    <3> HIDE DEF V
    <3>2. QED
      BY <1>2, <3>1, Least, Zenon
  <2>2. m \in Nat /\ m <= Len(es) /\ ~Lists(es, max, L[m], m)
    BY Zenon
  <2>3. m # 0
    <3>1. Lists(es, max, << >>, 0)
      BY DEF Lists
    <3>2. QED
      BY <1>1, <2>2, <3>1, Zenon
  <2>4. m - 1 \in Nat /\ m - 1 <= Len(es) /\ m \in 1 .. Len(es) /\ ~(m <= m - 1)
    BY <2>2, <2>3
  <2>5. Lists(es, max, L[m - 1], m - 1)
    BY <2>1, <2>4, Zenon
  <2>6. Lists(es, max, list_cpu(L[m - 1], es[m], max), m)
    BY <2>4, <2>5, ListOne, Zenon
  <2>7. QED
    BY <1>1, <2>2, <2>4, <2>6, Zenon
<1>3. Len(es) \notin V
  BY <1>2, Zenon
<1>4. QED
  BY <1>3 DEF L
-----------------------------------------------------------------------------
(* FirstOf gives the first element that passes the test, if one does.      *)
LEMMA FirstRsdp ==
  ASSUME NEW steps, steps \in Seq(Range(steps))
  PROVE  /\ scan_for_rsdp(steps) = NULL => \A s \in Range(steps) : ~(s.sig /\ s.sum)
         /\ scan_for_rsdp(steps) # NULL =>
              \E s \in Range(steps) : s.sig /\ s.sum /\ scan_for_rsdp(steps) = <<s>>
<1> DEFINE I == {k \in DOMAIN steps : steps[k].sig /\ steps[k].sum}
           first == CHOOSE k \in I : \A j \in I : k <= j
<1>1. Len(steps) \in Nat /\ DOMAIN steps = 1 .. Len(steps)
  OBVIOUS
<1>2. scan_for_rsdp(steps) = IF I = {} THEN NULL ELSE <<steps[first]>>
  BY Zenon DEF scan_for_rsdp, FirstOf
<1>3. CASE I = {}
  <2>1. scan_for_rsdp(steps) = NULL
    BY <1>2, <1>3, Zenon
  <2>2. \A k \in DOMAIN steps : ~(steps[k].sig /\ steps[k].sum)
    BY <1>1, <1>3, Zenon
  <2>3. QED
    BY <2>1, <2>2, Zenon DEF Range
<1>4. CASE I # {}
  <2>1. I \in SUBSET Nat
    BY <1>1
  <2> HIDE DEF I
  <2>2. \E m \in I : \A v \in I : m <= v
    BY <1>4, <2>1, Least, Zenon
  <2>3. first \in I
    BY <2>2, Zenon
  <2> HIDE DEF first
  <2>4. first \in DOMAIN steps /\ steps[first].sig /\ steps[first].sum
    BY <2>3, Zenon DEF I
  <2>5. scan_for_rsdp(steps) = <<steps[first]>>
    BY <1>2, <1>4, Zenon
  <2>6. <<steps[first]>> # NULL
    BY Zenon DEF NULL
  <2>7. steps[first] \in Range(steps)
    BY <1>1, <2>4, Zenon DEF Range
  <2>8. QED
    BY <2>4, <2>5, <2>6, <2>7, Zenon
<1>5. QED
  BY <1>3, <1>4, Zenon

(* With a usable RSDP in one of the two areas the MADT is found.           *)
LEMMA MadtThere ==
  ASSUME firmware \in Firmwares, MadtFound
  PROVE  find_madt(firmware, acpi_find_rsdp_bios(firmware)) = <<firmware.madt>>
<1> DEFINE r == acpi_find_rsdp_bios(firmware)
<1>1. firmware.bios \in Seq(Range(firmware.bios)) /\ firmware.ebda \in Seq(Range(firmware.ebda))
  BY FirmwareAssumption, Zenon
<1>2. \E s \in Rsdps : r = <<s>>
  <2>1. CASE firmware.ebda_seg # 0 /\ scan_for_rsdp(firmware.ebda) # NULL
    <3>1. r = scan_for_rsdp(firmware.ebda)
      BY <2>1, Zenon DEF acpi_find_rsdp_bios
    <3>2. PICK s \in Range(firmware.ebda) : s.sig /\ s.sum /\ r = <<s>>
      BY <1>1, <2>1, <3>1, FirstRsdp, Zenon
    <3>3. s \in Rsdps
      BY <2>1, <3>2, Zenon DEF Rsdps
    <3>4. QED
      BY <3>2, <3>3, Zenon
  <2>2. CASE ~(firmware.ebda_seg # 0 /\ scan_for_rsdp(firmware.ebda) # NULL)
    <3>1. r = scan_for_rsdp(firmware.bios)
      BY <2>2, Zenon DEF acpi_find_rsdp_bios
    <3>2. firmware.ebda_seg # 0 => \A s \in Range(firmware.ebda) : ~(s.sig /\ s.sum)
      BY <1>1, <2>2, FirstRsdp, Zenon
    <3>3. PICK q \in Rsdps : q.sig /\ q.sum
      BY Zenon DEF MadtFound, Rsdps
    <3>4. q \in Range(firmware.bios)
      BY <3>2, <3>3, Zenon DEF Rsdps
    <3>5. r # NULL
      BY <1>1, <3>1, <3>3, <3>4, FirstRsdp, Zenon
    <3>6. PICK s \in Range(firmware.bios) : s.sig /\ s.sum /\ r = <<s>>
      BY <1>1, <3>1, <3>5, FirstRsdp, Zenon
    <3>7. s \in Rsdps
      BY <3>6, Zenon DEF Rsdps
    <3>8. QED
      BY <3>6, <3>7, Zenon
  <2>3. QED
    BY <2>1, <2>2, Zenon
<1>3. PICK s \in Rsdps : r = <<s>>
  BY <1>2, Zenon
<1> HIDE DEF r
<1> DEFINE tables == root_tables(s)
<1>4. "APIC" \in Range(tables)
  BY Zenon DEF MadtFound, root_tables
<1> HIDE DEF tables
<1>5. \E k \in DOMAIN tables : tables[k] = "APIC"
  BY <1>4, Zenon DEF Range
<1>6. r # NULL /\ r[1] = s
  BY <1>3, Zenon DEF NULL
<1>7. find_madt(firmware, r) = <<firmware.madt>>
  BY <1>5, <1>6, Zenon DEF find_madt, tables
<1>8. QED
  BY <1>7, Zenon DEF r

(* The enabled CPUs of a machine, by the entries that list them.           *)
LEMMA EnabledIs ==
  ASSUME NEW f \in Firmwares
  PROVE  LET es == f.madt.entries
         IN  /\ Len(es) \in Nat /\ DOMAIN es = 1 .. Len(es)
             /\ Enabled(f) = {es[j].id : j \in {k \in 1 .. Len(es) : LapicOn(es, k)}}
             /\ IsFiniteSet(Enabled(f))
             /\ Enabled(f) \subseteq Ids /\ f.bsp \in Ids
<1> DEFINE es == f.madt.entries
           J == {k \in 1 .. Len(es) : LapicOn(es, k)}
<1>1. Len(es) \in Nat /\ DOMAIN es = 1 .. Len(es)
  <2>1. es \in Seq(Range(es))
    BY FirmwareAssumption, Zenon
  <2> HIDE DEF es
  <2>2. QED
    BY <2>1
<1>2. Enabled(f) = {es[j].id : j \in J}
  BY <1>1, Zenon DEF Enabled, Range, LapicOn
<1>3. Enabled(f) \subseteq Ids /\ f.bsp \in Ids
  BY DEF Enabled, Ids
<1>4. IsFiniteSet(Enabled(f))
  <2> DEFINE g == [j \in J |-> es[j].id]
  <2>1. g \in Surjection(J, Enabled(f))
    BY <1>2, Zenon DEF Surjection
  <2>2. IsFiniteSet(J)
    <3>1. IsFiniteSet(1 .. Len(es)) /\ J \in SUBSET (1 .. Len(es))
      BY <1>1, FS_Interval
    <3> HIDE DEF J
    <3>2. QED
      BY <3>1, FS_Subset, Zenon
  <2> HIDE DEF g, J
  <2>3. QED
    BY <2>1, <2>2, FS_Surjection, Zenon
<1>5. QED
  BY <1>1, <1>2, <1>3, <1>4, Zenon

(* The list of smp_start_aps: enabled CPUs, each once, at most MAX_AP_CPUS *)
(* of them, and all of them if the MADT is found and the list has room.    *)
LEMMA FoundList ==
  ASSUME firmware \in Firmwares,
         NEW ids, ids = acpi_find_cpus(find_madt(firmware, acpi_find_rsdp_bios(firmware)), MAX_AP_CPUS)
  PROVE  /\ ids \in Seq(Enabled(firmware)) /\ Len(ids) <= MAX_AP_CPUS
         /\ \A a, b \in 1 .. Len(ids) : ids[a] = ids[b] => a = b
         /\ Roomy => \A c \in Enabled(firmware) : \E k \in 1 .. Len(ids) : c = ids[k]
<1> DEFINE es == firmware.madt.entries
           madt == find_madt(firmware, acpi_find_rsdp_bios(firmware))
           E == Enabled(firmware)
<1>1. madt = NULL \/ madt = <<firmware.madt>>
  BY Zenon DEF find_madt
<1>2. MAX_AP_CPUS \in Nat
  BY SmpAssumption, Zenon
<1>3. CASE madt = NULL
  <2>1. ids = << >>
    BY <1>3, Zenon DEF acpi_find_cpus
  <2>2. ~Roomy
    <3>1. <<firmware.madt>> # NULL
      BY Zenon DEF NULL
    <3>2. QED
      BY <1>3, <3>1, MadtThere, Zenon DEF Roomy
  <2>3. QED
    BY <1>2, <2>1, <2>2
<1>4. CASE madt = <<firmware.madt>>
  <2>1. ids = list_cpus(es, MAX_AP_CPUS)[Len(es)]
    <3>1. madt # NULL /\ madt[1] = firmware.madt
      BY <1>4 DEF NULL
    <3>2. QED
      BY <3>1, Zenon DEF acpi_find_cpus
  <2>2. /\ Len(es) \in Nat /\ DOMAIN es = 1 .. Len(es) /\ IsFiniteSet(E)
        /\ E = {es[j].id : j \in {k \in 1 .. Len(es) : LapicOn(es, k)}}
    BY EnabledIs, Zenon
  <2>3. \A j, k \in 1 .. Len(es) :
          es[j].type = "lapic" /\ es[k].type = "lapic" /\ es[j].id = es[k].id => j = k
    BY <2>2, FirmwareAssumption, Zenon
  <2> HIDE DEF es, E
  <2>4. Lists(es, MAX_AP_CPUS, ids, Len(es))
    BY <1>2, <2>1, <2>2, <2>3, ListAll, Zenon
  <2>5. /\ Len(ids) \in Nat /\ Len(ids) <= MAX_AP_CPUS /\ ids \in [1 .. Len(ids) -> E]
        /\ ids \in Seq(E)
    <3>1. /\ ids \in Seq({es[j].id : j \in 1 .. Len(es)}) /\ Len(ids) <= MAX_AP_CPUS
          /\ \A a \in 1 .. Len(ids) : \E j \in 1 .. Len(es) : LapicOn(es, j) /\ ids[a] = es[j].id
      BY <2>4, Zenon DEF Lists
    <3>2. \A a \in 1 .. Len(ids) : ids[a] \in E
      BY <2>2, <3>1, Zenon
    <3>3. QED
      BY <3>1, <3>2
  <2>6. \A a, b \in 1 .. Len(ids) : ids[a] = ids[b] => a = b
    BY <2>4, Zenon DEF Lists
  <2>7. ASSUME Roomy, NEW c \in E PROVE \E k \in 1 .. Len(ids) : c = ids[k]
    <3>1. CASE Len(ids) = MAX_AP_CPUS
      <4> DEFINE n == Len(ids)
      <4>1. ids \in Injection(1 .. n, E)
        BY <2>5, <2>6, Zenon DEF Injection, IsInjective
      <4>2. Cardinality(1 .. n) = n
        <5>1. n \in Int /\ 1 \in Int /\ n \in Nat
          BY <2>5
        <5> HIDE DEF n
        <5>2. Cardinality(1 .. n) = IF 1 > n THEN 0 ELSE n - 1 + 1
          BY <5>1, FS_Interval, Zenon
        <5>3. QED
          BY <5>1, <5>2
      <4>3. Cardinality(E) <= n /\ Cardinality(E) \in Nat
        BY <2>2, <2>7, <3>1, FS_CardinalityType, Zenon DEF Roomy, E
      <4> HIDE DEF n
      <4>4. Cardinality(1 .. n) <= Cardinality(E)
        BY <2>2, <4>1, FS_Injection, Zenon
      <4>5. Cardinality(1 .. n) = Cardinality(E)
        BY <2>5, <4>2, <4>3, <4>4 DEF n
      <4>6. ids \in Surjection(1 .. n, E)
        BY <2>2, <4>1, <4>5, FS_Injection, Zenon
      <4>7. QED
        BY <4>6, Zenon DEF Surjection, n
    <3>2. CASE Len(ids) # MAX_AP_CPUS
      <4>1. \A j \in 1 .. Len(es) : LapicOn(es, j) => \E a \in 1 .. Len(ids) : ids[a] = es[j].id
        BY <2>4, <3>2, Zenon DEF Lists
      <4>2. PICK j \in 1 .. Len(es) : LapicOn(es, j) /\ c = es[j].id
        BY <2>2, Zenon
      <4>3. QED
        BY <4>1, <4>2, Zenon
    <3>3. QED
      BY <3>1, <3>2, Zenon
  <2>8. QED
    BY <2>5, <2>6, <2>7, Zenon DEF E
<1>5. QED
  BY <1>1, <1>3, <1>4, Zenon
-----------------------------------------------------------------------------
(* What depends on the machine alone never changes.                        *)
LEMMA SameMachine ==
  ASSUME firmware' = firmware
  PROVE  /\ BSP' = BSP /\ APs' = APs /\ Enabled(firmware)' = Enabled(firmware) /\ (Roomy' <=> Roomy)
         /\ \A c : Slot(c)' = Slot(c) /\ (Clash(c)' <=> Clash(c))
<1>1. BSP' = BSP /\ APs' = APs
  BY Zenon DEF BSP, APs
<1>2. Enabled(firmware)' = Enabled(firmware)
  BY Zenon DEF Enabled
<1>3. Rsdps' = Rsdps
  BY Zenon DEF Rsdps
<1>4. MadtFound' <=> MadtFound
  BY <1>3, Zenon DEF MadtFound
<1>5. Roomy' <=> Roomy
  BY <1>2, <1>4, Zenon DEF Roomy
<1>6. \A c : Slot(c)' = Slot(c)
  BY <1>1, Zenon DEF Slot
<1>7. \A c : Clash(c)' <=> Clash(c)
  BY <1>1, <1>2, <1>6, Zenon DEF Clash
<1>8. QED
  BY <1>1, <1>2, <1>5, <1>6, <1>7, Zenon

(* The CPUs of the machine, and its list.                                  *)
LEMMA Machine0 ==
  ASSUME SmpType
  PROVE  /\ BSP \in Ids /\ Enabled(firmware) \subseteq Ids /\ Ids \subseteq Nat
         /\ Len(apic_ids) \in Nat /\ dead \subseteq Ids
         /\ \A k \in 1 .. Len(apic_ids) : apic_ids[k] \in Enabled(firmware) /\ apic_ids[k] \in Ids
<1>1. BSP \in Ids /\ Enabled(firmware) \subseteq Ids
  BY EnabledIs, Zenon DEF SmpType, BSP
<1>2. QED
  BY <1>1, SmpAssumption DEF SmpType

(* The slot of a CPU in the array of TSSs.                                 *)
LEMMA SlotIs ==
  ASSUME NEW c \in Nat
  PROVE  /\ get_cpu_index(c) \in Nat /\ Slot(c) \in Nat /\ slot(c) \in Nat
         /\ c # BSP => slot(c) = Slot(c)
BY SmpAssumption, Zenon DEF get_cpu_index, Slot, slot

(* At the start no AP runs and the list is empty.                          *)
LEMMA InitS == Init => SInv
<1> SUFFICES ASSUME Init PROVE SInv
  BY Zenon
<1>1. /\ firmware \in Firmwares /\ dead \subseteq Enabled(firmware) \ {BSP}
      /\ bsp = "find" /\ i = 1 /\ started = 0 /\ stacks = 0 /\ apic_ids = << >> /\ confirmed = {}
      /\ mbox_stack = NONE /\ g_ap_index_starting = NONE
      /\ ap_ready = [k \in 0 .. MAX_AP_CPUS - 1 |-> FALSE]
      /\ ap = [c \in Ids |-> "off"] /\ stack = [c \in Ids |-> NONE]
      /\ tss = [c \in Ids |-> IF c = BSP THEN 0 ELSE NONE]
      /\ rsp0 = [k \in 0 .. MAX_TSS_CPUS - 1 |-> k = 0]
  BY Zenon DEF Init
<1>2. 0 \in 0 .. MAX_TSS_CPUS - 1
  BY SmpAssumption
<1>3. SmpType
  <2>1. << >> \in Seq(Enabled(firmware))
    OBVIOUS
  <2>2. ap \in [Ids -> ApPoints] /\ stack \in [Ids -> {NONE} \union 1 .. stacks]
    BY <1>1, Zenon DEF ApPoints
  <2>3. tss \in [Ids -> {NONE} \union 0 .. MAX_TSS_CPUS - 1]
    BY <1>1, <1>2, Zenon
  <2>4. rsp0 \in [0 .. MAX_TSS_CPUS - 1 -> BOOLEAN] /\ ap_ready \in [0 .. MAX_AP_CPUS - 1 -> BOOLEAN]
    BY <1>1, Zenon
  <2>5. QED
    BY <1>1, <2>1, <2>2, <2>3, <2>4 DEF SmpType, BspPoints
<1>4. BSP \in Ids /\ \A c \in Ids : ap[c] = "off" /\ (tss[c] # NONE => c = BSP)
  BY <1>1, <1>3, Machine0, Zenon
<1>5. ListInv
  BY <1>1, SmpAssumption DEF ListInv
<1>6. ApInv
  <2>1. dead \subseteq Ids
    BY <1>3, Machine0, Zenon
  <2>2. QED
    BY <1>4, <2>1, Zenon DEF ApInv
<1>7. TssInv
  <2>1. tss[BSP] = 0 /\ rsp0[0]
    <3>1. tss[BSP] = 0
      BY <1>1, <1>4, Zenon
    <3>2. rsp0[0] = (0 = 0)
      BY <1>1, <1>2, Zenon
    <3>3. QED
      BY <3>1, <3>2, Zenon
  <2>2. Slot(BSP) = 0
    BY Zenon DEF Slot
  <2>3. QED
    BY <1>4, <2>1, <2>2, Zenon DEF TssInv, APs
<1>8. OrderInv
  <2>1. IsFiniteSet(confirmed) /\ Cardinality(confirmed) = started
    BY <1>1, FS_EmptySet, Zenon
  <2>2. 1 .. i - 1 = {}
    BY <1>1
  <2>3. QED
    BY <1>1, <1>4, <2>1, <2>2, Zenon DEF OrderInv, Running
<1>9. QED
  BY <1>3, <1>5, <1>6, <1>7, <1>8, Zenon DEF SInv

(* A step that leaves the APs and their TSSs alone keeps TssInv.           *)
LEMMA TssSame ==
  ASSUME TssInv, UNCHANGED <<firmware, ap, tss, rsp0>>
  PROVE  TssInv'
<1>1. /\ BSP' = BSP /\ APs' = APs /\ Enabled(firmware)' = Enabled(firmware)
      /\ \A c : Slot(c)' = Slot(c) /\ (Clash(c)' <=> Clash(c))
  BY SameMachine, Zenon
<1>2. QED
  BY <1>1, Zenon DEF TssInv

(* Reading the list.                                                       *)
LEMMA FindKeeps == ASSUME SInv, find_cpus PROVE SInv'
<1>1. /\ bsp = "find" /\ bsp' = (IF Len(apic_ids') <= 1 THEN "done" ELSE "loop")
      /\ UNCHANGED <<firmware, dead, i, started, confirmed, missed, stacks, mbox_stack,
                     ap_ready, g_ap_index_starting, ap, stack, tss, rsp0>>
      /\ apic_ids' = acpi_find_cpus(find_madt(firmware, acpi_find_rsdp_bios(firmware)), MAX_AP_CPUS)
  BY Zenon DEF find_cpus, apVars
<1>2. SmpType /\ ListInv /\ ApInv /\ TssInv /\ firmware \in Firmwares
  BY Zenon DEF SInv, SmpType
<1>3. /\ apic_ids' \in Seq(Enabled(firmware)) /\ Len(apic_ids') <= MAX_AP_CPUS
      /\ \A a, b \in 1 .. Len(apic_ids') : apic_ids'[a] = apic_ids'[b] => a = b
      /\ Roomy => \A c \in Enabled(firmware) : \E k \in 1 .. Len(apic_ids') : c = apic_ids'[k]
  <2> DEFINE ids == acpi_find_cpus(find_madt(firmware, acpi_find_rsdp_bios(firmware)), MAX_AP_CPUS)
  <2>1. ids = acpi_find_cpus(find_madt(firmware, acpi_find_rsdp_bios(firmware)), MAX_AP_CPUS)
    BY Zenon
  <2>2. apic_ids' = ids
    BY <1>1, Zenon
  <2> HIDE DEF ids
  <2>3. /\ ids \in Seq(Enabled(firmware)) /\ Len(ids) <= MAX_AP_CPUS
        /\ \A a, b \in 1 .. Len(ids) : ids[a] = ids[b] => a = b
        /\ Roomy => \A c \in Enabled(firmware) : \E k \in 1 .. Len(ids) : c = ids[k]
    BY <1>2, <2>1, FoundList, Zenon
  <2>4. QED
    BY <2>2, <2>3, Zenon
<1>4. /\ BSP' = BSP /\ Enabled(firmware)' = Enabled(firmware) /\ (Roomy' <=> Roomy)
      /\ bsp' \in {"done", "loop"} /\ (bsp' = "done" => Len(apic_ids') <= 1)
  BY <1>1, SameMachine, Zenon
<1>5. SmpType'
  BY <1>1, <1>2, <1>3, <1>4, Zenon DEF SmpType, BspPoints
<1>6. i = 1 /\ i' = 1 /\ Len(apic_ids) = 0 /\ Len(apic_ids') \in Nat /\ started' < i'
  BY <1>1, <1>2, <1>3 DEF ListInv
<1>7. ListInv'
  BY <1>1, <1>3, <1>4, <1>6 DEF ListInv
<1>8. \A c \in Ids : ap[c] = "off"
  BY <1>2, <1>6 DEF ApInv
<1>9. ApInv'
  BY <1>1, <1>2, <1>8, Machine0, Zenon DEF ApInv
<1>10. TssInv'
  BY <1>1, <1>2, TssSame, Zenon
<1>11. missed' = {} => OrderInv'
  <2> SUFFICES ASSUME missed' = {} PROVE OrderInv'
    BY Zenon
  <2>1. OrderInv /\ 1 .. i' - 1 = {} /\ 1 .. i - 1 = {}
    BY <1>1, <1>6 DEF SInv
  <2>2. confirmed = {}
    BY <2>1, Zenon DEF OrderInv
  <2>3. QED
    BY <1>1, <1>4, <1>8, <2>1, <2>2, Zenon DEF OrderInv, Running
<1>12. QED
  BY <1>5, <1>7, <1>9, <1>10, <1>11, Zenon DEF SInv

(* The end of the list.                                                    *)
LEMMA FinishKeeps == ASSUME SInv, finish PROVE SInv'
<1>1. /\ bsp = "loop" /\ bsp' = "done" /\ ~More
      /\ UNCHANGED <<firmware, apic_ids, dead, i, started, confirmed, missed, stacks, mbox_stack,
                     ap_ready, g_ap_index_starting, ap, stack, tss, rsp0>>
  BY Zenon DEF finish, apVars
<1>2. SmpType /\ ListInv /\ ApInv /\ TssInv /\ Len(apic_ids) \in Nat /\ i \in Nat /\ started \in Nat
  BY Machine0, Zenon DEF SInv, SmpType
<1>3. BSP' = BSP /\ Enabled(firmware)' = Enabled(firmware) /\ (Roomy' <=> Roomy)
  BY <1>1, SameMachine, Zenon
<1>4. SmpType'
  BY <1>1, <1>2, <1>3, Zenon DEF SmpType, BspPoints
<1>5. i = Len(apic_ids) + 1
  BY <1>1, <1>2, SmpAssumption DEF More, ListInv
<1>6. ListInv'
  <2>1. /\ i' <= Len(apic_ids') + 1 /\ started' < i' /\ Len(apic_ids') <= MAX_AP_CPUS
        /\ \A a, b \in 1 .. Len(apic_ids') : apic_ids'[a] = apic_ids'[b] => a = b
    BY <1>1, <1>2 DEF ListInv
  <2>2. Roomy' => \A c \in Enabled(firmware)' : \E k \in 1 .. Len(apic_ids') : c = apic_ids'[k]
    BY <1>1, <1>2, <1>3, Zenon DEF ListInv
  <2>3. QED
    BY <1>1, <1>5, <2>1, <2>2, Zenon DEF ListInv
<1>7. ApInv'
  BY <1>1, <1>2, <1>3, Zenon DEF ApInv
<1>8. TssInv'
  BY <1>1, <1>2, TssSame, Zenon
<1>9. missed' = {} => OrderInv'
  BY <1>1, <1>3, Zenon DEF SInv, OrderInv
<1>10. QED
  BY <1>4, <1>6, <1>7, <1>8, <1>9, Zenon DEF SInv

(* The boot processor is not started.                                      *)
LEMMA SkipKeeps == ASSUME SInv, skip_self PROVE SInv'
<1>1. /\ bsp = "loop" /\ More /\ apic_ids[i] = BSP /\ i' = i + 1
      /\ UNCHANGED <<firmware, apic_ids, dead, bsp, started, confirmed, missed, stacks, mbox_stack,
                     ap_ready, g_ap_index_starting, ap, stack, tss, rsp0>>
  BY Zenon DEF skip_self, apVars
<1>2. SmpType /\ ListInv /\ ApInv /\ TssInv /\ Len(apic_ids) \in Nat /\ i \in Nat \ {0} /\ started \in Nat
  BY Machine0, Zenon DEF SInv, SmpType
<1>3. BSP' = BSP /\ Enabled(firmware)' = Enabled(firmware) /\ (Roomy' <=> Roomy)
  BY <1>1, SameMachine, Zenon
<1>4. i + 1 \in Nat \ {0} /\ i + 1 <= Len(apic_ids) + 1 /\ started < i + 1
  BY <1>1, <1>2 DEF More, ListInv
<1>5. SmpType'
  BY <1>1, <1>2, <1>3, <1>4, Zenon DEF SmpType
<1>6. ListInv'
  BY <1>1, <1>2, <1>3, <1>4 DEF ListInv
<1>7. ApInv'
  <2>1. \A k : k \in 1 .. Len(apic_ids) /\ k < i => k < i + 1
    BY <1>2
  <2>2. QED
    BY <1>1, <1>2, <1>3, <2>1, Zenon DEF ApInv
<1>8. TssInv'
  BY <1>1, <1>2, TssSame, Zenon
<1>9. missed' = {} => OrderInv'
  <2> SUFFICES ASSUME missed' = {} PROVE OrderInv'
    BY Zenon
  <2>1. OrderInv
    BY <1>1, Zenon DEF SInv
  <2>2. \A k \in 1 .. i' - 1 : k \in 1 .. i - 1 \/ k = i
    BY <1>1, <1>2
  <2>3. \A k \in 1 .. i - 1 : k \in 1 .. i' - 1
    BY <1>1, <1>2
  <2>4. \A k \in 1 .. i' - 1 : apic_ids[k] \in confirmed \union dead \union {BSP}
    BY <1>1, <2>1, <2>2, Zenon DEF OrderInv
  <2>5. QED
    BY <1>1, <1>3, <2>1, <2>3, <2>4, Zenon DEF OrderInv
<1>10. QED
  BY <1>5, <1>6, <1>7, <1>8, <1>9, Zenon DEF SInv

(* The trampoline page, with its mailbox, is written over.                 *)
LEMMA CopyKeeps == ASSUME SInv, copy_trampoline PROVE SInv'
<1>1. /\ bsp = "loop" /\ More /\ apic_ids[i] # BSP /\ mbox_stack' = NONE /\ bsp' = "fill"
      /\ UNCHANGED <<firmware, apic_ids, dead, i, started, confirmed, missed, stacks,
                     ap_ready, g_ap_index_starting, ap, stack, tss, rsp0>>
  BY Zenon DEF copy_trampoline, apVars
<1>2. SmpType /\ ListInv /\ ApInv /\ TssInv /\ i <= Len(apic_ids)
  BY <1>1, Zenon DEF SInv, More
<1>3. BSP' = BSP /\ Enabled(firmware)' = Enabled(firmware) /\ (Roomy' <=> Roomy)
  BY <1>1, SameMachine, Zenon
<1>4. SmpType'
  BY <1>1, <1>2, <1>3, Zenon DEF SmpType, BspPoints
<1>5. ListInv'
  BY <1>1, <1>2, <1>3 DEF ListInv
<1>6. ApInv'
  BY <1>1, <1>2, <1>3, Zenon DEF ApInv
<1>7. TssInv'
  BY <1>1, <1>2, TssSame, Zenon
<1>8. missed' = {} => OrderInv'
  BY <1>1, <1>3, Zenon DEF SInv, OrderInv
<1>9. QED
  BY <1>4, <1>5, <1>6, <1>7, <1>8, Zenon DEF SInv

(* A new stack goes into the mailbox, and the flag is cleared.             *)
LEMMA FillKeeps == ASSUME SInv, fill_mailbox PROVE SInv'
<1>1. /\ bsp = "fill" /\ stacks' = stacks + 1 /\ mbox_stack' = stacks' /\ bsp' = "sipi"
      /\ ap_ready' = [ap_ready EXCEPT ![started] = FALSE] /\ g_ap_index_starting' = started
      /\ UNCHANGED <<firmware, apic_ids, dead, i, started, confirmed, missed, ap, stack, tss, rsp0>>
  BY Zenon DEF fill_mailbox, new_stack, apVars
<1>2. /\ SmpType /\ ListInv /\ ApInv /\ TssInv /\ i <= Len(apic_ids) /\ stacks \in Nat
      /\ Len(apic_ids) \in Nat /\ started \in Nat /\ i \in Nat
      /\ ap_ready \in [0 .. MAX_AP_CPUS - 1 -> BOOLEAN]
  BY <1>1, Machine0, Zenon DEF SInv, ListInv, SmpType
<1>3. BSP' = BSP /\ Enabled(firmware)' = Enabled(firmware) /\ (Roomy' <=> Roomy)
  BY <1>1, SameMachine, Zenon
<1>4. started \in 0 .. MAX_AP_CPUS - 1
  BY <1>2, SmpAssumption DEF ListInv
<1>5. SmpType'
  <2>1. stacks' \in Nat /\ mbox_stack' \in {NONE} \union 1 .. stacks'
    BY <1>1, <1>2
  <2>2. ap_ready' \in [0 .. MAX_AP_CPUS - 1 -> BOOLEAN]
    BY <1>1, <1>2, <1>4, Zenon
  <2>3. \A c \in Ids : stack[c] \in {NONE} \union 1 .. stacks'
    BY <1>1, <1>2 DEF SmpType
  <2>4. stack' \in [Ids -> {NONE} \union 1 .. stacks']
    BY <1>1, <1>2, <2>3, Zenon DEF SmpType
  <2>5. QED
    BY <1>1, <1>2, <1>3, <1>4, <2>1, <2>2, <2>4, Zenon DEF SmpType, BspPoints
<1>6. ListInv'
  BY <1>1, <1>2, <1>3 DEF ListInv
<1>7. ApInv'
  BY <1>1, <1>2, <1>3, Zenon DEF ApInv
<1>8. TssInv'
  BY <1>1, <1>2, TssSame, Zenon
<1>9. missed' = {} => OrderInv'
  <2> SUFFICES ASSUME missed' = {} PROVE OrderInv'
    BY Zenon
  <2>1. OrderInv
    BY <1>1, Zenon DEF SInv
  <2>2. ~ap_ready'[started']
    BY <1>1, <1>2, <1>4, Zenon
  <2>3. ASSUME NEW c \in Ids, ap[c] \in Running
        PROVE  stack[c] # NONE /\ c \in confirmed /\ stack[c] # stacks'
    <3>1. c \in confirmed
      <4>1. ap[c] # "off" /\ ap[c] # "sipi"
        BY <2>3, Zenon DEF Running
      <4>2. c \notin dead
        BY <1>2, <4>1, Zenon DEF ApInv
      <4>3. QED
        BY <1>1, <2>1, <4>1, <4>2, Zenon DEF OrderInv
    <3>2. stack[c] # NONE /\ stack[c] \in {NONE} \union 1 .. stacks
      BY <1>2, <2>1, <2>3, Zenon DEF OrderInv, SmpType
    <3>3. QED
      BY <1>1, <1>2, <3>1, <3>2
  <2>4. QED
    BY <1>1, <1>3, <2>1, <2>2, <2>3, Zenon DEF OrderInv
<1>10. QED
  BY <1>5, <1>6, <1>7, <1>8, <1>9, Zenon DEF SInv

(* The AP that is started was off: it is in the list once.                 *)
LEMMA CurrentOff ==
  ASSUME SInv, bsp \in {"fill", "sipi"}
  PROVE  /\ apic_ids[i] \in Enabled(firmware) \ {BSP} /\ apic_ids[i] \in Ids
         /\ ap[apic_ids[i]] = "off" /\ i \in 1 .. Len(apic_ids)
<1>1. SmpType /\ ListInv /\ ApInv /\ i \in Nat \ {0} /\ Len(apic_ids) \in Nat
  BY Machine0, Zenon DEF SInv, SmpType
<1>2. i \in 1 .. Len(apic_ids) /\ apic_ids[i] # BSP
  BY <1>1 DEF ListInv
<1>3. apic_ids[i] \in Enabled(firmware) /\ apic_ids[i] \in Ids
  BY <1>1, <1>2, Machine0, Zenon
<1>4. ASSUME ap[apic_ids[i]] # "off" PROVE FALSE
  <2>1. PICK k \in 1 .. Len(apic_ids) : apic_ids[i] = apic_ids[k] /\ (k < i \/ (k = i /\ bsp = "wait"))
    BY <1>1, <1>3, <1>4, Zenon DEF ApInv
  <2>2. k = i
    BY <1>1, <1>2, <2>1, Zenon DEF ListInv
  <2>3. QED
    BY <1>1, <2>1, <2>2
<1>5. QED
  BY <1>2, <1>3, <1>4, Zenon

(* The INIT and start-up interrupts.                                       *)
LEMMA SipiKeeps == ASSUME SInv, send_init_sipi_sipi PROVE SInv'
<1> DEFINE cur == apic_ids[i]
<1>1. /\ bsp = "sipi" /\ ap' = [ap EXCEPT ![cur] = "sipi"] /\ bsp' = "wait"
      /\ UNCHANGED <<firmware, apic_ids, dead, i, started, confirmed, missed, stacks, mbox_stack,
                     ap_ready, g_ap_index_starting, stack, tss, rsp0>>
  BY Zenon DEF send_init_sipi_sipi
<1>2. /\ SmpType /\ ListInv /\ ApInv /\ TssInv /\ i \in Nat /\ ap \in [Ids -> ApPoints]
  BY Zenon DEF SInv, SmpType
<1>3. /\ cur \in Enabled(firmware) \ {BSP} /\ cur \in Ids /\ ap[cur] = "off" /\ i \in 1 .. Len(apic_ids)
  BY <1>1, CurrentOff, Zenon
<1> HIDE DEF cur
<1>4. ap'[cur] = "sipi" /\ \A c \in Ids : c # cur => ap'[c] = ap[c]
  BY <1>1, <1>2, <1>3, Zenon
<1>5. /\ BSP' = BSP /\ APs' = APs /\ Enabled(firmware)' = Enabled(firmware) /\ (Roomy' <=> Roomy)
      /\ \A c : Slot(c)' = Slot(c) /\ (Clash(c)' <=> Clash(c))
  BY <1>1, SameMachine, Zenon
<1>6. SmpType'
  <2>1. ap' \in [Ids -> ApPoints]
    <3>1. "sipi" \in ApPoints
      BY Zenon DEF ApPoints
    <3>2. QED
      BY <1>1, <1>2, <3>1, Zenon
  <2>2. QED
    BY <1>1, <1>2, <1>5, <2>1, Zenon DEF SmpType, BspPoints
<1>7. ListInv'
  BY <1>1, <1>2, <1>5 DEF ListInv
<1>8. ApInv'
  <2>1. dead \subseteq Ids
    BY <1>2, Machine0, Zenon
  <2>2. \A c \in dead : ap'[c] \in {"off", "sipi"}
    BY <1>2, <1>4, <2>1, Zenon DEF ApInv
  <2>3. ASSUME NEW c \in Ids, ap'[c] # "off"
        PROVE  /\ c \in Enabled(firmware) \ {BSP}
               /\ \E k \in 1 .. Len(apic_ids) : c = apic_ids[k] /\ (k < i \/ k = i)
    <3>1. CASE c = cur
      BY <1>3, <3>1, Zenon DEF cur
    <3>2. CASE c # cur
      BY <1>2, <1>4, <2>3, <3>2, Zenon DEF ApInv
    <3>3. QED
      BY <3>1, <3>2, Zenon
  <2>4. QED
    BY <1>1, <1>5, <2>2, <2>3, Zenon DEF ApInv
<1>9. TssInv'
  <2>1. \A c \in Ids : ap'[c] \in {"timer", "up"} => ap[c] \in {"timer", "up"}
    BY <1>4, Zenon
  <2>2. QED
    BY <1>1, <1>2, <1>5, <2>1, Zenon DEF TssInv, APs
<1>10. missed' = {} => OrderInv'
  <2> SUFFICES ASSUME missed' = {} PROVE OrderInv'
    BY Zenon
  <2>1. OrderInv
    BY <1>1, Zenon DEF SInv
  <2>2. cur \notin confirmed
    BY <1>3, <2>1, Zenon DEF OrderInv
  <2>3. \A c \in Ids : ap'[c] \in Running => ap[c] \in Running /\ c # cur
    BY <1>4, Zenon DEF Running
  <2>4. \A c \in confirmed : c \in Ids /\ ap'[c] = "up"
    BY <1>4, <2>1, <2>2, Zenon DEF OrderInv
  <2>5. \A c \in Ids : ap'[c] # "off" /\ c \notin dead => c \in confirmed \/ c = cur
    BY <1>1, <1>4, <2>1, Zenon DEF OrderInv
  <2>6. ap_ready'[started'] <=> ap'[cur] = "up"
    <3>1. ~ap_ready'[started'] /\ ap'[cur] # "up"
      BY <1>1, <1>4, <2>1, Zenon DEF OrderInv
    <3>2. QED
      BY <3>1, Zenon
  <2>7. cur = apic_ids'[i'] /\ bsp' # "sipi" /\ bsp \in {"sipi", "wait"}
    BY <1>1, Zenon DEF cur
  <2>8. \A c \in Ids : ap'[c] # "off" /\ c \notin dead' =>
          c \in confirmed' \/ (bsp' = "wait" /\ c = apic_ids'[i'])
    BY <1>1, <2>5, <2>7, Zenon
  <2>9. /\ \A c \in confirmed' : c \in Ids /\ ap'[c] = "up" /\ \E k \in 1 .. i' - 1 : c = apic_ids'[k]
        /\ \A k \in 1 .. i' - 1 : apic_ids'[k] \in confirmed' \union dead' \union {BSP'}
        /\ IsFiniteSet(confirmed') /\ Cardinality(confirmed') = started'
        /\ \A c, d \in confirmed' : stack'[c] = stack'[d] => c = d
    BY <1>1, <1>5, <2>1, <2>4, Zenon DEF OrderInv
  <2>10. \A c \in Ids : ap'[c] \in Running =>
           /\ stack'[c] # NONE
           /\ c \in confirmed' /\ bsp' \in {"sipi", "wait"} => stack'[c] # stacks'
           /\ c \notin confirmed' => stack'[c] = stacks'
    <3>1. \A c \in Ids : ap[c] \in Running =>
            /\ stack[c] # NONE
            /\ c \in confirmed => stack[c] # stacks
            /\ c \notin confirmed => stack[c] = stacks
      BY <2>1, <2>7, Zenon DEF OrderInv
    <3>2. QED
      BY <1>1, <2>3, <3>1, Zenon
  <2>11. QED
    BY <2>6, <2>7, <2>8, <2>9, <2>10, Zenon DEF OrderInv
<1>11. QED
  BY <1>6, <1>7, <1>8, <1>9, <1>10, Zenon DEF SInv

(* The AP waited for has set its flag.                                     *)
LEMMA ConfirmKeeps == ASSUME SInv, confirm PROVE SInv'
<1> DEFINE cur == apic_ids[i]
<1>1. /\ bsp = "wait" /\ ap_ready[started] /\ confirmed' = confirmed \union {cur}
      /\ started' = started + 1 /\ i' = i + 1 /\ bsp' = "loop"
      /\ UNCHANGED <<firmware, apic_ids, dead, missed, stacks, mbox_stack, ap_ready,
                     g_ap_index_starting, ap, stack, tss, rsp0>>
  BY Zenon DEF confirm, apVars
<1>2. /\ SmpType /\ ListInv /\ ApInv /\ TssInv /\ i \in Nat \ {0} /\ started \in Nat
      /\ Len(apic_ids) \in Nat
  BY Machine0, Zenon DEF SInv, SmpType
<1>3. i \in 1 .. Len(apic_ids) /\ cur \in Ids
  BY <1>1, <1>2, Machine0 DEF ListInv
<1> HIDE DEF cur
<1>4. BSP' = BSP /\ Enabled(firmware)' = Enabled(firmware) /\ (Roomy' <=> Roomy)
  BY <1>1, SameMachine, Zenon
<1>5. i + 1 \in Nat \ {0} /\ i + 1 <= Len(apic_ids) + 1 /\ started + 1 < i + 1 /\ started + 1 \in Nat
  BY <1>2, <1>3 DEF ListInv
<1>6. SmpType'
  BY <1>1, <1>2, <1>4, <1>5, Zenon DEF SmpType, BspPoints
<1>7. ListInv'
  BY <1>1, <1>2, <1>4, <1>5 DEF ListInv
<1>8. ApInv'
  <2>1. \A k \in 1 .. Len(apic_ids) : k < i \/ k = i => k < i + 1
    BY <1>2
  <2>2. QED
    BY <1>1, <1>2, <1>4, <2>1 DEF ApInv
<1>9. TssInv'
  BY <1>1, <1>2, TssSame, Zenon
<1>10. missed' = {} => OrderInv'
  <2> SUFFICES ASSUME missed' = {} PROVE OrderInv'
    BY Zenon
  <2>1. OrderInv
    BY <1>1, Zenon DEF SInv
  <2>2. ap[cur] = "up" /\ ap[cur] \in Running
    BY <1>1, <2>1, Zenon DEF OrderInv, Running, cur
  <2>3. cur \notin confirmed
    <3> SUFFICES ASSUME cur \in confirmed PROVE FALSE
      BY Zenon
    <3>1. PICK k \in 1 .. i - 1 : cur = apic_ids[k]
      BY <2>1, Zenon DEF OrderInv
    <3>2. k \in 1 .. Len(apic_ids) /\ k # i
      BY <1>2, <1>3
    <3>3. QED
      BY <1>2, <1>3, <3>1, <3>2, Zenon DEF ListInv, cur
  <2>4. IsFiniteSet(confirmed') /\ Cardinality(confirmed') = started'
    BY <1>1, <2>1, <2>3, FS_AddElement, Zenon DEF OrderInv
  <2>5. i \in 1 .. i' - 1 /\ \A k \in 1 .. i - 1 : k \in 1 .. i' - 1
    BY <1>1, <1>2
  <2>6. \A k \in 1 .. i' - 1 : k \in 1 .. i - 1 \/ k = i
    BY <1>1, <1>2
  <2>7. \A c \in confirmed' : c \in Ids /\ ap'[c] = "up" /\ \E k \in 1 .. i' - 1 : c = apic_ids'[k]
    <3> SUFFICES ASSUME NEW c \in confirmed'
                 PROVE  c \in Ids /\ ap[c] = "up" /\ \E k \in 1 .. i' - 1 : c = apic_ids[k]
      BY <1>1, Zenon
    <3>1. CASE c = cur
      BY <1>3, <2>2, <2>5, <3>1, Zenon DEF cur
    <3>2. CASE c \in confirmed
      BY <2>1, <2>5, <3>2, Zenon DEF OrderInv
    <3>3. QED
      BY <1>1, <3>1, <3>2, Zenon
  <2>8. \A k \in 1 .. i' - 1 : apic_ids'[k] \in confirmed' \union dead' \union {BSP'}
    BY <1>1, <1>4, <2>1, <2>6, Zenon DEF OrderInv, cur
  <2>9. \A c, d \in confirmed' : stack'[c] = stack'[d] => c = d
    <3>1. stack[cur] = stacks
      BY <1>3, <2>1, <2>2, <2>3, Zenon DEF OrderInv
    <3>2. \A c \in confirmed : stack[c] # stacks
      <4>1. \A c \in confirmed : c \in Ids /\ ap[c] \in Running
        BY <2>1, Zenon DEF OrderInv, Running
      <4>2. QED
        BY <1>1, <2>1, <4>1, Zenon DEF OrderInv
    <3>3. \A c, d \in confirmed : stack[c] = stack[d] => c = d
      BY <2>1, Zenon DEF OrderInv
    <3>4. QED
      BY <1>1, <3>1, <3>2, <3>3, Zenon
  <2>10. \A c \in Ids : ap'[c] # "off" /\ c \notin dead' => c \in confirmed'
    BY <1>1, <2>1, Zenon DEF OrderInv, cur
  <2>11. \A c \in Ids : ap'[c] \in Running => stack'[c] # NONE /\ (c \notin confirmed' => stack'[c] = stacks')
    BY <1>1, <2>1, Zenon DEF OrderInv
  <2>12. bsp' \notin {"sipi", "wait"} /\ bsp' # "sipi" /\ bsp' # "wait"
    BY <1>1, Zenon
  <2>13. QED
    BY <2>4, <2>7, <2>8, <2>9, <2>10, <2>11, <2>12, Zenon DEF OrderInv
<1>11. QED
  BY <1>6, <1>7, <1>8, <1>9, <1>10, Zenon DEF SInv

(* The timeout.                                                            *)
LEMMA GiveUpKeeps == ASSUME SInv, give_up PROVE SInv'
<1> DEFINE cur == apic_ids[i]
<1>1. /\ bsp = "wait" /\ missed' = missed \union ({cur} \ dead)
      /\ i' = i + 1 /\ bsp' = "loop"
      /\ UNCHANGED <<firmware, apic_ids, dead, started, confirmed, stacks, mbox_stack, ap_ready,
                     g_ap_index_starting, ap, stack, tss, rsp0>>
  BY Zenon DEF give_up, apVars
<1>2. /\ SmpType /\ ListInv /\ ApInv /\ TssInv /\ i \in Nat \ {0} /\ started \in Nat
      /\ Len(apic_ids) \in Nat
  BY Machine0, Zenon DEF SInv, SmpType
<1>3. i \in 1 .. Len(apic_ids)
  BY <1>1, <1>2 DEF ListInv
<1>4. BSP' = BSP /\ Enabled(firmware)' = Enabled(firmware) /\ (Roomy' <=> Roomy)
  BY <1>1, SameMachine, Zenon
<1>5. i + 1 \in Nat \ {0} /\ i + 1 <= Len(apic_ids) + 1 /\ started < i + 1
  BY <1>2, <1>3 DEF ListInv
<1>6. SmpType'
  BY <1>1, <1>2, <1>4, <1>5, Zenon DEF SmpType, BspPoints
<1>7. ListInv'
  BY <1>1, <1>2, <1>4, <1>5 DEF ListInv
<1>8. ApInv'
  <2>1. \A k \in 1 .. Len(apic_ids) : k < i \/ k = i => k < i + 1
    BY <1>2
  <2>2. QED
    BY <1>1, <1>2, <1>4, <2>1, Zenon DEF ApInv
<1>9. TssInv'
  BY <1>1, <1>2, TssSame, Zenon
<1>10. missed' = {} => OrderInv'
  <2> SUFFICES ASSUME missed' = {} PROVE OrderInv'
    BY Zenon
  <2>1. missed = {} /\ cur \in dead
    BY <1>1, Zenon
  <2>2. OrderInv
    BY <2>1, Zenon DEF SInv
  <2>3. \A k \in 1 .. i - 1 : k \in 1 .. i' - 1
    BY <1>1, <1>2
  <2>4. \A k \in 1 .. i' - 1 : k \in 1 .. i - 1 \/ k = i
    BY <1>1, <1>2
  <2>5. \A c \in confirmed : c \in Ids /\ ap[c] = "up" /\ \E k \in 1 .. i' - 1 : c = apic_ids[k]
    BY <2>2, <2>3, Zenon DEF OrderInv
  <2>6. \A k \in 1 .. i' - 1 : apic_ids[k] \in confirmed \union dead \union {BSP}
    BY <2>1, <2>2, <2>4, Zenon DEF OrderInv
  <2>7. \A c \in Ids : ap[c] # "off" /\ c \notin dead => c \in confirmed
    BY <1>1, <2>1, <2>2, Zenon DEF OrderInv
  <2>8. bsp' \notin {"sipi", "wait"} /\ bsp' # "sipi" /\ bsp' # "wait"
    BY <1>1, Zenon
  <2>9. \A c \in Ids : ap'[c] # "off" /\ c \notin dead' => c \in confirmed'
    BY <1>1, <2>7, Zenon
  <2>10. \A c \in confirmed' : c \in Ids /\ ap'[c] = "up" /\ \E k \in 1 .. i' - 1 : c = apic_ids'[k]
    BY <1>1, <2>5, Zenon
  <2>11. \A k \in 1 .. i' - 1 : apic_ids'[k] \in confirmed' \union dead' \union {BSP'}
    BY <1>1, <1>4, <2>6, Zenon
  <2>12. IsFiniteSet(confirmed') /\ Cardinality(confirmed') = started'
    BY <1>1, <2>2, Zenon DEF OrderInv
  <2>13. \A c \in Ids : ap'[c] \in Running => stack'[c] # NONE /\ (c \notin confirmed' => stack'[c] = stacks')
    BY <1>1, <2>2, Zenon DEF OrderInv
  <2>14. \A c, d \in confirmed' : stack'[c] = stack'[d] => c = d
    BY <1>1, <2>2, Zenon DEF OrderInv
  <2>15. QED
    BY <2>8, <2>9, <2>10, <2>11, <2>12, <2>13, <2>14, Zenon DEF OrderInv
<1>11. QED
  BY <1>6, <1>7, <1>8, <1>9, <1>10, Zenon DEF SInv

(* A step of AP c to point p leaves where the boot processor is, and keeps *)
(* what ApInv says.                                                        *)
LEMMA ApStep ==
  ASSUME SInv, NEW c \in Ids, NEW p \in ApPoints, ap[c] # "off", c \notin dead,
         ap' = [ap EXCEPT ![c] = p],
         UNCHANGED <<firmware, apic_ids, dead, bsp, i, started, stacks, mbox_stack, g_ap_index_starting>>
  PROVE  /\ ListInv' /\ ApInv' /\ ap' \in [Ids -> ApPoints]
         /\ ap'[c] = p /\ \A d \in Ids : d # c => ap'[d] = ap[d]
         /\ c \in Enabled(firmware) \ {BSP} /\ c \in Nat
<1>1. SmpType /\ ListInv /\ ApInv /\ ap \in [Ids -> ApPoints] /\ dead \subseteq Ids /\ Ids \subseteq Nat
  BY Machine0, Zenon DEF SInv, SmpType
<1>2. ap' \in [Ids -> ApPoints] /\ ap'[c] = p /\ \A d \in Ids : d # c => ap'[d] = ap[d]
  BY <1>1, Zenon
<1>3. BSP' = BSP /\ Enabled(firmware)' = Enabled(firmware) /\ (Roomy' <=> Roomy)
  BY SameMachine, Zenon
<1>4. ListInv'
  BY <1>1, <1>3 DEF ListInv
<1>5. c \in Enabled(firmware) \ {BSP} /\ c \in Nat
  BY <1>1, Zenon DEF ApInv
<1>6. \A d \in Ids : ap'[d] # "off" => ap[d] # "off"
  BY <1>2, Zenon
<1>7. \A d \in dead : ap'[d] = ap[d]
  BY <1>1, <1>2, Zenon
<1>8. ApInv'
  BY <1>1, <1>3, <1>6, <1>7, Zenon DEF ApInv
<1>9. QED
  BY <1>2, <1>4, <1>5, <1>8, Zenon

(* The trampoline takes the stack of the mailbox.                          *)
LEMMA TrampolineKeeps == ASSUME SInv, NEW c \in Ids, ap_trampoline(c) PROVE SInv'
<1> DEFINE p == IF mbox_stack = NONE THEN "crash" ELSE "entry"
<1>1. /\ ap[c] = "sipi" /\ c \notin dead /\ ap[c] # "off"
      /\ stack' = [stack EXCEPT ![c] = mbox_stack] /\ ap' = [ap EXCEPT ![c] = p]
      /\ UNCHANGED <<firmware, apic_ids, dead, bsp, i, started, confirmed, missed, stacks,
                     mbox_stack, ap_ready, g_ap_index_starting, tss, rsp0>>
  BY Zenon DEF ap_trampoline, bspVars
<1>2. SmpType /\ ListInv /\ TssInv /\ stack \in [Ids -> {NONE} \union 1 .. stacks]
      /\ mbox_stack \in {NONE} \union 1 .. stacks
  BY Zenon DEF SInv, SmpType
<1>3. p \in ApPoints /\ p \notin {"off", "timer", "up"}
  BY Zenon DEF ApPoints
<1> HIDE DEF p
<1>4. /\ ListInv' /\ ApInv' /\ ap' \in [Ids -> ApPoints]
      /\ ap'[c] = p /\ \A d \in Ids : d # c => ap'[d] = ap[d]
  <2>1. UNCHANGED <<firmware, apic_ids, dead, bsp, i, started, stacks, mbox_stack, g_ap_index_starting>>
    BY <1>1, Zenon
  <2>2. QED
    BY <1>1, <1>3, <2>1, ApStep, Zenon
<1>5. stack' \in [Ids -> {NONE} \union 1 .. stacks] /\ stack'[c] = mbox_stack
      /\ \A d \in Ids : d # c => stack'[d] = stack[d]
  BY <1>1, <1>2, Zenon
<1>6. /\ BSP' = BSP /\ APs' = APs /\ Enabled(firmware)' = Enabled(firmware)
      /\ \A d : Slot(d)' = Slot(d) /\ (Clash(d)' <=> Clash(d))
  BY <1>1, SameMachine, Zenon
<1>7. SmpType'
  BY <1>1, <1>2, <1>4, <1>5, <1>6, Zenon DEF SmpType
<1>8. TssInv'
  <2>1. \A d \in Ids : ap'[d] \in {"timer", "up"} => ap[d] \in {"timer", "up"}
    BY <1>3, <1>4, Zenon
  <2>2. QED
    BY <1>1, <1>2, <1>6, <2>1, Zenon DEF TssInv, APs
<1>9. missed' = {} => OrderInv'
  <2> SUFFICES ASSUME missed' = {} PROVE OrderInv'
    BY Zenon
  <2>1. OrderInv
    BY <1>1, Zenon DEF SInv
  <2>2. c \notin confirmed
    BY <1>1, <2>1, Zenon DEF OrderInv
  <2>3. bsp = "wait" /\ c = apic_ids[i]
    BY <1>1, <2>1, <2>2, Zenon DEF OrderInv
  <2>4. mbox_stack = stacks
    BY <1>2, <2>3, Zenon DEF ListInv
  <2>5. mbox_stack # NONE
    BY <1>2, <2>4 DEF SmpType, NONE
  <2>6. \A d \in Ids : ap'[d] # "off" => ap[d] # "off"
    BY <1>1, <1>4, Zenon
  <2>7. \A d \in confirmed : d \in Ids /\ ap'[d] = "up" /\ stack'[d] = stack[d]
    BY <1>4, <1>5, <2>1, <2>2, Zenon DEF OrderInv
  <2>8. ASSUME NEW d \in Ids, ap'[d] \in Running
        PROVE  /\ stack'[d] # NONE
               /\ d \in confirmed /\ bsp \in {"sipi", "wait"} => stack'[d] # stacks
               /\ d \notin confirmed => stack'[d] = stacks
    <3>1. CASE d = c
      BY <1>5, <2>2, <2>4, <2>5, <3>1, Zenon
    <3>2. CASE d # c
      BY <1>4, <1>5, <2>1, <2>8, <3>2, Zenon DEF OrderInv
    <3>3. QED
      BY <3>1, <3>2, Zenon
  <2>9. ap_ready[started] <=> ap'[apic_ids[i]] = "up"
    <3>1. ~ap_ready[started]
      BY <1>1, <2>1, <2>3, Zenon DEF OrderInv
    <3>2. ap'[apic_ids[i]] # "up"
      BY <1>3, <1>4, <2>3, Zenon
    <3>3. QED
      BY <3>1, <3>2, Zenon
  <2>10. bsp # "sipi"
    BY <2>3, Zenon
  <2>11. \A d \in Ids : ap'[d] # "off" /\ d \notin dead => d \in confirmed \/ (bsp = "wait" /\ d = apic_ids[i])
    BY <2>1, <2>6, Zenon DEF OrderInv
  <2>12. \A d \in confirmed : d \in Ids /\ ap'[d] = "up" /\ \E k \in 1 .. i - 1 : d = apic_ids[k]
    BY <2>1, <2>7, Zenon DEF OrderInv
  <2>13. \A d, e \in confirmed : stack'[d] = stack'[e] => d = e
    <3>1. \A d, e \in confirmed : stack[d] = stack[e] => d = e
      BY <2>1, Zenon DEF OrderInv
    <3>2. QED
      BY <2>7, <3>1, Zenon
  <2>14. /\ \A k \in 1 .. i - 1 : apic_ids[k] \in confirmed \union dead \union {BSP}
         /\ IsFiniteSet(confirmed) /\ Cardinality(confirmed) = started
    BY <2>1, Zenon DEF OrderInv
  <2>15. \A d \in Ids : ap'[d] # "off" /\ d \notin dead' => d \in confirmed' \/ (bsp' = "wait" /\ d = apic_ids'[i'])
    BY <1>1, <2>11, Zenon
  <2>16. \A d \in confirmed' : d \in Ids /\ ap'[d] = "up" /\ \E k \in 1 .. i' - 1 : d = apic_ids'[k]
    BY <1>1, <2>12, Zenon
  <2>17. \A d, e \in confirmed' : stack'[d] = stack'[e] => d = e
    BY <1>1, <2>13, Zenon
  <2>18. /\ \A k \in 1 .. i' - 1 : apic_ids'[k] \in confirmed' \union dead' \union {BSP'}
         /\ IsFiniteSet(confirmed') /\ Cardinality(confirmed') = started'
    BY <1>1, <1>6, <2>14, Zenon
  <2>19. \A d \in Ids : ap'[d] \in Running =>
           /\ stack'[d] # NONE
           /\ d \in confirmed' /\ bsp' \in {"sipi", "wait"} => stack'[d] # stacks'
           /\ d \notin confirmed' => stack'[d] = stacks'
    BY <1>1, <2>8, Zenon
  <2>20. bsp' # "sipi" /\ (ap_ready'[started'] <=> ap'[apic_ids'[i']] = "up")
    BY <1>1, <2>9, <2>10, Zenon
  <2>21. QED
    BY <2>15, <2>16, <2>17, <2>18, <2>19, <2>20, Zenon DEF OrderInv
<1>10. QED
  BY <1>4, <1>7, <1>8, <1>9, Zenon DEF SInv

(* A step of AP c, on its stack, to a later point of ap_entry64.           *)
LEMMA RunningStep ==
  ASSUME SInv, NEW c \in Ids, NEW p \in Running, ap[c] \in Running \ {"up"}, c \notin dead,
         ap' = [ap EXCEPT ![c] = p], missed' = {},
         \/ p # "up" /\ ap_ready' = ap_ready
         \/ /\ p = "up"
            /\ ap_ready' = IF g_ap_index_starting >= 0
                             THEN [ap_ready EXCEPT ![g_ap_index_starting] = TRUE] ELSE ap_ready,
         UNCHANGED <<firmware, apic_ids, dead, bsp, i, started, confirmed, missed, stacks,
                     mbox_stack, g_ap_index_starting, stack>>
  PROVE  OrderInv'
<1>1. OrderInv /\ ListInv /\ SmpType /\ i \in Nat /\ started \in Nat /\ Len(apic_ids) \in Nat
  BY Machine0, Zenon DEF SInv, SmpType
<1>2. p \in ApPoints /\ ap[c] # "off" /\ ap[c] # "up" /\ p # "off" /\ ap[c] \in Running
  BY Zenon DEF Running, ApPoints
<1>3. ap'[c] = p /\ \A d \in Ids : d # c => ap'[d] = ap[d]
  <2>1. UNCHANGED <<firmware, apic_ids, dead, bsp, i, started, stacks, mbox_stack, g_ap_index_starting>>
    BY Zenon
  <2>2. QED
    BY <1>2, <2>1, ApStep, Zenon
<1>4. BSP' = BSP
  BY SameMachine, Zenon
<1>5. c \notin confirmed
  BY <1>1, <1>2, Zenon DEF OrderInv
<1>6. bsp = "wait" /\ c = apic_ids[i]
  BY <1>1, <1>2, <1>5, Zenon DEF OrderInv
<1>7. \A d \in Ids : (ap'[d] # "off" => ap[d] # "off") /\ (ap'[d] \in Running => ap[d] \in Running)
  BY <1>2, <1>3, Zenon
<1>8. \A d \in confirmed : d \in Ids /\ ap'[d] = "up"
  BY <1>1, <1>3, <1>5, Zenon DEF OrderInv
<1>9. ap_ready'[started] <=> ap'[apic_ids[i]] = "up"
  <2>1. ~ap_ready[started]
    BY <1>1, <1>2, <1>6, Zenon DEF OrderInv
  <2>2. CASE p # "up" /\ ap_ready' = ap_ready
    BY <1>3, <1>6, <2>1, <2>2, Zenon
  <2>3. CASE p = "up"
    <3>1. g_ap_index_starting = started /\ started >= 0
      BY <1>1, <1>6 DEF ListInv
    <3>2. started \in 0 .. MAX_AP_CPUS - 1
      BY <1>1, <1>6, SmpAssumption DEF ListInv
    <3>3. ap_ready' = [ap_ready EXCEPT ![started] = TRUE]
      BY <2>3, <3>1, Zenon
    <3>4. ap_ready \in [0 .. MAX_AP_CPUS - 1 -> BOOLEAN]
      BY <1>1, Zenon DEF SmpType
    <3>5. ap_ready'[started] = TRUE
      BY <3>2, <3>3, <3>4, Zenon
    <3>6. QED
      BY <1>3, <1>6, <2>3, <3>5, Zenon
  <2>4. QED
    BY <2>2, <2>3, Zenon
<1>10. bsp # "sipi"
  BY <1>6, Zenon
<1>11. \A d \in Ids : ap'[d] # "off" /\ d \notin dead => d \in confirmed \/ (bsp = "wait" /\ d = apic_ids[i])
  BY <1>1, <1>7, Zenon DEF OrderInv
<1>12. \A d \in confirmed : d \in Ids /\ ap'[d] = "up" /\ \E k \in 1 .. i - 1 : d = apic_ids[k]
  BY <1>1, <1>8, Zenon DEF OrderInv
<1>13. \A d \in Ids : ap'[d] \in Running =>
         /\ stack[d] # NONE
         /\ d \in confirmed /\ bsp \in {"sipi", "wait"} => stack[d] # stacks
         /\ d \notin confirmed => stack[d] = stacks
  BY <1>1, <1>7, Zenon DEF OrderInv
<1>14. /\ \A k \in 1 .. i - 1 : apic_ids[k] \in confirmed \union dead \union {BSP}
       /\ IsFiniteSet(confirmed) /\ Cardinality(confirmed) = started
       /\ \A d, e \in confirmed : stack[d] = stack[e] => d = e
  BY <1>1, Zenon DEF OrderInv
<1>15. \A d \in Ids : ap'[d] # "off" /\ d \notin dead' => d \in confirmed' \/ (bsp' = "wait" /\ d = apic_ids'[i'])
  BY <1>11, Zenon
<1>16. \A d \in confirmed' : d \in Ids /\ ap'[d] = "up" /\ \E k \in 1 .. i' - 1 : d = apic_ids'[k]
  BY <1>12, Zenon
<1>17. \A d \in Ids : ap'[d] \in Running =>
         /\ stack'[d] # NONE
         /\ d \in confirmed' /\ bsp' \in {"sipi", "wait"} => stack'[d] # stacks'
         /\ d \notin confirmed' => stack'[d] = stacks'
  BY <1>13, Zenon
<1>18. /\ \A k \in 1 .. i' - 1 : apic_ids'[k] \in confirmed' \union dead' \union {BSP'}
       /\ IsFiniteSet(confirmed') /\ Cardinality(confirmed') = started'
       /\ \A d, e \in confirmed' : stack'[d] = stack'[e] => d = e
  BY <1>4, <1>14, Zenon
<1>19. bsp' # "sipi" /\ (ap_ready'[started'] <=> ap'[apic_ids'[i']] = "up")
  BY <1>9, <1>10, Zenon
<1>20. QED
  BY <1>15, <1>16, <1>17, <1>18, <1>19, Zenon DEF OrderInv

(* gdt_setup_cpu_tss clears a slot: only a CPU with the same slot loses    *)
(* its stack by that.                                                      *)
LEMMA ClearKeeps == ASSUME SInv, NEW c \in Ids, ap_entry64_clear_tss(c) PROVE SInv'
<1>1. /\ ap[c] = "entry" /\ ap' = [ap EXCEPT ![c] = "tss"]
      /\ rsp0' = (IF slot(c) < MAX_TSS_CPUS THEN [rsp0 EXCEPT ![slot(c)] = FALSE] ELSE rsp0)
      /\ UNCHANGED <<firmware, apic_ids, dead, bsp, i, started, confirmed, missed, stacks,
                     mbox_stack, ap_ready, g_ap_index_starting, stack, tss>>
  BY Zenon DEF ap_entry64_clear_tss, bspVars
<1>2. SmpType /\ TssInv /\ rsp0 \in [0 .. MAX_TSS_CPUS - 1 -> BOOLEAN]
  BY Zenon DEF SInv, SmpType
<1>3. c \notin dead /\ ap[c] # "off"
  BY <1>1, Zenon DEF SInv, ApInv
<1>4. "tss" \in ApPoints /\ "tss" \in Running /\ ap[c] \in Running \ {"up"} /\ "tss" # "up"
  BY <1>1, Zenon DEF ApPoints, Running
<1>5. UNCHANGED <<firmware, apic_ids, dead, bsp, i, started, stacks, mbox_stack, g_ap_index_starting>>
  BY <1>1, Zenon
<1>6. /\ ListInv' /\ ApInv' /\ ap' \in [Ids -> ApPoints]
      /\ ap'[c] = "tss" /\ (\A d \in Ids : d # c => ap'[d] = ap[d])
      /\ c \in Enabled(firmware) \ {BSP} /\ c \in Nat
  BY <1>1, <1>3, <1>4, <1>5, ApStep, Zenon
<1>7. slot(c) \in Nat /\ slot(c) = Slot(c)
  BY <1>6, SlotIs, Zenon
<1>8. /\ BSP' = BSP /\ APs' = APs /\ Enabled(firmware)' = Enabled(firmware)
      /\ \A d : Slot(d)' = Slot(d) /\ (Clash(d)' <=> Clash(d))
  BY <1>1, SameMachine, Zenon
<1>9. rsp0' \in [0 .. MAX_TSS_CPUS - 1 -> BOOLEAN]
  BY <1>1, <1>2, Zenon
<1>10. \A k \in 0 .. MAX_TSS_CPUS - 1 : k # Slot(c) => rsp0'[k] = rsp0[k]
  BY <1>1, <1>2, <1>7, Zenon
<1>11. SmpType'
  BY <1>1, <1>2, <1>6, <1>8, <1>9, Zenon DEF SmpType
<1>12. \A d \in Ids : d # c /\ Slot(d) = Slot(c) => Clash(d)
  BY <1>6, Zenon DEF Clash
<1>13. TssInv'
  <2>1. BSP \in Ids /\ Slot(BSP) = 0 /\ BSP # c /\ 0 \in 0 .. MAX_TSS_CPUS - 1
    BY <1>2, <1>6, Machine0, SmpAssumption DEF Slot
  <2>2. rsp0'[0] \/ Clash(BSP)
    BY <1>2, <1>10, <1>12, <2>1, Zenon DEF TssInv
  <2>3. ASSUME NEW d \in APs, ap'[d] \in {"timer", "up"}, Slot(d) < MAX_TSS_CPUS
        PROVE  tss[d] = Slot(d) /\ (rsp0'[Slot(d)] \/ Clash(d))
    <3>1. d \in Ids /\ d # c
      BY <1>6, <2>3, Zenon DEF APs
    <3>2. ap[d] \in {"timer", "up"}
      BY <1>6, <2>3, <3>1, Zenon
    <3>3. tss[d] = Slot(d) /\ (rsp0[Slot(d)] \/ Clash(d))
      BY <1>2, <2>3, <3>2, Zenon DEF TssInv
    <3>4. d \in Nat
      BY <1>2, <3>1, Machine0, Zenon
    <3>5. Slot(d) \in Nat
      BY <3>4, SlotIs, Zenon
    <3>6. Slot(d) \in 0 .. MAX_TSS_CPUS - 1
      BY <2>3, <3>5, SmpAssumption
    <3>7. QED
      BY <1>10, <1>12, <3>1, <3>3, <3>6, Zenon
  <2>4. QED
    BY <1>1, <1>2, <1>8, <2>2, <2>3, Zenon DEF TssInv
<1>14. missed' = {} => OrderInv'
  <2> SUFFICES ASSUME missed' = {} PROVE OrderInv'
    BY Zenon
  <2>1. UNCHANGED <<firmware, apic_ids, dead, bsp, i, started, confirmed, missed, stacks,
                    mbox_stack, g_ap_index_starting, stack>>
    BY <1>1, Zenon
  <2>2. QED
    BY <1>1, <1>3, <1>4, <2>1, RunningStep, Zenon
<1>15. QED
  BY <1>6, <1>11, <1>13, <1>14, Zenon DEF SInv

(* It gives the slot its stack, and the CPU loads it.                      *)
LEMMA LoadKeeps == ASSUME SInv, NEW c \in Ids, ap_entry64_load_tss(c) PROVE SInv'
<1>1. /\ ap[c] = "tss" /\ ap' = [ap EXCEPT ![c] = "timer"]
      /\ IF slot(c) < MAX_TSS_CPUS
           THEN rsp0' = [rsp0 EXCEPT ![slot(c)] = TRUE] /\ tss' = [tss EXCEPT ![c] = slot(c)]
           ELSE UNCHANGED <<rsp0, tss>>
      /\ UNCHANGED <<firmware, apic_ids, dead, bsp, i, started, confirmed, missed, stacks,
                     mbox_stack, ap_ready, g_ap_index_starting, stack>>
  BY Zenon DEF ap_entry64_load_tss, bspVars
<1>2. /\ SmpType /\ TssInv /\ rsp0 \in [0 .. MAX_TSS_CPUS - 1 -> BOOLEAN]
      /\ tss \in [Ids -> {NONE} \union 0 .. MAX_TSS_CPUS - 1]
  BY Zenon DEF SInv, SmpType
<1>3. c \notin dead /\ ap[c] # "off"
  BY <1>1, Zenon DEF SInv, ApInv
<1>4. "timer" \in ApPoints /\ "timer" \in Running /\ ap[c] \in Running \ {"up"} /\ "timer" # "up"
  BY <1>1, Zenon DEF ApPoints, Running
<1>5. UNCHANGED <<firmware, apic_ids, dead, bsp, i, started, stacks, mbox_stack, g_ap_index_starting>>
  BY <1>1, Zenon
<1>6. /\ ListInv' /\ ApInv' /\ ap' \in [Ids -> ApPoints]
      /\ ap'[c] = "timer" /\ (\A d \in Ids : d # c => ap'[d] = ap[d])
      /\ c \in Enabled(firmware) \ {BSP} /\ c \in Nat
  BY <1>1, <1>3, <1>4, <1>5, ApStep, Zenon
<1>7. slot(c) \in Nat /\ slot(c) = Slot(c) /\ (slot(c) < MAX_TSS_CPUS => slot(c) \in 0 .. MAX_TSS_CPUS - 1)
  <2>1. slot(c) \in Nat /\ slot(c) = Slot(c)
    BY <1>6, SlotIs, Zenon
  <2>2. QED
    BY <2>1, SmpAssumption
<1>8. /\ BSP' = BSP /\ APs' = APs /\ Enabled(firmware)' = Enabled(firmware)
      /\ \A d : Slot(d)' = Slot(d) /\ (Clash(d)' <=> Clash(d))
  BY <1>1, SameMachine, Zenon
<1>9. rsp0' \in [0 .. MAX_TSS_CPUS - 1 -> BOOLEAN] /\ \A k \in 0 .. MAX_TSS_CPUS - 1 : rsp0[k] => rsp0'[k]
  BY <1>1, <1>2, Zenon
<1>10. /\ tss' \in [Ids -> {NONE} \union 0 .. MAX_TSS_CPUS - 1]
       /\ \A d \in Ids : d # c => tss'[d] = tss[d]
  BY <1>1, <1>2, <1>7, Zenon
<1>11. SmpType'
  BY <1>1, <1>2, <1>6, <1>8, <1>9, <1>10, Zenon DEF SmpType
<1>12. Slot(c) < MAX_TSS_CPUS => tss'[c] = Slot(c) /\ rsp0'[Slot(c)]
  BY <1>1, <1>2, <1>7, Zenon
<1>13. ~(Slot(c) < MAX_TSS_CPUS) => tss'[c] = tss[c]
  BY <1>1, <1>7, Zenon
<1>14. TssInv'
  <2>1. BSP \in Ids /\ BSP # c /\ 0 \in 0 .. MAX_TSS_CPUS - 1
    BY <1>2, <1>6, Machine0, SmpAssumption
  <2>2. tss'[BSP] = 0 /\ (rsp0'[0] \/ Clash(BSP))
    BY <1>2, <1>9, <1>10, <2>1, Zenon DEF TssInv
  <2>3. ASSUME NEW d \in APs, ap'[d] \in {"timer", "up"}, Slot(d) < MAX_TSS_CPUS
        PROVE  tss'[d] = Slot(d) /\ (rsp0'[Slot(d)] \/ Clash(d))
    <3>1. d \in Ids
      BY Zenon DEF APs
    <3>2. CASE d = c
      BY <1>12, <2>3, <3>2, Zenon
    <3>3. CASE d # c
      <4>1. ap[d] \in {"timer", "up"}
        BY <1>6, <2>3, <3>1, <3>3, Zenon
      <4>2. tss[d] = Slot(d) /\ (rsp0[Slot(d)] \/ Clash(d))
        BY <1>2, <2>3, <4>1, Zenon DEF TssInv
      <4>3. d \in Nat
        BY <1>2, <3>1, Machine0, Zenon
      <4>4. Slot(d) \in Nat
        BY <4>3, SlotIs, Zenon
      <4>5. Slot(d) \in 0 .. MAX_TSS_CPUS - 1
        BY <2>3, <4>4, SmpAssumption
      <4>6. QED
        BY <1>9, <1>10, <3>1, <3>3, <4>2, <4>5, Zenon
    <3>4. QED
      BY <3>2, <3>3, Zenon
  <2>4. ASSUME NEW d \in Ids, tss'[d] # NONE
        PROVE  tss'[d] = Slot(d) /\ d \in Enabled(firmware) \union {BSP}
    <3>1. CASE d = c /\ Slot(c) < MAX_TSS_CPUS
      BY <1>6, <1>12, <3>1, Zenon
    <3>2. CASE ~(d = c /\ Slot(c) < MAX_TSS_CPUS)
      <4>1. tss'[d] = tss[d]
        BY <1>10, <1>13, <3>2, Zenon
      <4>2. QED
        BY <1>2, <2>4, <4>1, Zenon DEF TssInv
    <3>3. QED
      BY <3>1, <3>2, Zenon
  <2>5. QED
    BY <1>8, <2>2, <2>3, <2>4, Zenon DEF TssInv
<1>15. missed' = {} => OrderInv'
  <2> SUFFICES ASSUME missed' = {} PROVE OrderInv'
    BY Zenon
  <2>1. UNCHANGED <<firmware, apic_ids, dead, bsp, i, started, confirmed, missed, stacks,
                    mbox_stack, g_ap_index_starting, stack>>
    BY <1>1, Zenon
  <2>2. QED
    BY <1>1, <1>3, <1>4, <2>1, RunningStep, Zenon
<1>16. QED
  BY <1>6, <1>11, <1>14, <1>15, Zenon DEF SInv

(* The AP sets the flag of the index it reads.                             *)
LEMMA ReadyKeeps == ASSUME SInv, NEW c \in Ids, ap_entry64_ready(c) PROVE SInv'
<1>1. /\ ap[c] = "timer" /\ ap' = [ap EXCEPT ![c] = "up"]
      /\ ap_ready' = (IF g_ap_index_starting >= 0
                        THEN [ap_ready EXCEPT ![g_ap_index_starting] = TRUE] ELSE ap_ready)
      /\ UNCHANGED <<firmware, apic_ids, dead, bsp, i, started, confirmed, missed, stacks,
                     mbox_stack, g_ap_index_starting, stack, tss, rsp0>>
  BY Zenon DEF ap_entry64_ready, bspVars
<1>2. SmpType /\ TssInv /\ ap_ready \in [0 .. MAX_AP_CPUS - 1 -> BOOLEAN]
  BY Zenon DEF SInv, SmpType
<1>3. c \notin dead /\ ap[c] # "off"
  BY <1>1, Zenon DEF SInv, ApInv
<1>4. "up" \in ApPoints /\ "up" \in Running /\ ap[c] \in Running \ {"up"}
  BY <1>1, Zenon DEF ApPoints, Running
<1>5. UNCHANGED <<firmware, apic_ids, dead, bsp, i, started, stacks, mbox_stack, g_ap_index_starting>>
  BY <1>1, Zenon
<1>6. /\ ListInv' /\ ApInv' /\ ap' \in [Ids -> ApPoints]
      /\ ap'[c] = "up" /\ (\A d \in Ids : d # c => ap'[d] = ap[d])
  BY <1>1, <1>3, <1>4, <1>5, ApStep, Zenon
<1>7. /\ BSP' = BSP /\ APs' = APs /\ Enabled(firmware)' = Enabled(firmware)
      /\ \A d : Slot(d)' = Slot(d) /\ (Clash(d)' <=> Clash(d))
  BY <1>1, SameMachine, Zenon
<1>8. ap_ready' \in [0 .. MAX_AP_CPUS - 1 -> BOOLEAN]
  BY <1>1, <1>2, Zenon
<1>9. SmpType'
  BY <1>1, <1>2, <1>6, <1>7, <1>8, Zenon DEF SmpType
<1>10. TssInv'
  <2>1. \A d \in APs : ap'[d] \in {"timer", "up"} => ap[d] \in {"timer", "up"}
    BY <1>1, <1>6, Zenon DEF APs
  <2>2. QED
    BY <1>1, <1>2, <1>7, <2>1, Zenon DEF TssInv
<1>11. missed' = {} => OrderInv'
  <2> SUFFICES ASSUME missed' = {} PROVE OrderInv'
    BY Zenon
  <2>1. UNCHANGED <<firmware, apic_ids, dead, bsp, i, started, confirmed, missed, stacks,
                    mbox_stack, g_ap_index_starting, stack>>
    BY <1>1, Zenon
  <2>2. QED
    BY <1>1, <1>3, <1>4, <2>1, RunningStep, Zenon
<1>12. QED
  BY <1>6, <1>9, <1>10, <1>11, Zenon DEF SInv

(* Every step of the bring-up keeps its invariant.                         *)
LEMMA NextS == ASSUME SInv, Next PROVE SInv'
BY FindKeeps, FinishKeeps, SkipKeeps, CopyKeeps, FillKeeps, SipiKeeps, ConfirmKeeps, GiveUpKeeps,
   TrampolineKeeps, ClearKeeps, LoadKeeps, ReadyKeeps, Zenon DEF Next, Bsp, Ap

(* SInv is about the variables of the bring-up.                            *)
LEMMA SameS == ASSUME SInv, UNCHANGED vars PROVE SInv'
<1>1. UNCHANGED <<firmware, apic_ids, dead, bsp, i, started, confirmed, missed, stacks, mbox_stack,
                  ap_ready, g_ap_index_starting, ap, stack, tss, rsp0>>
  BY Zenon DEF vars, bspVars, apVars
<1>2. SmpType /\ ListInv /\ ApInv /\ TssInv
  BY Zenon DEF SInv
<1>3. BSP' = BSP /\ Enabled(firmware)' = Enabled(firmware) /\ (Roomy' <=> Roomy)
  BY <1>1, SameMachine, Zenon
<1>4. SmpType'
  BY <1>1, <1>2, <1>3, Zenon DEF SmpType
<1>5. ListInv'
  BY <1>1, <1>2, <1>3 DEF ListInv
<1>6. ApInv'
  BY <1>1, <1>2, <1>3, Zenon DEF ApInv
<1>7. TssInv'
  BY <1>1, <1>2, TssSame, Zenon
<1>8. missed' = {} => OrderInv'
  BY <1>1, <1>3, Zenon DEF SInv, OrderInv
<1>9. QED
  BY <1>4, <1>5, <1>6, <1>7, <1>8, Zenon DEF SInv

(* A CPU that schedules goes on doing so.                                  *)
LEMMA StillScheduling ==
  ASSUME SInv, Next, NEW c \in Ids, Scheduling(c)
  PROVE  Scheduling(c)'
<1>1. /\ SmpType /\ ap \in [Ids -> ApPoints] /\ firmware' = firmware /\ BSP' = BSP
  <2>1. firmware' = firmware
    BY Zenon DEF Next, Bsp, Ap, bspVars, find_cpus, finish, skip_self, copy_trampoline, fill_mailbox,
       send_init_sipi_sipi, confirm, give_up, ap_trampoline, ap_entry64_clear_tss,
       ap_entry64_load_tss, ap_entry64_ready
  <2>2. QED
    BY <2>1, Zenon DEF SInv, SmpType, BSP
<1>2. CASE c = BSP
  <2>1. bsp' = bsp
    BY <1>2, Zenon DEF Scheduling, Next, Bsp, Ap, bspVars, find_cpus, finish, skip_self,
       copy_trampoline,
       fill_mailbox, send_init_sipi_sipi, confirm, give_up, ap_trampoline, ap_entry64_clear_tss,
       ap_entry64_load_tss, ap_entry64_ready
  <2>2. QED
    BY <1>1, <1>2, <2>1, Zenon DEF Scheduling
<1>3. CASE c # BSP
  <2>1. ap[c] = "up"
    BY <1>3, Zenon DEF Scheduling
  <2>2. ASSUME NEW d \in Ids, NEW p, ap[d] # "up", ap' = [ap EXCEPT ![d] = p] PROVE ap'[c] = "up"
    BY <1>1, <2>1, <2>2, Zenon
  <2>3. ASSUME send_init_sipi_sipi PROVE ap'[c] = "up"
    <3>1. apic_ids[i] \in Ids /\ ap[apic_ids[i]] # "up"
      BY <2>3, CurrentOff, Zenon DEF send_init_sipi_sipi
    <3>2. QED
      BY <2>2, <2>3, <3>1, Zenon DEF send_init_sipi_sipi
  <2>4. ASSUME NEW d \in Ids, Ap(d) PROVE ap'[c] = "up"
    BY <2>2, <2>4, Zenon DEF Ap, ap_trampoline, ap_entry64_clear_tss, ap_entry64_load_tss,
       ap_entry64_ready
  <2>5. ASSUME Bsp, ~send_init_sipi_sipi PROVE ap'[c] = "up"
    <3>1. ap' = ap
      BY <2>5, Zenon DEF Bsp, find_cpus, finish, skip_self, copy_trampoline, fill_mailbox, confirm,
         give_up,
         apVars
    <3>2. QED
      BY <2>1, <3>1, Zenon
  <2>6. ap'[c] = "up"
    BY <2>3, <2>4, <2>5, Zenon DEF Next
  <2>7. QED
    BY <1>1, <1>3, <2>6, Zenon DEF Scheduling
<1>4. QED
  BY <1>2, <1>3, Zenon

(* A CPU that schedules has a TSS with a stack, but for the excepted ones. *)
LEMMA SchedulingHasStack ==
  ASSUME SInv, NEW c \in Ids, Scheduling(c), ~(tss[c] # NONE /\ rsp0[tss[c]])
  PROVE  Slot(c) >= MAX_TSS_CPUS \/ Clash(c)
<1>1. SmpType /\ TssInv /\ c \in Nat /\ MAX_TSS_CPUS \in Nat /\ 0 # NONE
  BY Machine0, SmpAssumption DEF SInv, NONE
<1>2. CASE c = BSP
  BY <1>1, <1>2, Zenon DEF TssInv
<1>3. CASE c # BSP
  <2>1. c \in APs /\ ap[c] \in {"timer", "up"}
    BY <1>3, Zenon DEF APs, Scheduling
  <2>2. Slot(c) \in Nat
    BY <1>1, SlotIs, Zenon
  <2>3. Slot(c) # NONE /\ (~(Slot(c) < MAX_TSS_CPUS) => Slot(c) >= MAX_TSS_CPUS)
    BY <1>1, <2>2 DEF NONE
  <2>4. QED
    BY <1>1, <2>1, <2>3, Zenon DEF TssInv
<1>4. QED
  BY <1>2, <1>3, Zenon

(* Every step of the CPUs and of the ring 3 thread keeps the invariant.    *)
LEMMA NextR == Inv3 /\ [Ring3Next]_ring3vars => Inv3'
<1> SUFFICES ASSUME SInv, R3Inv, [Ring3Next]_ring3vars PROVE SInv' /\ R3Inv'
  BY Zenon DEF Inv3
<1>1. CASE Next /\ UNCHANGED r3vars
  <2>1. SInv'
    BY <1>1, NextS, Zenon
  <2>2. mode' = mode /\ cpu' = cpu
    BY <1>1, Zenon DEF r3vars
  <2>3. mode # "ready" => cpu \in Ids /\ Scheduling(cpu)
    BY Zenon DEF R3Inv
  <2>4. ASSUME mode # "ready" PROVE (cpu \in Ids /\ Scheduling(cpu))'
    <3> DEFINE c == cpu
    <3>1. c \in Ids /\ Scheduling(c)
      BY <2>3, <2>4, Zenon
    <3>2. \A d \in Ids : Scheduling(d) => Scheduling(d)'
      BY <1>1, StillScheduling, Zenon
    <3>3. \A d : Scheduling(d)' <=> IF d = BSP' THEN bsp' = "done" ELSE ap'[d] = "up"
      BY Zenon DEF Scheduling
    <3>4. IF cpu = BSP' THEN bsp' = "done" ELSE ap'[cpu] = "up"
      BY <3>1, <3>2, <3>3, Zenon
    <3>5. QED
      BY <2>2, <3>1, <3>4, Zenon DEF Scheduling
  <2>5. firmware' = firmware
    BY <1>1, Zenon DEF Next, Bsp, Ap, bspVars, find_cpus, finish, skip_self, copy_trampoline,
       fill_mailbox,
       send_init_sipi_sipi, confirm, give_up, ap_trampoline, ap_entry64_clear_tss,
       ap_entry64_load_tss, ap_entry64_ready
  <2>6. Ring3Stack'
    BY <2>2, <2>5, Zenon DEF R3Inv, Ring3Stack, Slot, Clash, Enabled, BSP
  <2>7. R3Inv'
    BY <2>2, <2>4, <2>6, Zenon DEF R3Inv
  <2>8. QED
    BY <2>1, <2>7, Zenon
<1>2. CASE UNCHANGED vars /\ [\/ \E c \in Ids : switch_to(c)
                              \/ enter_usermode \/ interrupt \/ switch_away]_ring3vars
  <2>1. SInv'
    BY <1>2, SameS, Zenon
  <2>2. UNCHANGED <<firmware, bsp, ap, tss, rsp0>>
    BY <1>2, Zenon DEF vars, bspVars, apVars
  <2>3. \A c : /\ Scheduling(c)' <=> Scheduling(c)
               /\ Slot(c)' = Slot(c) /\ (Clash(c)' <=> Clash(c))
    BY <2>2, SameMachine, Zenon DEF Scheduling
  <2>4. CASE \E c \in Ids : switch_to(c)
    <3>1. PICK c \in Ids : switch_to(c)
      BY <2>4, Zenon
    <3>2. mode' = "kernel" /\ cpu' = c /\ Scheduling(c)
      BY <3>1, Zenon DEF switch_to
    <3>3. Scheduling(cpu)'
      BY <2>2, <3>2, Zenon DEF Scheduling, BSP
    <3>4. R3Inv'
      BY <3>2, <3>3, Zenon DEF R3Inv, Ring3Stack
    <3>5. QED
      BY <2>1, <3>4, Zenon
  <2>5. ASSUME cpu' = cpu, mode # "ready", mode' \in {"kernel", "user"} PROVE R3Inv'
    <3>1. cpu \in Ids /\ Scheduling(cpu)
      BY <2>5, Zenon DEF R3Inv
    <3>2. Scheduling(cpu)'
      BY <2>2, <2>5, <3>1, Zenon DEF Scheduling, BSP
    <3>3. QED
      BY <2>5, <3>1, <3>2, Zenon DEF R3Inv, Ring3Stack
  <2>6. CASE enter_usermode
    BY <2>1, <2>5, <2>6, Zenon DEF enter_usermode
  <2>7. CASE interrupt
    <3>1. mode = "user" /\ cpu' = cpu /\ cpu \in Ids /\ Scheduling(cpu)
      BY <2>7, Zenon DEF interrupt, R3Inv
    <3>2. CASE tss[cpu] # NONE /\ rsp0[tss[cpu]]
      BY <2>1, <2>5, <2>7, <3>1, <3>2, Zenon DEF interrupt
    <3>3. CASE ~(tss[cpu] # NONE /\ rsp0[tss[cpu]])
      <4>1. mode' = "lost"
        BY <2>7, <3>3, Zenon DEF interrupt
      <4>2. Slot(cpu) >= MAX_TSS_CPUS \/ Clash(cpu)
        BY <3>1, <3>3, SchedulingHasStack, Zenon
      <4>3. Ring3Stack'
        BY <2>2, <3>1, <4>2, Zenon DEF Ring3Stack, Slot, Clash, Enabled, BSP
      <4>4. Scheduling(cpu)'
        BY <2>2, <3>1, Zenon DEF Scheduling, BSP
      <4>5. R3Inv'
        BY <3>1, <4>1, <4>3, <4>4, Zenon DEF R3Inv
      <4>6. QED
        BY <2>1, <4>5, Zenon
    <3>4. QED
      BY <3>2, <3>3, Zenon
  <2>8. CASE switch_away
    BY <2>1, <2>8, Zenon DEF switch_away, R3Inv, Ring3Stack
  <2>9. CASE UNCHANGED ring3vars
    <3>1. mode' = mode /\ cpu' = cpu
      BY <2>9, Zenon DEF ring3vars, r3vars
    <3>2. (mode # "ready" => cpu \in Ids /\ Scheduling(cpu))'
      BY <2>2, <3>1, Zenon DEF R3Inv, Scheduling, BSP
    <3>3. Ring3Stack'
      BY <2>2, <3>1, Zenon DEF R3Inv, Ring3Stack, Slot, Clash, Enabled, BSP
    <3>4. R3Inv'
      BY <3>1, <3>2, <3>3, Zenon DEF R3Inv
    <3>5. QED
      BY <2>1, <3>4, Zenon
  <2>10. QED
    BY <1>2, <2>4, <2>6, <2>7, <2>8, <2>9, Zenon
<1>3. UNCHANGED ring3vars => UNCHANGED vars
  BY Zenon DEF ring3vars
<1>4. QED
  BY <1>1, <1>2, <1>3, Zenon DEF Ring3Next, switch_to, enter_usermode, interrupt, switch_away

(* The invariant in every reachable state.                                 *)
LEMMA AlwaysR == Ring3Spec => []Inv3
<1>1. Ring3Init => Inv3
  <2> SUFFICES ASSUME Ring3Init PROVE SInv /\ R3Inv
    BY Zenon DEF Inv3
  <2>1. SInv
    BY InitS, Zenon DEF Ring3Init
  <2>2. R3Inv
    BY Zenon DEF Ring3Init, R3Inv, Ring3Stack
  <2>3. QED
    BY <2>1, <2>2, Zenon
<1>2. QED
  BY <1>1, NextR, PTL DEF Ring3Spec
-----------------------------------------------------------------------------
(* As long as no AP has missed its timeout, each runs on a stack of its    *)
(* own, on any machine.                                                    *)
THEOREM StacksApart == Ring3Spec => []OwnStack
<1>1. Inv3 => OwnStack
  <2> SUFFICES ASSUME SInv, missed = {}, NEW c \in OnStack, NEW d \in OnStack
               PROVE  stack[c] # NONE /\ (c # d => stack[c] # stack[d])
    BY Zenon DEF Inv3, OwnStack
  <2>1. OrderInv /\ ApInv
    BY Zenon DEF SInv
  <2>2. /\ c \in Ids /\ ap[c] \in Running /\ ap[c] # "off" /\ ap[c] # "sipi"
        /\ d \in Ids /\ ap[d] \in Running /\ ap[d] # "off" /\ ap[d] # "sipi"
    BY Zenon DEF OnStack, APs, Running
  <2>3. c \notin dead /\ d \notin dead
    BY <2>1, <2>2, Zenon DEF ApInv
  <2>4. /\ c \in confirmed \/ (bsp = "wait" /\ c = apic_ids[i])
        /\ d \in confirmed \/ (bsp = "wait" /\ d = apic_ids[i])
    BY <2>1, <2>2, <2>3, Zenon DEF OrderInv
  <2>5. QED
    BY <2>1, <2>2, <2>4, Zenon DEF OrderInv
<1>2. QED
  BY <1>1, AlwaysR, PTL

(* An interrupt from ring 3 finds a kernel stack on whichever CPU the      *)
(* thread has come to, but for CPUs without a TSS slot of their own.       *)
THEOREM Ring3FindsStack == Ring3Spec => []Ring3Stack
<1>1. Inv3 => Ring3Stack
  BY Zenon DEF Inv3, R3Inv
<1>2. QED
  BY <1>1, AlwaysR, PTL

(* smp_start_aps returns the number of APs that are up, starts no CPU that *)
(* is not enabled, and all that answer if the list has room for them.      *)
THEOREM ApsCounted == Ring3Spec => []CountExact
<1>1. Inv3 => CountExact
  <2> DEFINE up == {c \in APs : ap[c] = "up"}
             E == Enabled(firmware)
  <2> SUFFICES ASSUME SInv
               PROVE  /\ up \subseteq E
                      /\ bsp = "done" /\ missed = {} => started = Cardinality(up)
                      /\ bsp = "done" /\ missed = {} /\ MadtFound
                           /\ Cardinality(E) \in 2 .. MAX_AP_CPUS
                         => E \ (dead \union {BSP}) \subseteq up
    BY Zenon DEF Inv3, CountExact
  <2>1. SmpType /\ ListInv /\ ApInv /\ E \subseteq Ids /\ Len(apic_ids) \in Nat
    BY Machine0, Zenon DEF SInv
  <2>2. up \subseteq E
    BY <2>1, Zenon DEF ApInv, APs
  <2>3. ASSUME bsp = "done", missed = {} PROVE up = confirmed
    <3>1. OrderInv
      BY <2>3, Zenon DEF SInv
    <3>2. ASSUME NEW c \in up PROVE c \in confirmed
      <4>1. c \in Ids /\ ap[c] = "up" /\ c \notin dead
        BY <2>1, Zenon DEF ApInv, APs
      <4>2. QED
        BY <2>3, <3>1, <4>1, Zenon DEF OrderInv
    <3>3. ASSUME NEW c \in confirmed PROVE c \in up
      <4>1. c \in Ids /\ ap[c] = "up"
        BY <3>1, Zenon DEF OrderInv
      <4>2. c # BSP
        BY <2>1, <4>1, Zenon DEF ApInv
      <4>3. QED
        BY <4>1, <4>2, Zenon DEF APs
    <3>4. QED
      BY <3>2, <3>3, Zenon
  <2>4. bsp = "done" /\ missed = {} => started = Cardinality(up)
    <3> HIDE DEF up
    <3>1. QED
      BY <2>3, Zenon DEF SInv, OrderInv
  <2>5. ASSUME bsp = "done", missed = {}, MadtFound, Cardinality(E) \in 2 .. MAX_AP_CPUS,
               NEW c \in E \ (dead \union {BSP})
        PROVE  c \in up
    <3>1. MAX_AP_CPUS \in Nat
      BY SmpAssumption, Zenon
    <3>2. Roomy
      BY <2>5, <3>1 DEF Roomy
    <3>3. \A e \in E : \E k \in 1 .. Len(apic_ids) : e = apic_ids[k]
      BY <2>1, <2>5, <3>2, Zenon DEF ListInv
    <3>4. Len(apic_ids) > 1
      <4> SUFFICES ASSUME ~(Len(apic_ids) > 1) PROVE FALSE
        BY Zenon
      <4>1. \A k \in 1 .. Len(apic_ids) : k = 1
        BY <2>1
      <4>2. E = {c}
        BY <3>3, <4>1, Zenon
      <4>3. Cardinality(E) = 1
        <5> HIDE DEF E
        <5>1. QED
          BY <4>2, FS_Singleton, Zenon
      <4>4. QED
        BY <2>5, <3>1, <4>3
    <3>5. i = Len(apic_ids) + 1
      BY <2>1, <2>5, <3>4 DEF ListInv
    <3>6. PICK k \in 1 .. Len(apic_ids) : c = apic_ids[k]
      BY <3>3, Zenon
    <3>7. k \in 1 .. i - 1
      BY <2>1, <3>5
    <3>8. c \in confirmed
      BY <2>5, <3>6, <3>7, Zenon DEF SInv, OrderInv
    <3>9. QED
      BY <2>3, <2>5, <3>8, Zenon
  <2>6. QED
    BY <2>2, <2>4, <2>5, Zenon
<1>2. QED
  BY <1>1, AlwaysR, PTL
=============================================================================
