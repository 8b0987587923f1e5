-------------------------------- MODULE Acpi --------------------------------
(***************************************************************************)
(* What the kernel reads from the ACPI tables (acpi.c) and what apic.c     *)
(* does with the addresses found.  These are functions of the firmware:    *)
(* a record with the EBDA segment of the BIOS data area, the 16-byte steps *)
(* of the two memory areas that are scanned, and the MADT.  A step that    *)
(* holds an RSDP is [sig, sum, revision, xsdt_address, xsdt, rsdt]: does   *)
(* the signature match, is the checksum right, and the signatures of the   *)
(* tables its two root tables list, where "APIC" stands for madt.  A       *)
(* pointer that may be NULL is a sequence of length at most one.           *)
(***************************************************************************)
EXTENDS Integers, Sequences

CONSTANTS LAPIC_DEFAULT, IOAPIC_DEFAULT     \* 0xFEE00000 and 0xFEC00000

NULL == << >>
FirstOf(s, Test(_)) ==
  LET hits == {k \in DOMAIN s : Test(s[k])}
  IN  IF hits = {} THEN NULL ELSE <<s[CHOOSE k \in hits : \A j \in hits : k <= j]>>

Mut_scan_for_rsdp(steps) == FirstOf(steps, LAMBDA s : s.sig)
scan_for_rsdp(steps) == FirstOf(steps, LAMBDA s : s.sig /\ s.sum)

\* acpi_find_rsdp_bios with g_rsdp still NULL, which it is on both boot paths:
\* acpi_set_rsdp has no caller.
acpi_find_rsdp_bios(f) ==
  LET ebda == IF f.ebda_seg # 0 THEN scan_for_rsdp(f.ebda) ELSE NULL
  IN  IF ebda # NULL THEN ebda ELSE scan_for_rsdp(f.bios)

root_tables(r) == IF r.revision >= 2 /\ r.xsdt_address # 0 THEN r.xsdt ELSE r.rsdt
find_madt(f, g_rsdp) ==
  LET lists == IF g_rsdp = NULL THEN << >> ELSE root_tables(g_rsdp[1])
  IN  IF \E k \in DOMAIN lists : lists[k] = "APIC" THEN <<f.madt>> ELSE NULL

\* The enabled local APICs, at most max of them: found[k] is the list after the
\* first k entries.
list_cpu(ids, e, max) ==
  IF Len(ids) < max /\ e.type = "lapic" /\ e.enabled THEN Append(ids, e.id) ELSE ids
list_cpus(entries, max) ==
  LET found[k \in 0 .. Len(entries)] ==
        IF k = 0 THEN << >> ELSE list_cpu(found[k - 1], entries[k], max)
  IN  found
acpi_find_cpus(madt, max) ==
  IF madt = NULL THEN << >>
  ELSE list_cpus(madt[1].entries, max)[Len(madt[1].entries)]

\* The first IOAPIC; without one the local APIC address is not used either.
acpi_find_apic_bases(madt) ==
  IF madt = NULL THEN NULL
  ELSE LET io == FirstOf(madt[1].entries, LAMBDA e : e.type = "ioapic")
       IN  IF io = NULL \/ io[1].addr = 0 THEN NULL
           ELSE <<[lapic |-> madt[1].lapic, ioapic |-> io[1].addr]>>

apic_apply_acpi_bases(madt) ==
  LET found == acpi_find_apic_bases(madt)
  IN  IF found # NULL THEN found[1]
      ELSE [lapic |-> LAPIC_DEFAULT, ioapic |-> IOAPIC_DEFAULT]
=============================================================================
