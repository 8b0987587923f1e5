------------------------------ MODULE MCRing3 ------------------------------
(***************************************************************************)
(* Instances of Ring3 and SmpBoot: MADTs with the boot processor first,    *)
(* last and missing, disabled entries, other entries, more CPUs than the   *)
(* list holds, ids without a TSS and ids with the same index; RSDPs in     *)
(* both areas, of both revisions, behind one with a wrong checksum, and    *)
(* none, as on a UEFI machine.                                             *)
(***************************************************************************)
EXTENDS Ring3

On(c) == [type |-> "lapic", id |-> c, enabled |-> TRUE]
Off(c) == [type |-> "lapic", id |-> c, enabled |-> FALSE]
Io == [type |-> "ioapic", addr |-> 1]
Else == [type |-> "other"]

V1 == [sig |-> TRUE, sum |-> TRUE, revision |-> 0, xsdt_address |-> 0,
       xsdt |-> << >>, rsdt |-> <<"FACP", "APIC">>]
V2 == [V1 EXCEPT !.revision = 2, !.xsdt_address = 1, !.xsdt = <<"APIC">>, !.rsdt = << >>]
V2Rsdt == [V1 EXCEPT !.revision = 2]
Damaged == [V1 EXCEPT !.sum = FALSE, !.rsdt = << >>]
Blank == [V1 EXCEPT !.sig = FALSE]

Machine(b, seg, ebda, bios, es) ==
  [bsp |-> b, ebda_seg |-> seg, ebda |-> ebda, bios |-> bios,
   madt |-> [lapic |-> 1, entries |-> es]]

Machines ==
  {Machine(0, 0, <<V1>>, <<Blank>>, <<On(0), On(1)>>),
   Machine(0, 1, <<Blank, Damaged, V1>>, << >>, <<Else, On(0), Io, On(1), Off(2), On(5)>>),
   Machine(0, 0, << >>, <<Damaged, V2>>, <<On(1), On(2), On(5), On(0)>>),
   Machine(0, 1, <<V2>>, <<Damaged>>, <<Off(1), On(2), On(3), On(0)>>),
   Machine(0, 0, << >>, <<V2Rsdt, V1>>, <<On(0), On(16), On(17)>>),
   Machine(2, 1, <<Blank>>, <<V1>>, <<On(0), On(2)>>),
   Machine(0, 0, << >>, <<V1>>, <<On(1)>>)}
Two == {Machine(0, 0, << >>, <<V1>>, <<On(0), On(1), On(2)>>)}
=============================================================================
