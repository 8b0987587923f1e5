------------------------------ MODULE MCPaging ------------------------------
(***************************************************************************)
(* An instance of Paging and FrameAlloc: pages of 4 units, 8 entries in a  *)
(* table, so that a large page has 32 units and a GB 256.  The map entries *)
(* have every kind of edge: inside legacy memory, across LOW, around the   *)
(* image, unaligned, empty, unavailable, past the mapped part; a few maps  *)
(* are large enough for the boot to finish.                                *)
(***************************************************************************)
EXTENDS Paging

Usable_(b, l) == [base |-> b, length |-> l, avail |-> TRUE]
Other(b, l) == [base |-> b, length |-> l, avail |-> FALSE]
Map(b, m, l, h, es) == [boot |-> b, mmap |-> m, lo |-> l, hi |-> h, entries |-> es]

\* Under multiboot the image is loaded into RAM from LOW on; the parameters
\* move the boundaries of the entries over the page grid.
ImageInRam(m) ==
  \A b \in m.lo .. m.hi - 1 :
    \E i \in DOMAIN m.entries : /\ m.entries[i].avail
                                /\ m.entries[i].base <= b
                                /\ b < m.entries[i].base + m.entries[i].length
Multiboot ==
  {m \in {Map("multiboot", TRUE, 8, h,
              <<Usable_(0, 5), Other(5, b - 5), Usable_(b, l), Usable_(b + l, k),
                Other(b + l + k, 2), Usable_(b + l + k + 3, k)>>) :
            h \in {24, 28}, b \in {5, 6, 8}, l \in {3, 18, 21, 25}, k \in {0, 5, 20}}
     : ImageInRam(m)}
  \union {Map("multiboot", TRUE, 8, 24, <<Usable_(6, l), Usable_(l + 231, 12)>>) :
            l \in {18, 20, 21}}
  \union {Map("multiboot", TRUE, 8, 24, <<Usable_(251, 12), Usable_(6, 31)>>),
          Map("multiboot", TRUE, 8, 24, <<Usable_(0, 5), Usable_(8, 240)>>),
          Map("multiboot", FALSE, 8, 24, <<Usable_(8, 40)>>)}

\* Under UEFI the image may be below, between or above conventional memory.
Uefi ==
  {Map("uefi", TRUE, 4 * i, 4 * i + 16,
       <<Usable_(0, 4 * i), Other(4 * i, 16), Usable_(4 * i + 16, 4 * k)>>) :
     i \in 0 .. 5, k \in {0, 1, 3, 22}}

AllMaps == Multiboot \union Uefi
-----------------------------------------------------------------------------
Cpu(c) == [type |-> "lapic", id |-> c, enabled |-> TRUE]
IoApic(a) == [type |-> "ioapic", addr |-> a]
Rsdp == [sig |-> TRUE, sum |-> TRUE, revision |-> 0, xsdt_address |-> 0,
         xsdt |-> << >>, rsdt |-> <<"FACP", "APIC">>]
TablesAt(at, lapic, entries) ==
  [ebda_seg |-> 0, ebda |-> << >>, bios |-> <<Rsdp>>, at |-> at,
   madt |-> [lapic |-> lapic, entries |-> entries]]

\* Standard addresses, no IOAPIC, tables above 1 GB, a local APIC elsewhere,
\* IOAPICs in another GB and at three offsets in a large page, and no RSDP.
AllTables ==
  {TablesAt(40, LAPIC_DEFAULT, <<Cpu(0), Cpu(1), Cpu(2), IoApic(IOAPIC_DEFAULT)>>),
   TablesAt(40, LAPIC_DEFAULT, <<Cpu(0), Cpu(1)>>),
   TablesAt(300, LAPIC_DEFAULT, <<Cpu(0)>>),
   TablesAt(40, LAPIC_DEFAULT - LARGE, <<Cpu(0), Cpu(1), IoApic(IOAPIC_DEFAULT - LARGE)>>),
   TablesAt(40, LAPIC_DEFAULT - LARGE, <<Cpu(0), IoApic(IOAPIC_DEFAULT - LARGE)>>),
   TablesAt(40, LAPIC_DEFAULT, <<Cpu(0), IoApic(IOAPIC_DEFAULT - GB)>>),
   TablesAt(40, LAPIC_DEFAULT, <<Cpu(0), IoApic(IOAPIC_DEFAULT + PAGE)>>),
   TablesAt(40, LAPIC_DEFAULT, <<Cpu(0), IoApic(IOAPIC_DEFAULT + 2 * PAGE)>>),
   [TablesAt(300, 0, << >>) EXCEPT !.bios = << >>]}
=============================================================================
