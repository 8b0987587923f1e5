----------------------------- MODULE FrameAlloc -----------------------------
(***************************************************************************)
(* Physical frames: the region list built from the firmware memory map     *)
(* (memmap.c) and alloc_frame of paging64.c, which serves the bootstrap    *)
(* pool until memmap_activate and the regions afterwards.  Everything runs *)
(* on the boot processor before the other CPUs start.                      *)
(*                                                                         *)
(* A firmware map fw is a record: boot ("multiboot" or "uefi"), mmap (the  *)
(* multiboot flag that a map was passed), the loaded image [lo, hi) with   *)
(* hi = &kernel_end, and its entries [base, length, avail] in order.       *)
(***************************************************************************)
EXTENDS Integers, Sequences, FiniteSets

CONSTANTS PAGE,         \* bytes in a frame (4096)
          LOW,          \* memory below is never handed out (0x100000)
          MAPPED,       \* end of the kernel identity map (1 GB)
          MAX_REGIONS, POOL_FRAMES,
          Maps          \* the firmware maps considered

Aligned(a) == a % PAGE = 0
Region == [base : Nat, length : Nat]

\* What boot loaders guarantee: entries do not overlap, the UEFI ones are
\* whole pages, the image ends on a page (ALIGN(4K) in both linker scripts),
\* is mapped, starts at LOW under multiboot and lies outside conventional
\* memory under UEFI.
Entry == [base : Nat, length : Nat, avail : BOOLEAN]
SoundMap(m) ==
  /\ m.boot \in {"multiboot", "uefi"} /\ m.mmap \in BOOLEAN
  /\ m.entries \in Seq(Entry) /\ m.lo \in Nat /\ m.hi \in Nat
  /\ \A i, j \in DOMAIN m.entries : i # j =>
       \/ m.entries[i].base + m.entries[i].length <= m.entries[j].base
       \/ m.entries[j].base + m.entries[j].length <= m.entries[i].base
  /\ m.lo + POOL_FRAMES * PAGE <= m.hi /\ m.lo < m.hi /\ m.hi <= MAPPED
  /\ Aligned(m.lo) /\ Aligned(m.hi)
  /\ m.boot = "multiboot" => m.lo = LOW
  /\ m.boot = "uefi" => \A i \in DOMAIN m.entries :
       LET e == m.entries[i] IN
       /\ Aligned(e.base) /\ Aligned(e.length)
       /\ e.avail => e.base + e.length <= m.lo \/ m.hi <= e.base

ASSUME FrameAssumption ==
  /\ PAGE \in Nat \ {0} /\ LOW \in Nat /\ Aligned(LOW)
  /\ MAPPED \in Nat /\ Aligned(MAPPED)
  /\ MAX_REGIONS \in Nat /\ POOL_FRAMES \in Nat
  /\ \A m \in Maps : SoundMap(m)

VARIABLES fw, regions, parsed,
          entry,       \* the entry that the parser has come to
          map_active, reserve_start, reserve_end,
          cur_region, cur_offset, next_frame,
          search,      \* the loop of memmap_alloc_frame is running
          handed,      \* frames handed out from the regions
          halted       \* "no", or why the processor stopped

parseVars == <<fw, regions, parsed, entry>>
mapVars == <<map_active, reserve_start, reserve_end>>
vars == <<parseVars, mapVars, cur_region, cur_offset, next_frame, search,
          handed, halted>>

\* Every variable keeps to its type, and the region table to its size.
TypeOK ==
  /\ fw \in Maps
  /\ regions \in Seq(Region) /\ Len(regions) <= MAX_REGIONS
  /\ parsed \in BOOLEAN /\ map_active \in BOOLEAN /\ search \in BOOLEAN
  /\ entry \in 1 .. Len(fw.entries) + 1
  /\ reserve_start \in Nat /\ reserve_end \in Nat /\ cur_offset \in Nat
  /\ cur_region \in 1 .. Len(regions) + 1
  /\ next_frame \in 0 .. POOL_FRAMES
  /\ handed \subseteq Nat
  /\ halted \in {"no", "pool", "oom", "fault"}

Init ==
  /\ fw \in Maps
  /\ regions = << >> /\ parsed = FALSE /\ entry = 1
  /\ map_active = FALSE /\ reserve_start = 0 /\ reserve_end = 0
  /\ cur_region = 1 /\ cur_offset = 0      \* regions are numbered from 1
  /\ next_frame = 0 /\ search = FALSE /\ handed = {} /\ halted = "no"
-----------------------------------------------------------------------------
\* add_region: entries past the table are silently ignored.
add_region(rs, e) ==
  IF Len(rs) >= MAX_REGIONS THEN rs
  ELSE Append(rs, [base |-> e.base, length |-> e.length])

\* One turn of the loop of either parser.
parse_entry ==
  /\ ~parsed /\ halted = "no" /\ entry <= Len(fw.entries)
  /\ regions' = IF fw.entries[entry].avail THEN add_region(regions, fw.entries[entry])
                ELSE regions
  /\ entry' = entry + 1
  /\ UNCHANGED <<fw, parsed, mapVars, cur_region, cur_offset, next_frame, search,
                 handed, halted>>

parse_end ==
  /\ ~parsed /\ halted = "no"
  /\ parsed' = TRUE
  /\ UNCHANGED <<fw, regions, entry, mapVars, cur_region, cur_offset, next_frame, search,
                 handed, halted>>

\* uefi_main.c parses before kernel_main64 takes its first frame.
memmap_parse_uefi ==
  /\ fw.boot = "uefi"
  /\ parse_entry \/ (entry > Len(fw.entries) /\ parse_end)

\* Without a map it returns before the loop.
memmap_parse_multiboot ==
  /\ fw.boot = "multiboot"
  /\ \/ fw.mmap /\ parse_entry
     \/ (fw.mmap => entry > Len(fw.entries)) /\ parse_end

\* kernel_main64 calls memmap_activate(0x100000, &kernel_end) on both paths.
memmap_activate ==
  /\ parsed /\ ~map_active /\ halted = "no"
  /\ reserve_start' = LOW /\ reserve_end' = fw.hi
  /\ cur_region' = 1 /\ cur_offset' = 0
  /\ map_active' = TRUE
  /\ UNCHANGED <<parseVars, next_frame, search, handed, halted>>
-----------------------------------------------------------------------------
\* alloc_frame before activation: the bootstrap pool, a part of the image, here
\* its end.
pool_frame(n) == fw.hi - (POOL_FRAMES - n) * PAGE
alloc_frame_pool ==
  /\ ~map_active /\ halted = "no"
  /\ fw.boot = "uefi" => parsed
  /\ IF next_frame >= POOL_FRAMES
       THEN halted' = "pool" /\ UNCHANGED next_frame
       ELSE next_frame' = next_frame + 1 /\ UNCHANGED halted
  /\ UNCHANGED <<parseVars, mapVars, cur_region, cur_offset, search, handed>>

\* alloc_frame after it: enter memmap_alloc_frame.
alloc_frame_map ==
  /\ map_active /\ halted = "no" /\ ~search
  /\ search' = TRUE
  /\ UNCHANGED <<parseVars, mapVars, cur_region, cur_offset, next_frame,
                 handed, halted>>

base_aligned(r) == ((r.base + PAGE - 1) \div PAGE) * PAGE
region_end(r) == r.base + r.length
InRegion == search /\ halted = "no" /\ cur_region <= Len(regions)
cur == regions[cur_region]
addr == base_aligned(cur) + cur_offset

below == addr < LOW
Mut_on_image == addr < reserve_end /\ addr > reserve_start
on_image == addr < reserve_end /\ addr + PAGE > reserve_start

searchSame == <<parseVars, mapVars, next_frame>>
\* One turn of the loop: the region is used up,
next_region ==
  /\ InRegion /\ addr >= region_end(cur)
  /\ cur_region' = cur_region + 1 /\ cur_offset' = 0
  /\ UNCHANGED <<searchSame, search, handed, halted>>

\* or the address is in legacy memory,
skip_low ==
  /\ InRegion /\ addr < region_end(cur) /\ below
  /\ cur_offset' = IF LOW > base_aligned(cur) THEN LOW - base_aligned(cur) ELSE 0
  /\ UNCHANGED <<searchSame, cur_region, search, handed, halted>>

\* or in the reserved range,
Mut_past_image == cur_offset + reserve_end - reserve_start
Mut_past_image_stuck == cur_offset
past_image == IF reserve_end > base_aligned(cur)
                THEN reserve_end - base_aligned(cur) ELSE cur_offset + PAGE
skip_image ==
  /\ InRegion /\ addr < region_end(cur) /\ ~below /\ on_image
  /\ cur_offset' = past_image
  /\ UNCHANGED <<searchSame, cur_region, search, handed, halted>>

\* or it is returned.  alloc_frame then zeroes the frame through the identity
\* map: a frame outside it is a page fault, which stops the processor.
Mut_step == 0
step == PAGE
take_frame ==
  /\ InRegion /\ addr < region_end(cur) /\ ~below /\ ~on_image
  /\ handed' = handed \union {addr}
  /\ cur_offset' = cur_offset + step
  /\ search' = FALSE
  /\ halted' = IF addr >= MAPPED THEN "fault" ELSE "no"
  /\ UNCHANGED <<searchSame, cur_region>>

out_of_frames ==
  /\ search /\ halted = "no" /\ cur_region > Len(regions)
  /\ halted' = "oom"
  /\ UNCHANGED <<searchSame, cur_region, cur_offset, search, handed>>

Loop == next_region \/ skip_low \/ skip_image \/ take_frame \/ out_of_frames
Next == \/ memmap_parse_uefi \/ memmap_parse_multiboot \/ memmap_activate
        \/ alloc_frame_pool \/ alloc_frame_map \/ Loop
Spec == Init /\ [][Next]_vars
-----------------------------------------------------------------------------
Apart(f, lo, hi) == f + PAGE <= lo \/ hi <= f
Inside(f, e) == e.base <= f /\ f + PAGE <= e.base + e.length
Usable == {fw.entries[i] : i \in {j \in DOMAIN fw.entries : fw.entries[j].avail}}
WholePages == \A e \in Usable : Aligned(e.base + e.length)

\* memmap_alloc_frame returns page-aligned memory above 1 MB that starts in an
\* available entry of the firmware map, and all of it is in that entry when
\* the firmware reports whole pages.  It never overlaps the kernel image, and
\* with it the bootstrap pool: under multiboot because of the reserved range,
\* under UEFI because the image is not conventional memory (memmap.c:94-101).
UsableFrames ==
  \A f \in handed :
    /\ Aligned(f) /\ f >= LOW /\ Apart(f, fw.lo, fw.hi)
    /\ \E e \in Usable : /\ e.base <= f /\ f < e.base + e.length
                         /\ WholePages => Inside(f, e)

\* The memory that the allocator answers for: all available entries of the map
\* if the region table has room left, else those it holds.
Listed ==
  IF Len(regions) < MAX_REGIONS /\ (fw.boot = "multiboot" => fw.mmap)
    THEN Usable ELSE {regions[i] : i \in DOMAIN regions}

\* The allocator panics only when every whole page above 1 MB outside the image
\* is gone; but under UEFI the available pages between 1 MB and the image are
\* lost, for main64.c:224 reserves them with it (memmap.c:154 says it does not),
\* and so are the entries that found the table full.  Nor does a frame outside
\* the identity map stop the boot before every mapped one is gone, if the
\* firmware lists the regions in the order of their addresses.
Ascending == \A i, j \in DOMAIN regions : i < j => regions[i].base <= regions[j].base
NothingLost ==
  halted = "oom" \/ (halted = "fault" /\ Ascending) =>
    \A e \in Listed : \A f \in LOW .. e.base + e.length :
      /\ Aligned(f) /\ Inside(f, e) /\ Apart(f, fw.lo, fw.hi)
      /\ fw.boot = "uefi" => f >= fw.hi
      /\ halted = "fault" => f < MAPPED
      => f \in handed

\* The loop of memmap_alloc_frame, most of whose turns stay in the same region,
\* always comes to an end.
SearchEnds == search ~> (~search \/ halted # "no")
=============================================================================
