---------------------------- MODULE PagingTables ----------------------------
(***************************************************************************)
(* The frame allocator is right for every memory map that a boot loader    *)
(* may pass.  The boot uses it only through its own steps, so what is      *)
(* shown of it holds for every boot.  Then what the page tables built from *)
(* its frames hold, operator by operator; and the invariant of the boot,   *)
(* which PagingProofs carries through its steps.                           *)
(***************************************************************************)
EXTENDS Paging, TLAPS

(* Two aligned addresses are a whole page apart.                           *)
LEMMA PageApart ==
  ASSUME NEW a \in Nat, NEW b \in Nat, Aligned(a), Aligned(b), a < b
  PROVE  a + PAGE <= b
<1> DEFINE k == a \div PAGE
           m == b \div PAGE
<1>1. PAGE \in Nat \ {0}
  BY FrameAssumption, Zenon
<1>2. a = PAGE * k /\ b = PAGE * m /\ k \in Nat /\ m \in Nat
  BY <1>1 DEF Aligned
<1> HIDE DEF k, m
<1>3. k + 1 <= m
  BY <1>1, <1>2
<1>4. PAGE * (k + 1) <= PAGE * m
  BY <1>1, <1>2, <1>3
<1>5. QED
  BY <1>1, <1>2, <1>4

(* Sums and differences of aligned addresses are aligned.                  *)
LEMMA AlignedSum ==
  ASSUME NEW a \in Nat, NEW b \in Nat, Aligned(a), Aligned(b)
  PROVE  Aligned(a + b) /\ (b <= a => Aligned(a - b)) /\ Aligned(PAGE)
<1> DEFINE k == a \div PAGE
           m == b \div PAGE
<1>1. PAGE \in Nat \ {0}
  BY FrameAssumption, Zenon
<1>2. a = PAGE * k /\ b = PAGE * m /\ k \in Nat /\ m \in Nat
  BY <1>1 DEF Aligned
<1> HIDE DEF k, m
<1>3. a + b = PAGE * (k + m) /\ a - b = PAGE * (k - m)
  BY <1>1, <1>2
<1>4. (PAGE * (k + m)) % PAGE = 0 /\ (PAGE * (k - m)) % PAGE = 0 /\ PAGE % PAGE = 0
  BY <1>1, <1>2
<1>5. QED
  BY <1>3, <1>4, Zenon DEF Aligned

(* base_aligned rounds up to a page.                                       *)
LEMMA BaseAligned ==
  ASSUME NEW r \in Region
  PROVE  /\ base_aligned(r) \in Nat /\ Aligned(base_aligned(r)) /\ r.base <= base_aligned(r)
         /\ base_aligned(r) < r.base + PAGE
<1> DEFINE k == (r.base + PAGE - 1) \div PAGE
<1>1. PAGE \in Nat \ {0} /\ r.base \in Nat
  BY FrameAssumption, Zenon DEF Region
<1>2. k \in Nat /\ r.base <= k * PAGE /\ k * PAGE < r.base + PAGE
  BY <1>1
<1> HIDE DEF k
<1>3. k * PAGE \in Nat /\ (k * PAGE) % PAGE = 0
  BY <1>1, <1>2
<1>4. QED
  BY <1>2, <1>3, Zenon DEF base_aligned, Aligned, k
-----------------------------------------------------------------------------
(* The invariant.  The regions are entries of the map, separate from each  *)
(* other and from the entries still to come; every frame handed out lies   *)
(* behind the point the search has come to, and every frame behind it has  *)
(* been handed out.                                                        *)
Separate(r, e) == r.base + r.length <= e.base \/ e.base + e.length <= r.base

RegionsRight ==
  /\ \A i \in DOMAIN regions :
       \E e \in Usable : regions[i].base = e.base /\ regions[i].length = e.length
  /\ \A i, j \in DOMAIN regions : i # j => Separate(regions[i], regions[j])
  /\ \A i \in DOMAIN regions, k \in entry .. Len(fw.entries) :
       Separate(regions[i], fw.entries[k])

PhaseRight ==
  /\ map_active => parsed /\ reserve_start = LOW /\ reserve_end = fw.hi
  /\ ~map_active => ~search /\ handed = {} /\ cur_region = 1 /\ halted \in {"no", "pool"}
  /\ map_active => halted # "pool"
  /\ Aligned(cur_offset)

\* Is f behind the point of the search?
Behind(f, i) ==
  i < cur_region \/ (i = cur_region /\ f < base_aligned(regions[i]) + cur_offset)

HandedRight ==
  \A f \in handed :
    /\ Aligned(f) /\ f >= LOW /\ Apart(f, LOW, fw.hi)
    /\ \E i \in DOMAIN regions :
         regions[i].base <= f /\ f < region_end(regions[i]) /\ Behind(f, i)

\* A frame that memmap_alloc_frame may hand out.
Free(f, r) == f >= LOW /\ Aligned(f) /\ Inside(f, r) /\ Apart(f, LOW, fw.hi)

AllHanded ==
  /\ map_active => \A i \in DOMAIN regions, f \in Nat :
       Free(f, regions[i]) /\ Behind(f, i) => f \in handed
  /\ halted = "oom" => cur_region > Len(regions)
  /\ halted = "fault" =>
       /\ cur_region <= Len(regions)
       /\ \E a \in handed : /\ a >= MAPPED /\ addr = a + PAGE
                            /\ regions[cur_region].base <= a
                            /\ a < region_end(regions[cur_region])

FInv == TypeOK /\ RegionsRight /\ PhaseRight /\ HandedRight /\ AllHanded

\* The parsers leave no available entry out while the table has room.
InTable(e) ==
  \E i \in DOMAIN regions : regions[i].base = e.base /\ regions[i].length = e.length
AllListed ==
  /\ Len(regions) < MAX_REGIONS =>
       \A k \in DOMAIN fw.entries : k < entry /\ fw.entries[k].avail => InTable(fw.entries[k])
  /\ parsed => entry > Len(fw.entries) \/ (fw.boot = "multiboot" /\ ~fw.mmap)

(* What the loop of memmap_alloc_frame reads are numbers, all on the page  *)
(* grid.                                                                   *)
LEMMA SearchFacts ==
  ASSUME FInv, cur_region <= Len(regions)
  PROVE  /\ cur_region \in DOMAIN regions /\ cur \in Region
         /\ cur.base \in Nat /\ cur.length \in Nat /\ region_end(cur) \in Nat
         /\ base_aligned(cur) \in Nat /\ cur.base <= base_aligned(cur)
         /\ cur_offset \in Nat /\ addr \in Nat /\ Aligned(addr)
         /\ cur.base <= addr /\ Aligned(base_aligned(cur))
<1>1. cur_region \in DOMAIN regions /\ cur \in Region /\ cur_offset \in Nat /\ Aligned(cur_offset)
  BY DEF FInv, TypeOK, cur, PhaseRight
<1>2. cur.base \in Nat /\ cur.length \in Nat /\ region_end(cur) \in Nat
  BY <1>1 DEF Region, region_end
<1>3. base_aligned(cur) \in Nat /\ Aligned(base_aligned(cur)) /\ cur.base <= base_aligned(cur)
  BY <1>1, BaseAligned, Zenon
<1>4. addr \in Nat /\ Aligned(addr)
  <2>1. base_aligned(cur) + cur_offset \in Nat
    BY <1>1, <1>3
  <2>2. Aligned(base_aligned(cur) + cur_offset)
    BY <1>1, <1>3, AlignedSum, Zenon
  <2>3. QED
    BY <2>1, <2>2, Zenon DEF addr
<1>5. QED
  BY <1>1, <1>2, <1>3, <1>4 DEF addr

(* A parse starts with no region, no cursor and nothing handed out.        *)
LEMMA FInvInit == Init => FInv
<1> SUFFICES ASSUME Init PROVE FInv
  BY Zenon
<1>1. fw \in Maps /\ SoundMap(fw)
  BY FrameAssumption, Zenon DEF Init
<1>2. TypeOK
  <2>1. fw.entries \in Seq(Entry) /\ Len(fw.entries) \in Nat
    BY <1>1 DEF SoundMap
  <2>2. << >> \in Seq(Region) /\ Len(<< >>) = 0
    OBVIOUS
  <2>3. /\ entry \in 1 .. Len(fw.entries) + 1 /\ cur_region \in 1 .. Len(regions) + 1
        /\ regions \in Seq(Region) /\ Len(regions) <= MAX_REGIONS
        /\ reserve_start \in Nat /\ reserve_end \in Nat /\ cur_offset \in Nat
        /\ next_frame \in 0 .. POOL_FRAMES
    BY <2>1, <2>2, FrameAssumption DEF Init
  <2>4. QED
    BY <1>1, <2>3, Zenon DEF Init, TypeOK
<1>3. RegionsRight
  BY DEF Init, RegionsRight
<1>4. PhaseRight
  BY FrameAssumption DEF Init, PhaseRight, Aligned
<1>5. HandedRight /\ AllHanded
  BY Zenon DEF Init, HandedRight, AllHanded
<1>6. QED
  BY <1>2, <1>3, <1>4, <1>5, Zenon DEF FInv

(* Only the parser touches the regions.                                    *)
LEMMA RegionsSame ==
  ASSUME RegionsRight, UNCHANGED <<fw, regions, entry>>
  PROVE  RegionsRight'
<1>1. Usable' = Usable
  BY Zenon DEF Usable
<1>2. fw' = fw /\ regions' = regions /\ entry' = entry
  BY Zenon
<1>3. QED
  BY <1>1, <1>2, Zenon DEF RegionsRight, Separate

(* The parser adds an entry that is separate from the regions before it.   *)
LEMMA ParseKeeps == FInv /\ parse_entry => FInv'
<1> SUFFICES ASSUME FInv, parse_entry PROVE FInv'
  BY Zenon
<1> DEFINE e == fw.entries[entry]
           r == [base |-> e.base, length |-> e.length]
<1>1. fw \in Maps /\ SoundMap(fw) /\ fw' = fw
  BY FrameAssumption, Zenon DEF FInv, TypeOK, parse_entry
<1>2. /\ fw.entries \in Seq(Entry) /\ entry \in DOMAIN fw.entries /\ e \in Entry
      /\ regions \in Seq(Region) /\ Len(regions) <= MAX_REGIONS /\ Len(regions) \in Nat
      /\ entry \in Nat /\ Len(fw.entries) \in Nat
  BY <1>1 DEF SoundMap, FInv, TypeOK, parse_entry
<1>3. e.base \in Nat /\ e.length \in Nat /\ r \in Region
  BY <1>2, Zenon DEF Entry, Region
<1>4. /\ ~map_active /\ ~search /\ handed = {} /\ cur_region = 1 /\ halted \in {"no", "pool"}
      /\ UNCHANGED <<parsed, mapVars, cur_region, cur_offset, next_frame, search, handed, halted>>
  BY Zenon DEF FInv, PhaseRight, parse_entry, mapVars
<1>5. regions' = regions \/ (e.avail /\ regions' = Append(regions, r) /\ Len(regions) < MAX_REGIONS)
  BY <1>2, FrameAssumption DEF parse_entry, add_region
<1>6. entry' = entry + 1 /\ entry' \in 1 .. Len(fw.entries) + 1
  BY <1>2 DEF parse_entry
<1>7. TypeOK'
  <2>1. regions' \in Seq(Region) /\ Len(regions') <= MAX_REGIONS
        /\ 1 \in 1 .. Len(regions') + 1
    <3>1. CASE regions' = regions
      BY <1>2, <3>1
    <3>2. CASE regions' = Append(regions, r) /\ Len(regions) < MAX_REGIONS
      <4>1. MAX_REGIONS \in Nat
        BY FrameAssumption, Zenon
      <4> HIDE DEF r
      <4>2. Append(regions, r) \in Seq(Region) /\ Len(Append(regions, r)) = Len(regions) + 1
        BY <1>2, <1>3
      <4>3. QED
        BY <1>2, <3>2, <4>1, <4>2
    <3>3. QED
      BY <1>5, <3>1, <3>2, Zenon
  <2>2. QED
    BY <1>1, <1>4, <1>6, <2>1, Zenon DEF TypeOK, FInv, mapVars
<1>8. RegionsRight'
  <2>1. \A k \in entry' .. Len(fw.entries) : Separate(r, fw.entries[k])
    <3> TAKE k \in entry' .. Len(fw.entries)
    <3>1. k \in DOMAIN fw.entries /\ k # entry
      BY <1>2, <1>6
    <3>2. QED
      BY <1>1, <1>2, <3>1, Zenon DEF SoundMap, Separate
  <2>2. \A i \in DOMAIN regions : Separate(regions[i], r) /\ Separate(r, regions[i])
    <3>1. entry \in entry .. Len(fw.entries)
      BY <1>2
    <3>2. \A i \in DOMAIN regions : Separate(regions[i], e)
      BY <3>1, Zenon DEF FInv, RegionsRight
    <3>3. r.base = e.base /\ r.length = e.length
      BY Zenon
    <3>4. QED
      BY <3>2, <3>3, Zenon DEF Separate
  <2>3. CASE regions' = regions
    <3>1. Usable' = Usable
      BY <1>1, Zenon DEF Usable
    <3>2. \A k \in entry' .. Len(fw.entries) : k \in entry .. Len(fw.entries)
      BY <1>2, <1>6
    <3>3. QED
      BY <1>1, <2>3, <3>1, <3>2, Zenon DEF FInv, RegionsRight, Separate
  <2>4. CASE e.avail /\ regions' = Append(regions, r)
    <3>1. DOMAIN regions' = DOMAIN regions \union {Len(regions) + 1}
      BY <1>2, <1>3, <2>4
    <3>2. regions'[Len(regions) + 1] = r /\ \A i \in DOMAIN regions : regions'[i] = regions[i]
      BY <1>2, <1>3, <2>4
    <3>3. e \in Usable /\ Usable' = Usable /\ r.base = e.base /\ r.length = e.length
      BY <1>1, <1>2, <2>4, Zenon DEF Usable
    <3> HIDE DEF r, e
    <3>4. \A i \in DOMAIN regions' :
             \E x \in Usable : regions'[i].base = x.base /\ regions'[i].length = x.length
      BY <3>1, <3>2, <3>3, Zenon DEF FInv, RegionsRight
    <3>5. \A i, j \in DOMAIN regions' : i # j => Separate(regions'[i], regions'[j])
      BY <2>2, <3>1, <3>2, Zenon DEF FInv, RegionsRight
    <3>6. \A i \in DOMAIN regions', k \in entry' .. Len(fw.entries) :
             Separate(regions'[i], fw.entries[k])
      <4>1. \A k \in entry' .. Len(fw.entries) : k \in entry .. Len(fw.entries)
        BY <1>2, <1>6
      <4>2. QED
        BY <2>1, <3>1, <3>2, <4>1, Zenon DEF FInv, RegionsRight
    <3>7. QED
      BY <1>1, <3>3, <3>4, <3>5, <3>6, Zenon DEF RegionsRight, Separate
  <2>5. QED
    BY <1>5, <2>3, <2>4, Zenon
<1>9. PhaseRight' /\ HandedRight' /\ AllHanded'
  BY <1>1, <1>4, Zenon DEF FInv, PhaseRight, HandedRight, AllHanded, mapVars, Aligned
<1>10. QED
  BY <1>7, <1>8, <1>9, Zenon DEF FInv

(* The steps before the first frame from the regions, and those that do    *)
(* not move the search.                                                    *)
LEMMA PhaseKeeps ==
  FInv /\ (parse_end \/ memmap_activate \/ alloc_frame_pool \/ alloc_frame_map) => FInv'
<1> SUFFICES ASSUME FInv PROVE parse_end \/ memmap_activate \/ alloc_frame_pool \/ alloc_frame_map
                               => FInv'
  BY Zenon
<1>1. fw \in Maps /\ SoundMap(fw)
  BY FrameAssumption, Zenon DEF FInv, TypeOK
<1>2. fw.hi \in Nat /\ LOW \in Nat /\ Aligned(0) /\ 0 \in Nat /\ PAGE \in Nat \ {0}
  BY <1>1, FrameAssumption DEF SoundMap, Aligned
<1>3. ASSUME parse_end PROVE FInv'
  <2>1. ~map_active
    BY <1>3, Zenon DEF FInv, PhaseRight, parse_end
  <2>2. UNCHANGED <<fw, regions, entry, mapVars, cur_region, cur_offset, next_frame, search,
                    handed, halted>> /\ parsed' = TRUE
    BY <1>3, Zenon DEF parse_end
  <2>3. TypeOK'
    BY <2>2, Zenon DEF TypeOK, FInv, mapVars
  <2>4. RegionsRight'
    BY <2>2, RegionsSame, Zenon DEF FInv
  <2>5. PhaseRight' /\ HandedRight' /\ AllHanded'
    <3>1. Aligned(cur_offset)'
      BY <2>2, Zenon DEF FInv, PhaseRight, Aligned
    <3>2. QED
      BY <2>1, <2>2, <3>1, Zenon DEF FInv, PhaseRight, HandedRight, AllHanded, mapVars
  <2>6. QED
    BY <2>3, <2>4, <2>5, Zenon DEF FInv
<1>4. ASSUME memmap_activate PROVE FInv'
  <2>1. /\ UNCHANGED <<fw, regions, parsed, entry, next_frame, search, handed, halted>>
        /\ reserve_start' = LOW /\ reserve_end' = fw.hi /\ cur_region' = 1 /\ cur_offset' = 0
        /\ map_active' = TRUE /\ parsed /\ halted = "no" /\ handed = {} /\ ~search
    BY <1>4, Zenon DEF memmap_activate, parseVars, FInv, PhaseRight
  <2>2. TypeOK'
    <3>1. 1 \in 1 .. Len(regions) + 1
      BY DEF FInv, TypeOK
    <3>2. QED
      BY <1>2, <2>1, <3>1, Zenon DEF TypeOK, FInv
  <2>3. RegionsRight'
    BY <2>1, RegionsSame, Zenon DEF FInv
  <2>4. PhaseRight'
    <3>1. Aligned(cur_offset)'
      BY <1>2, <2>1, Zenon DEF Aligned
    <3>2. QED
      BY <2>1, <3>1, Zenon DEF PhaseRight
  <2>5. HandedRight'
    BY <2>1, Zenon DEF HandedRight
  <2>6. AllHanded'
    <3> SUFFICES ASSUME NEW i \in DOMAIN regions, NEW f \in Nat,
                        Free(f, regions[i])', Behind(f, i)'
                 PROVE  FALSE
      BY <2>1, Zenon DEF AllHanded
    <3>1. i \in Nat \ {0} /\ regions[i] \in Region /\ regions[i].base \in Nat
      <4>1. regions \in Seq(Region)
        BY Zenon DEF FInv, TypeOK
      <4>2. i \in Nat \ {0} /\ regions[i] \in Region
        BY <4>1
      <4>3. QED
        BY <4>2, Zenon DEF Region
    <3>2. Aligned(f) /\ regions[i].base <= f /\ f < base_aligned(regions[i])
      <4>1. Aligned(f) /\ regions[i].base <= f
        BY <2>1, Zenon DEF Free, Inside, Aligned
      <4>2. i < 1 \/ f < base_aligned(regions[i]) + 0
        BY <2>1, Zenon DEF Behind, base_aligned
      <4>3. base_aligned(regions[i]) \in Nat
        BY <3>1, BaseAligned, Zenon
      <4>4. QED
        BY <3>1, <4>1, <4>2, <4>3
    <3>3. f + PAGE <= base_aligned(regions[i])
      <4>1. base_aligned(regions[i]) \in Nat /\ Aligned(base_aligned(regions[i]))
        BY <3>1, BaseAligned, Zenon
      <4>2. QED
        BY <3>2, <4>1, PageApart, Zenon
    <3>4. base_aligned(regions[i]) < regions[i].base + PAGE
      BY <3>1, BaseAligned, Zenon
    <3>5. QED
      BY <1>2, <3>1, <3>2, <3>3, <3>4, BaseAligned
  <2>7. QED
    BY <2>2, <2>3, <2>4, <2>5, <2>6, Zenon DEF FInv
<1>5. ASSUME alloc_frame_pool PROVE FInv'
  <2>1. /\ UNCHANGED <<fw, regions, parsed, entry, mapVars, cur_region, cur_offset, search, handed>>
        /\ ~map_active /\ halted' \in {"no", "pool"} /\ next_frame' \in 0 .. POOL_FRAMES
    BY <1>5, FrameAssumption DEF alloc_frame_pool, parseVars, FInv, TypeOK
  <2>2. TypeOK'
    BY <2>1, Zenon DEF TypeOK, FInv, mapVars
  <2>3. RegionsRight'
    BY <2>1, RegionsSame, Zenon DEF FInv
  <2>4. PhaseRight' /\ HandedRight' /\ AllHanded'
    <3>1. Aligned(cur_offset)'
      BY <2>1, Zenon DEF FInv, PhaseRight, Aligned
    <3>2. QED
      BY <2>1, <3>1, Zenon DEF FInv, PhaseRight, HandedRight, AllHanded, mapVars
  <2>5. QED
    BY <2>2, <2>3, <2>4, Zenon DEF FInv
<1>6. ASSUME alloc_frame_map PROVE FInv'
  <2>1. /\ UNCHANGED <<fw, regions, parsed, entry, mapVars, cur_region, cur_offset, next_frame,
                       handed, halted>>
        /\ map_active /\ halted = "no" /\ search' = TRUE
    BY <1>6, Zenon DEF alloc_frame_map, parseVars
  <2>2. TypeOK'
    BY <2>1, Zenon DEF TypeOK, FInv, mapVars
  <2>3. RegionsRight'
    BY <2>1, RegionsSame, Zenon DEF FInv
  <2>4. PhaseRight'
    <3>1. Aligned(cur_offset)'
      BY <2>1, Zenon DEF FInv, PhaseRight, Aligned
    <3>2. QED
      BY <2>1, <3>1, Zenon DEF FInv, PhaseRight, mapVars
  <2>5. HandedRight'
    BY <2>1, Zenon DEF FInv, HandedRight, mapVars, Aligned, Apart, region_end, Behind, base_aligned
  <2>6. AllHanded'
    BY <2>1, Zenon DEF FInv, AllHanded, mapVars, Aligned, Apart, Free, Inside, region_end, Behind,
       base_aligned, addr, cur
  <2>7. QED
    BY <2>2, <2>3, <2>4, <2>5, <2>6, Zenon DEF FInv
<1>7. QED
  BY <1>3, <1>4, <1>5, <1>6, Zenon

(* A turn that moves the search forward in its region, past nothing but    *)
(* frames it hands out, keeps the order of things.                         *)
LEMMA AdvanceKeeps ==
  ASSUME FInv, map_active, cur_region \in DOMAIN regions,
         UNCHANGED <<fw, regions, parsed, entry, mapVars, next_frame, cur_region>>,
         NEW d \in Nat, cur_offset <= d, Aligned(d), cur_offset' = d,
         handed' = handed \/ (/\ handed' = handed \union {addr} /\ addr < base_aligned(cur) + d
                             /\ addr < region_end(cur) /\ addr >= LOW /\ Apart(addr, LOW, fw.hi)),
         \A f \in Nat : Free(f, cur) /\ addr <= f /\ f < base_aligned(cur) + d => f \in handed',
         search' \in BOOLEAN, halted' \in {"no", "fault"}
  PROVE  /\ TypeOK' /\ RegionsRight' /\ PhaseRight' /\ HandedRight'
         /\ \A i \in DOMAIN regions', f \in Nat :
              Free(f, regions[i])' /\ Behind(f, i)' => f \in handed'
<1>1. /\ cur \in Region /\ cur.base \in Nat /\ cur.length \in Nat /\ region_end(cur) \in Nat
      /\ base_aligned(cur) \in Nat /\ addr \in Nat /\ Aligned(addr) /\ cur.base <= addr
      /\ cur_offset \in Nat /\ addr = base_aligned(cur) + cur_offset
  <2>1. cur_region <= Len(regions)
    BY DEF FInv, TypeOK
  <2>2. QED
    BY <2>1, SearchFacts, Zenon DEF addr
<1>2. handed \subseteq Nat /\ handed' \subseteq Nat /\ handed \subseteq handed'
  BY <1>1, Zenon DEF FInv, TypeOK
<1>3. /\ fw' = fw /\ regions' = regions /\ parsed' = parsed /\ entry' = entry
      /\ map_active' = map_active /\ reserve_start' = reserve_start
      /\ reserve_end' = reserve_end /\ next_frame' = next_frame /\ cur_region' = cur_region
  BY Zenon DEF mapVars
<1>4. TypeOK'
  <2>1. halted' \in {"no", "pool", "oom", "fault"}
    BY Zenon
  <2>2. QED
    BY <1>2, <1>3, <2>1, Zenon DEF TypeOK, FInv
<1>5. RegionsRight'
  BY <1>3, RegionsSame, Zenon DEF FInv
<1>6. PhaseRight'
  <2>1. Aligned(cur_offset)'
    BY Zenon DEF Aligned
  <2>2. halted' # "pool"
    BY Zenon
  <2>3. QED
    BY <1>3, <2>1, <2>2 DEF PhaseRight, FInv
<1>7. \A i \in DOMAIN regions, f \in Nat : Behind(f, i) => Behind(f, i)'
  <2> SUFFICES ASSUME NEW i \in DOMAIN regions, NEW f \in Nat, Behind(f, i) PROVE Behind(f, i)'
    BY Zenon
  <2>1. CASE i < cur_region
    BY <1>3, <2>1, Zenon DEF Behind
  <2>2. CASE i = cur_region /\ f < base_aligned(cur) + cur_offset
    <3>1. f < base_aligned(cur) + d
      BY <1>1, <2>2
    <3>2. QED
      BY <1>3, <2>2, <3>1, Zenon DEF Behind, base_aligned, cur
  <2>3. QED
    BY <2>1, <2>2, Zenon DEF Behind, cur
<1>8. HandedRight'
  <2> SUFFICES ASSUME NEW f \in handed'
               PROVE  /\ Aligned(f) /\ f >= LOW /\ Apart(f, LOW, fw.hi)
                      /\ \E i \in DOMAIN regions : /\ regions[i].base <= f
                                                   /\ f < region_end(regions[i]) /\ Behind(f, i)'
    BY <1>3, Zenon DEF HandedRight, Aligned, Apart, region_end
  <2>1. CASE f \in handed
    BY <1>2, <1>7, <2>1, Zenon DEF FInv, HandedRight
  <2>2. CASE f = addr /\ handed' # handed
    <3>1. f < base_aligned(cur) + d /\ f < region_end(cur) /\ f >= LOW /\ Apart(f, LOW, fw.hi)
      BY <2>2, Zenon
    <3>2. \A i \in DOMAIN regions : i = cur_region => Behind(f, i)'
      BY <1>3, <3>1, Zenon DEF Behind, base_aligned, cur
    <3>3. QED
      BY <1>1, <2>2, <3>1, <3>2, Zenon DEF cur
  <2>3. QED
    BY <2>1, <2>2
<1>9. ASSUME NEW i \in DOMAIN regions, NEW f \in Nat, Free(f, regions[i]), Behind(f, i)'
      PROVE  f \in handed'
  <2>1. CASE Behind(f, i)
    BY <1>2, <1>9, <2>1, Zenon DEF FInv, AllHanded
  <2>2. CASE ~Behind(f, i)
    <3>1. i \in Nat /\ cur_region \in Nat
      BY DEF FInv, TypeOK
    <3>2. i = cur_region
      BY <1>3, <1>9, <2>2, <3>1, Zenon DEF Behind
    <3>3. f < base_aligned(cur) + d
      BY <1>3, <1>9, <3>1, <3>2 DEF Behind, base_aligned, cur
    <3>4. ~(f < base_aligned(cur) + cur_offset)
      BY <2>2, <3>2, Zenon DEF Behind, cur
    <3>5. addr <= f
      BY <1>1, <3>4
    <3>6. QED
      BY <1>9, <3>2, <3>3, <3>5, Zenon DEF cur
  <2>3. QED
    BY <2>1, <2>2, Zenon
<1>10. \A i \in DOMAIN regions', f \in Nat :
         Free(f, regions[i])' /\ Behind(f, i)' => f \in handed'
  BY <1>3, <1>9, Zenon DEF Free, Aligned, Inside, Apart
<1>11. QED
  BY <1>4, <1>5, <1>6, <1>8, <1>10, Zenon

(* Legacy memory and the image are passed over, nothing else is.           *)
LEMMA SkipKeeps == FInv /\ (skip_low \/ skip_image) => FInv'
<1> SUFFICES ASSUME FInv, skip_low \/ skip_image PROVE FInv'
  BY Zenon
<1> DEFINE Moves(d) ==
             /\ d \in Nat /\ cur_offset' = d /\ cur_offset <= d /\ Aligned(d)
             /\ \A f \in Nat : ~(Free(f, cur) /\ addr <= f /\ f < base_aligned(cur) + d)
<1>1. /\ InRegion /\ addr < region_end(cur)
      /\ UNCHANGED <<parseVars, mapVars, next_frame, cur_region, search, handed, halted>>
  BY Zenon DEF skip_low, skip_image, searchSame
<1>2. /\ map_active /\ cur_region <= Len(regions) /\ search /\ halted = "no"
      /\ reserve_start = LOW /\ reserve_end = fw.hi
  BY <1>1, Zenon DEF InRegion, FInv, PhaseRight
<1>3. fw \in Maps /\ SoundMap(fw)
  BY FrameAssumption, Zenon DEF FInv, TypeOK
<1>4. fw.hi \in Nat /\ Aligned(fw.hi) /\ LOW \in Nat /\ Aligned(LOW) /\ PAGE \in Nat \ {0}
  BY <1>3, FrameAssumption, Zenon DEF SoundMap
<1>5. /\ cur_region \in DOMAIN regions /\ base_aligned(cur) \in Nat /\ cur_offset \in Nat
      /\ Aligned(base_aligned(cur)) /\ addr \in Nat
      /\ addr = base_aligned(cur) + cur_offset
  BY <1>2, SearchFacts, Zenon DEF addr
<1>6. ASSUME skip_low PROVE Moves(LOW - base_aligned(cur))
  <2>1. addr < LOW
    BY <1>6, Zenon DEF skip_low, below
  <2>2. /\ cur_offset' = LOW - base_aligned(cur) /\ LOW - base_aligned(cur) \in Nat
        /\ cur_offset <= LOW - base_aligned(cur)
    BY <1>4, <1>5, <1>6, <2>1 DEF skip_low
  <2>3. Aligned(LOW - base_aligned(cur))
    <3>1. base_aligned(cur) <= LOW
      BY <1>4, <1>5, <2>1
    <3>2. QED
      BY <1>4, <1>5, <3>1, AlignedSum, Zenon
  <2>4. \A f \in Nat : Free(f, cur) => f >= LOW
    BY Zenon DEF Free
  <2>5. \A f \in Nat : f < base_aligned(cur) + (LOW - base_aligned(cur)) => ~(f >= LOW)
    BY <1>4, <1>5
  <2>6. QED
    BY <2>2, <2>3, <2>4, <2>5, Zenon
<1>7. ASSUME skip_image PROVE Moves(fw.hi - base_aligned(cur))
  <2>1. addr < fw.hi /\ LOW <= addr /\ cur_offset' = past_image
    BY <1>2, <1>4, <1>5, <1>7 DEF skip_image, below, on_image
  <2>2. /\ cur_offset' = fw.hi - base_aligned(cur) /\ fw.hi - base_aligned(cur) \in Nat
        /\ cur_offset <= fw.hi - base_aligned(cur)
    BY <1>2, <1>4, <1>5, <2>1 DEF past_image
  <2>3. Aligned(fw.hi - base_aligned(cur))
    <3>1. base_aligned(cur) <= fw.hi
      BY <1>4, <1>5, <2>1
    <3>2. QED
      BY <1>4, <1>5, <3>1, AlignedSum, Zenon
  <2>4. \A f \in Nat : Free(f, cur) => f >= LOW /\ Apart(f, LOW, fw.hi)
    BY Zenon DEF Free
  <2>5. \A f \in Nat : f < base_aligned(cur) + (fw.hi - base_aligned(cur)) /\ f >= LOW
                       => ~Apart(f, LOW, fw.hi)
    BY <1>4, <1>5 DEF Apart
  <2>6. QED
    BY <2>2, <2>3, <2>4, <2>5, Zenon
<1>8. PICK d \in Nat : Moves(d)
  BY <1>6, <1>7, Zenon
<1>9. /\ UNCHANGED <<fw, regions, parsed, entry, mapVars, next_frame, cur_region>>
      /\ handed' = handed /\ search' = TRUE /\ halted' = "no"
  BY <1>1, <1>2, Zenon DEF parseVars, FInv, TypeOK
<1>10. /\ TypeOK' /\ RegionsRight' /\ PhaseRight' /\ HandedRight'
       /\ \A i \in DOMAIN regions', f \in Nat :
            Free(f, regions[i])' /\ Behind(f, i)' => f \in handed'
  <2>1. search' \in BOOLEAN /\ halted' \in {"no", "fault"}
    BY <1>9, Zenon
  <2>2. QED
    BY <1>2, <1>5, <1>8, <1>9, <2>1, AdvanceKeeps, Zenon
<1>11. AllHanded'
  BY <1>9, <1>10, Zenon DEF AllHanded
<1>12. QED
  BY <1>10, <1>11, Zenon DEF FInv

(* A frame is handed out, and it is the only one passed.                   *)
LEMMA TakeKeeps == FInv /\ take_frame => FInv'
<1> SUFFICES ASSUME FInv, take_frame PROVE FInv'
  BY Zenon
<1>1. /\ InRegion /\ addr < region_end(cur) /\ ~below /\ ~on_image
      /\ handed' = handed \union {addr} /\ cur_offset' = cur_offset + PAGE /\ search' = FALSE
      /\ halted' = IF addr >= MAPPED THEN "fault" ELSE "no"
      /\ UNCHANGED <<fw, regions, parsed, entry, mapVars, next_frame, cur_region>>
  BY Zenon DEF take_frame, searchSame, parseVars, step
<1>2. map_active /\ cur_region <= Len(regions) /\ reserve_start = LOW /\ reserve_end = fw.hi
  BY <1>1, Zenon DEF InRegion, FInv, PhaseRight
<1>3. fw \in Maps /\ SoundMap(fw)
  BY FrameAssumption, Zenon DEF FInv, TypeOK
<1>4. fw.hi \in Nat /\ LOW \in Nat /\ MAPPED \in Nat /\ PAGE \in Nat \ {0}
  BY <1>3, FrameAssumption, Zenon DEF SoundMap
<1>5. /\ cur_region \in DOMAIN regions /\ base_aligned(cur) \in Nat /\ cur_offset \in Nat
      /\ addr \in Nat /\ Aligned(addr) /\ cur.base <= addr
      /\ addr = base_aligned(cur) + cur_offset
  BY <1>2, SearchFacts, Zenon DEF addr
<1>6. PICK d \in Nat : d = cur_offset + PAGE
  BY <1>4, <1>5
<1>7. Aligned(d)
  <2>1. Aligned(cur_offset) /\ Aligned(PAGE) /\ PAGE \in Nat
    BY <1>4, <1>5, AlignedSum, Zenon DEF FInv, PhaseRight
  <2>2. QED
    BY <1>5, <1>6, <2>1, AlignedSum, Zenon
<1>8. /\ addr < base_aligned(cur) + d /\ addr >= LOW /\ Apart(addr, LOW, fw.hi)
      /\ cur_offset <= d
  BY <1>1, <1>2, <1>4, <1>5, <1>6 DEF below, on_image, Apart
<1>9. ASSUME NEW f \in Nat, Free(f, cur), addr <= f, f < base_aligned(cur) + d
      PROVE  f \in handed'
  <2>1. Aligned(f) /\ f < addr + PAGE
    BY <1>4, <1>5, <1>6, <1>9 DEF Free
  <2>2. ~(addr < f)
    <3>1. addr < f => addr + PAGE <= f
      BY <1>5, <2>1, PageApart, Zenon
    <3>2. QED
      BY <1>4, <1>5, <2>1, <3>1
  <2>3. f = addr
    BY <1>5, <1>9, <2>2
  <2>4. QED
    BY <1>1, <2>3, Zenon
<1>10. /\ TypeOK' /\ RegionsRight' /\ PhaseRight' /\ HandedRight'
       /\ \A i \in DOMAIN regions', f \in Nat :
            Free(f, regions[i])' /\ Behind(f, i)' => f \in handed'
  <2>1. search' \in BOOLEAN /\ halted' \in {"no", "fault"} /\ cur_offset' = d
    BY <1>1, <1>6, Zenon
  <2>2. QED
    BY <1>1, <1>2, <1>5, <1>7, <1>8, <1>9, <2>1, AdvanceKeeps, Zenon
<1>11. AllHanded'
  <2>1. halted' # "oom"
    BY <1>1, Zenon
  <2>2. ASSUME halted' = "fault"
        PROVE  /\ cur_region' <= Len(regions')
               /\ \E a \in handed' : /\ a >= MAPPED /\ addr' = a + PAGE
                                     /\ regions'[cur_region'].base <= a
                                     /\ a < region_end(regions[cur_region])'
    <3>1. addr >= MAPPED
      BY <1>1, <2>2, Zenon
    <3>2. addr' = addr + PAGE
      <4>1. addr' = base_aligned(cur) + (cur_offset + PAGE)
        BY <1>1, Zenon DEF addr, base_aligned, cur
      <4>2. QED
        BY <1>4, <1>5, <4>1
    <3>3. cur_region' <= Len(regions')
      BY <1>1, <1>2, Zenon
    <3>4. regions'[cur_region'].base <= addr /\ addr < region_end(regions[cur_region])'
      BY <1>1, <1>5, Zenon DEF cur, region_end
    <3>5. addr \in handed'
      BY <1>1, Zenon
    <3>6. QED
      BY <3>1, <3>2, <3>3, <3>4, <3>5, Zenon
  <2>3. QED
    BY <1>10, <2>1, <2>2, Zenon DEF AllHanded
<1>12. QED
  BY <1>10, <1>11, Zenon DEF FInv

(* A region is left when no frame fits in what is left of it, and the      *)
(* allocator gives up behind the last.                                     *)
LEMMA LeaveKeeps == FInv /\ (next_region \/ out_of_frames) => FInv'
<1> SUFFICES ASSUME FInv PROVE next_region \/ out_of_frames => FInv'
  BY Zenon
<1>1. /\ fw \in Maps /\ SoundMap(fw) /\ PAGE \in Nat \ {0} /\ Aligned(0) /\ 0 \in Nat
      /\ regions \in Seq(Region) /\ Len(regions) \in Nat /\ cur_region \in Nat
      /\ DOMAIN regions = 1 .. Len(regions) /\ handed \subseteq Nat
  BY FrameAssumption DEF FInv, TypeOK, Aligned
<1>2. ASSUME next_region PROVE FInv'
  <2>1. /\ InRegion /\ addr >= region_end(cur)
        /\ cur_region' = cur_region + 1 /\ cur_offset' = 0
        /\ UNCHANGED <<fw, regions, parsed, entry, mapVars, next_frame, search, handed, halted>>
    BY <1>2, Zenon DEF next_region, searchSame, parseVars
  <2>2. map_active /\ cur_region <= Len(regions) /\ halted = "no"
    BY <2>1, Zenon DEF InRegion, FInv, PhaseRight
  <2>3. cur_region \in DOMAIN regions /\ region_end(cur) \in Nat /\ addr \in Nat /\ cur.base \in Nat
        /\ cur.length \in Nat
    BY <2>2, SearchFacts, Zenon
  <2>4. TypeOK'
    <3>1. cur_region' \in 1 .. Len(regions) + 1
      BY <1>1, <2>1, <2>2
    <3>2. QED
      BY <1>1, <2>1, <3>1, Zenon DEF FInv, TypeOK, mapVars
  <2>5. RegionsRight'
    BY <2>1, RegionsSame, Zenon DEF FInv
  <2>6. PhaseRight'
    <3>1. Aligned(cur_offset)'
      BY <1>1, <2>1, Zenon DEF Aligned
    <3>2. QED
      BY <2>1, <2>2, <3>1, Zenon DEF PhaseRight, FInv, mapVars
  <2>7. \A i \in DOMAIN regions, f \in Nat : i <= cur_region => Behind(f, i)'
    BY <1>1, <2>1 DEF Behind
  <2>8. \A i \in DOMAIN regions, f \in Nat : Behind(f, i) => i <= cur_region
    BY <1>1 DEF Behind
  <2>9. HandedRight'
    BY <1>1, <2>1, <2>7, <2>8, Zenon DEF FInv, HandedRight, Aligned, Apart, region_end
  <2>10. ASSUME NEW i \in DOMAIN regions, NEW f \in Nat, Free(f, regions[i]), Behind(f, i)'
         PROVE  f \in handed
    <3>1. regions[i] \in Region
      BY <1>1
    <3>2. regions[i].base \in Nat /\ regions[i].length \in Nat /\ base_aligned(regions[i]) \in Nat
      BY <3>1, BaseAligned, Zenon DEF Region
    <3>3. CASE i < cur_region
      BY <2>2, <2>10, <3>3, Zenon DEF FInv, AllHanded, Behind
    <3>4. CASE i = cur_region
      <4>1. f < addr
        BY <1>1, <2>1, <2>3, <2>10, <3>4 DEF Free, Inside, region_end, cur
      <4>2. Behind(f, i)
        BY <3>4, <4>1, Zenon DEF Behind, addr, cur
      <4>3. QED
        BY <2>2, <2>10, <4>2, Zenon DEF FInv, AllHanded
    <3>5. CASE i = cur_region + 1
      <4>1. f < base_aligned(regions[i]) + 0
        <5>1. i < cur_region + 1 \/ f < base_aligned(regions[i]) + 0
          BY <2>1, <2>10, Zenon DEF Behind, base_aligned
        <5>2. QED
          BY <1>1, <3>5, <5>1
      <4>2. Aligned(f) /\ regions[i].base <= f
        BY <2>10, Zenon DEF Free, Inside
      <4>3. f + PAGE <= base_aligned(regions[i])
        <5>1. Aligned(base_aligned(regions[i])) /\ f < base_aligned(regions[i])
          BY <3>1, <3>2, <4>1, BaseAligned
        <5>2. QED
          BY <3>2, <4>2, <5>1, PageApart, Zenon
      <4>4. base_aligned(regions[i]) < regions[i].base + PAGE
        BY <3>1, BaseAligned, Zenon
      <4>5. QED
        BY <1>1, <3>2, <4>2, <4>3, <4>4
    <3>6. i < cur_region \/ i = cur_region \/ i = cur_region + 1
      BY <1>1, <2>1, <2>10 DEF Behind
    <3>7. QED
      BY <3>3, <3>4, <3>5, <3>6, Zenon
  <2>11. \A i \in DOMAIN regions', f \in Nat :
           Free(f, regions[i])' /\ Behind(f, i)' => f \in handed'
    BY <2>1, <2>10, Zenon DEF Free, Aligned, Inside, Apart
  <2>12. AllHanded'
    BY <2>1, <2>2, <2>11, Zenon DEF AllHanded
  <2>13. QED
    BY <2>4, <2>5, <2>6, <2>9, <2>12, Zenon DEF FInv
<1>3. ASSUME out_of_frames PROVE FInv'
  <2>1. /\ UNCHANGED <<fw, regions, parsed, entry, mapVars, next_frame, cur_region, cur_offset,
                       search, handed>>
        /\ halted' = "oom" /\ search /\ cur_region > Len(regions)
    BY <1>3, Zenon DEF out_of_frames, searchSame, parseVars
  <2>2. map_active
    BY <2>1, Zenon DEF FInv, PhaseRight
  <2>3. TypeOK'
    <3>1. halted' \in {"no", "pool", "oom", "fault"}
      BY <2>1, Zenon
    <3>2. QED
      BY <2>1, <3>1, Zenon DEF FInv, TypeOK, mapVars
  <2>4. RegionsRight'
    BY <2>1, RegionsSame, Zenon DEF FInv
  <2>5. PhaseRight'
    <3>1. Aligned(cur_offset)'
      BY <2>1, Zenon DEF Aligned, FInv, PhaseRight
    <3>2. QED
      BY <2>1, <2>2, <3>1, Zenon DEF PhaseRight, FInv, mapVars
  <2>6. HandedRight'
    BY <2>1, Zenon DEF FInv, HandedRight, Aligned, Apart, region_end, Behind, base_aligned
  <2>7. \A i \in DOMAIN regions', f \in Nat :
          Free(f, regions[i])' /\ Behind(f, i)' => f \in handed'
    BY <2>1, <2>2, Zenon DEF FInv, AllHanded, Free, Behind, Aligned, Inside, Apart, base_aligned
  <2>8. AllHanded'
    BY <2>1, <2>7, Zenon DEF AllHanded
  <2>9. QED
    BY <2>3, <2>4, <2>5, <2>6, <2>8, Zenon DEF FInv
<1>4. QED
  BY <1>2, <1>3, Zenon

(* Every step of the parse and of frame_alloc keeps the invariant.         *)
LEMMA FInvNext == FInv /\ [Next]_vars => FInv'
<1> SUFFICES ASSUME FInv, [Next]_vars PROVE FInv'
  BY Zenon
<1>1. CASE parse_entry
  BY <1>1, ParseKeeps, Zenon
<1>2. CASE parse_end \/ memmap_activate \/ alloc_frame_pool \/ alloc_frame_map
  BY <1>2, PhaseKeeps, Zenon
<1>3. CASE skip_low \/ skip_image
  BY <1>3, SkipKeeps, Zenon
<1>4. CASE take_frame
  BY <1>4, TakeKeeps, Zenon
<1>5. CASE next_region \/ out_of_frames
  BY <1>5, LeaveKeeps, Zenon
<1>6. CASE UNCHANGED vars
  <2>1. UNCHANGED <<fw, regions, parsed, entry, map_active, reserve_start, reserve_end,
                    cur_region, cur_offset, next_frame, search, handed, halted>>
    BY <1>6, Zenon DEF vars, parseVars, mapVars
  <2>2. TypeOK'
    BY <2>1, Zenon DEF FInv, TypeOK
  <2>3. RegionsRight'
    BY <2>1, RegionsSame, Zenon DEF FInv
  <2>4. PhaseRight'
    BY <2>1, Zenon DEF FInv, PhaseRight, Aligned
  <2>5. HandedRight'
    BY <2>1, Zenon DEF FInv, HandedRight, Aligned, Apart, region_end, Behind, base_aligned
  <2>6. AllHanded'
    BY <2>1, Zenon DEF FInv, AllHanded, Aligned, Apart, Free, Inside, region_end, Behind,
                       base_aligned, addr, cur
  <2>7. QED
    BY <2>2, <2>3, <2>4, <2>5, <2>6, Zenon DEF FInv
<1>7. QED
  BY <1>1, <1>2, <1>3, <1>4, <1>5, <1>6, Zenon
     DEF Next, Loop, memmap_parse_uefi, memmap_parse_multiboot

(* What the invariant says of the frames handed out.                       *)
LEMMA FramesFromInv == FInv => UsableFrames
<1> SUFFICES ASSUME FInv, NEW f \in handed
             PROVE  /\ Aligned(f) /\ f >= LOW /\ Apart(f, fw.lo, fw.hi)
                    /\ \E e \in Usable : /\ e.base <= f /\ f < e.base + e.length
                                         /\ WholePages => Inside(f, e)
  BY Zenon DEF UsableFrames
<1>1. fw \in Maps /\ SoundMap(fw) /\ PAGE \in Nat \ {0} /\ LOW \in Nat /\ f \in Nat
  BY FrameAssumption, Zenon DEF FInv, TypeOK
<1>2. Aligned(f) /\ f >= LOW /\ Apart(f, LOW, fw.hi)
  BY Zenon DEF FInv, HandedRight
<1>3. PICK i \in DOMAIN regions : regions[i].base <= f /\ f < region_end(regions[i])
  BY Zenon DEF FInv, HandedRight
<1>4. PICK e \in Usable : regions[i].base = e.base /\ regions[i].length = e.length
  BY Zenon DEF FInv, RegionsRight
<1>5. PICK j \in DOMAIN fw.entries : e = fw.entries[j] /\ fw.entries[j].avail
  BY Zenon DEF Usable
<1>6. e.base \in Nat /\ e.length \in Nat /\ e.avail
  <2>1. e \in Entry
    <3>1. fw.entries \in Seq(Entry)
      BY <1>1, Zenon DEF SoundMap
    <3>2. QED
      BY <1>5, <3>1
  <2>2. QED
    BY <1>5, <2>1, Zenon DEF Entry
<1>7. e.base <= f /\ f < e.base + e.length
  BY <1>3, <1>4, Zenon DEF region_end
<1>8. Aligned(e.base + e.length) => f + PAGE <= e.base + e.length
  <2>1. e.base + e.length \in Nat
    BY <1>6
  <2>2. QED
    BY <1>1, <1>2, <1>7, <2>1, PageApart, Zenon
<1>9. Apart(f, fw.lo, fw.hi)
  <2>1. CASE fw.boot = "multiboot"
    BY <1>1, <1>2, <2>1, Zenon DEF SoundMap
  <2>2. CASE fw.boot = "uefi"
    <3>1. Aligned(e.base) /\ Aligned(e.length) /\ (e.base + e.length <= fw.lo \/ fw.hi <= e.base)
      BY <1>1, <1>5, <1>6, <2>2, Zenon DEF SoundMap
    <3>2. Aligned(e.base + e.length)
      BY <1>6, <3>1, AlignedSum, Zenon
    <3>3. fw.lo \in Nat /\ fw.hi \in Nat
      BY <1>1, Zenon DEF SoundMap
    <3>4. QED
      BY <1>1, <1>6, <1>7, <1>8, <3>1, <3>2, <3>3 DEF Apart
  <2>3. QED
    BY <1>1, <2>1, <2>2, Zenon DEF SoundMap
<1>10. WholePages => Inside(f, e)
  BY <1>7, <1>8, Zenon DEF WholePages, Inside
<1>11. QED
  BY <1>2, <1>7, <1>9, <1>10, Zenon

(* When it stops, no frame is left in a region.                            *)
UsedUp ==
  halted = "oom" \/ (halted = "fault" /\ Ascending) =>
    \A i \in DOMAIN regions, f \in Nat :
      Free(f, regions[i]) /\ (halted = "fault" => f < MAPPED) => f \in handed

(* The invariant says so: the search is past the last region, or, after a  *)
(* fault, past the identity map in a region behind which there is none     *)
(* that begins earlier.                                                    *)
LEMMA UsedUpFromInv == FInv => UsedUp
(* No page below a point of one region is in a region that begins later.   *)
<1>NoPageBelow.
  ASSUME NEW b \in Nat, NEW l \in Nat, NEW c \in Nat, NEW m \in Nat, NEW f \in Nat, NEW a \in Nat,
         NEW p \in Nat \ {0}, b <= c, b + l <= c \/ c + m <= b, a < b + l, f < a, c <= f,
         f + p <= c + m
  PROVE  FALSE
  BY <1>NoPageBelow
<1> SUFFICES ASSUME FInv, halted = "oom" \/ (halted = "fault" /\ Ascending),
                    NEW i \in DOMAIN regions, NEW f \in Nat,
                    Free(f, regions[i]), halted = "fault" => f < MAPPED
             PROVE  f \in handed
  BY Zenon DEF UsedUp
<1>1. /\ regions \in Seq(Region) /\ cur_region \in Nat /\ handed \subseteq Nat /\ map_active
      /\ reserve_start = LOW /\ reserve_end = fw.hi
  BY DEF FInv, TypeOK, PhaseRight
<1>2. /\ i \in 1 .. Len(regions) /\ regions[i] \in Region /\ Len(regions) \in Nat
      /\ DOMAIN regions = 1 .. Len(regions)
  BY <1>1
<1>3. regions[i].base \in Nat /\ regions[i].length \in Nat /\ PAGE \in Nat \ {0}
      /\ LOW \in Nat /\ MAPPED \in Nat
  BY <1>2, FrameAssumption, Zenon DEF Region
<1>4. f \in Nat /\ f >= LOW /\ Free(f, regions[i])
  BY Zenon DEF Free
<1>5. SUFFICES Behind(f, i)
  BY <1>1, <1>4, Zenon DEF FInv, AllHanded
<1>6. CASE halted = "oom"
  BY <1>1, <1>2, <1>6 DEF FInv, AllHanded, Behind
<1>7. CASE halted = "fault"
  <2> DEFINE c == regions[cur_region]
  <2>1. cur_region <= Len(regions)
    BY <1>7, Zenon DEF FInv, AllHanded
  <2>2. PICK a \in handed : a >= MAPPED /\ addr = a + PAGE /\ c.base <= a /\ a < region_end(c)
    BY <1>7, Zenon DEF FInv, AllHanded
  <2>3. cur_region \in DOMAIN regions /\ c.base \in Nat /\ c.length \in Nat /\ a \in Nat
    BY <1>1, <2>1, SearchFacts, Zenon DEF cur
  <2>4. f < a
    BY <1>3, <1>4, <1>7, <2>2, <2>3
  <2>5. CASE i > cur_region
    <3>1. c.base <= regions[i].base /\ Separate(c, regions[i])
      <4>1. Ascending /\ RegionsRight
        BY <1>7, Zenon DEF FInv
      <4>2. cur_region < i /\ cur_region # i
        BY <1>1, <1>2, <2>5
      <4>3. QED
        BY <2>3, <4>1, <4>2, Zenon DEF Ascending, RegionsRight
    <3>2. QED
      <4>1. /\ c.base + c.length <= regions[i].base
               \/ regions[i].base + regions[i].length <= c.base
            /\ a < c.base + c.length
        BY <2>2, <3>1, Zenon DEF Separate, region_end
      <4>2. regions[i].base <= f /\ f + PAGE <= regions[i].base + regions[i].length
        BY <1>4, Zenon DEF Free, Inside
      <4>3. QED
        BY <1>3, <1>4, <2>3, <2>4, <3>1, <4>1, <4>2, <1>NoPageBelow, Zenon
  <2>6. CASE i = cur_region
    <3>1. f < a + PAGE
      BY <1>3, <1>4, <2>3, <2>4
    <3>2. QED
      BY <2>2, <2>6, <3>1, Zenon DEF Behind, addr, cur
  <2>7. CASE i < cur_region
    BY <2>7, Zenon DEF Behind
  <2>8. QED
    BY <1>1, <1>2, <2>5, <2>6, <2>7
<1>8. QED
  BY <1>6, <1>7, Zenon

(* The parsers come to every entry, and put the available ones into the    *)
(* table.                                                                  *)
LEMMA ListedInit == Init => AllListed
<1> SUFFICES ASSUME Init PROVE AllListed
  BY Zenon
<1>1. entry = 1 /\ ~parsed /\ fw \in Maps
  BY Zenon DEF Init
<1>2. fw.entries \in Seq(Entry)
  BY <1>1, FrameAssumption, Zenon DEF SoundMap
<1>3. \A k \in DOMAIN fw.entries : ~(k < entry)
  BY <1>1, <1>2
<1>4. QED
  BY <1>1, <1>3, Zenon DEF AllListed

LEMMA ListedNext == FInv /\ AllListed /\ [Next]_vars => AllListed'
<1> SUFFICES ASSUME FInv, AllListed, [Next]_vars PROVE AllListed'
  BY Zenon
<1>1. /\ fw.entries \in Seq(Entry) /\ entry \in Nat /\ regions \in Seq(Region)
      /\ MAX_REGIONS \in Nat
  <2>1. fw \in Maps /\ entry \in 1 .. Len(fw.entries) + 1 /\ regions \in Seq(Region)
    BY Zenon DEF FInv, TypeOK
  <2>2. fw.entries \in Seq(Entry) /\ MAX_REGIONS \in Nat
    BY <2>1, FrameAssumption, Zenon DEF SoundMap
  <2>3. QED
    BY <2>1, <2>2
<1>2. CASE parse_entry
  <2>1. ~parsed' /\ fw' = fw /\ entry' = entry + 1 /\ entry <= Len(fw.entries)
    BY <1>2, Zenon DEF parse_entry
  <2>0. PICK e : e = fw.entries[entry]
    BY Zenon
  <2>2. regions' = IF e.avail THEN add_region(regions, e) ELSE regions
    BY <1>2, <2>0, Zenon DEF parse_entry
  <2>3. ASSUME Len(regions') < MAX_REGIONS
        PROVE  /\ Len(regions) < MAX_REGIONS
               /\ \A d : InTable(d) => InTable(d)'
               /\ e.avail => InTable(e)'
    <3>1. CASE ~e.avail
      <4>1. regions' = regions
        BY <2>2, <3>1, Zenon
      <4>2. QED
        BY <2>3, <3>1, <4>1, Zenon DEF InTable
    <3>2. CASE e.avail
      <4> DEFINE r == [base |-> e.base, length |-> e.length]
      <4>1. regions' = IF Len(regions) >= MAX_REGIONS THEN regions ELSE Append(regions, r)
        BY <2>2, <3>2, Zenon DEF add_region
      <4>2. Len(regions) < MAX_REGIONS /\ regions' = Append(regions, r)
        BY <1>1, <2>3, <4>1
      <4>3. /\ \A i \in DOMAIN regions : i \in DOMAIN regions' /\ regions'[i] = regions[i]
            /\ Len(regions) + 1 \in DOMAIN regions' /\ regions'[Len(regions) + 1] = r
        <5> HIDE DEF r
        <5>1. QED
          BY <1>1, <4>2
      <4>4. r.base = e.base /\ r.length = e.length
        BY Zenon
      <4>5. InTable(e)'
        BY <4>3, <4>4, Zenon DEF InTable
      <4>6. ASSUME NEW d, InTable(d) PROVE InTable(d)'
        BY <4>3, <4>6, Zenon DEF InTable
      <4>7. QED
        BY <4>2, <4>5, <4>6, Zenon
    <3>3. QED
      BY <3>1, <3>2, Zenon
  <2>4. ASSUME NEW k \in DOMAIN fw.entries, k < entry + 1 PROVE k < entry \/ k = entry
    BY <1>1, <2>4
  <2>5. ASSUME Len(regions') < MAX_REGIONS, NEW k \in DOMAIN fw.entries, k < entry + 1,
               fw.entries[k].avail
        PROVE  InTable(fw.entries[k])'
    <3>1. CASE k < entry
      <4>1. InTable(fw.entries[k])
        BY <2>3, <2>5, <3>1, Zenon DEF AllListed
      <4>2. PICK d : d = fw.entries[k]
        BY Zenon
      <4>3. InTable(d)'
        BY <2>3, <2>5, <4>1, <4>2, Zenon
      <4>4. QED
        BY <2>1, <4>2, <4>3, Zenon DEF InTable
    <3>2. CASE k = entry
      BY <2>0, <2>1, <2>3, <2>5, <3>2, Zenon DEF InTable
    <3>3. QED
      BY <2>4, <2>5, <3>1, <3>2, Zenon
  <2>6. QED
    BY <2>1, <2>5, Zenon DEF AllListed
<1>3. CASE UNCHANGED <<fw, regions, entry>> /\ (parsed' => parsed)
  BY <1>3, Zenon DEF AllListed, InTable
<1>4. CASE parse_end /\ (entry > Len(fw.entries) \/ (fw.boot = "multiboot" /\ ~fw.mmap))
  <2>1. fw' = fw /\ regions' = regions /\ entry' = entry
    BY <1>4, Zenon DEF parse_end
  <2>2. QED
    BY <1>4, <2>1, Zenon DEF AllListed, InTable
<1>5. CASE memmap_parse_uefi \/ memmap_parse_multiboot
  BY <1>2, <1>4, <1>5, Zenon DEF memmap_parse_uefi, memmap_parse_multiboot
<1>6. CASE memmap_activate \/ alloc_frame_pool \/ alloc_frame_map \/ UNCHANGED vars
  <2>1. UNCHANGED parseVars
    BY <1>6 DEF vars, memmap_activate, alloc_frame_pool, alloc_frame_map
  <2>2. QED
    BY <1>3, <2>1, Zenon DEF parseVars
<1>7. CASE Loop
  BY <1>3, <1>7, Zenon DEF Loop, next_region, skip_low, skip_image, take_frame, out_of_frames,
     searchSame, parseVars
<1>8. QED
  BY <1>5, <1>6, <1>7, Zenon DEF Next

(* Together: when the allocator stops, no frame of the listed memory is    *)
(* left but those that main64.c:224 reserves.                              *)
LEMMA NothingLostFromInv == FInv /\ AllListed => NothingLost
<1> SUFFICES ASSUME FInv, AllListed, halted = "oom" \/ (halted = "fault" /\ Ascending),
                    NEW e \in Listed, NEW f \in LOW .. e.base + e.length,
                    Aligned(f), Inside(f, e), Apart(f, fw.lo, fw.hi),
                    fw.boot = "uefi" => f >= fw.hi,
                    halted = "fault" => f < MAPPED
             PROVE  f \in handed
  BY Zenon DEF NothingLost
<1>1. fw \in Maps /\ SoundMap(fw) /\ map_active /\ parsed
  <2>1. fw \in Maps /\ map_active /\ parsed
    BY DEF FInv, TypeOK, PhaseRight
  <2>2. QED
    BY <2>1, FrameAssumption, Zenon
<1>2. InTable(e)
  <2>1. CASE e \in {regions[i] : i \in DOMAIN regions}
    BY <2>1, Zenon DEF InTable
  <2>2. CASE Len(regions) < MAX_REGIONS /\ (fw.boot = "multiboot" => fw.mmap) /\ e \in Usable
    <3>1. PICK j \in DOMAIN fw.entries : e = fw.entries[j] /\ fw.entries[j].avail
      BY <2>2, Zenon DEF Usable
    <3>2. entry > Len(fw.entries)
      BY <1>1, <2>2, Zenon DEF AllListed
    <3>3. j < entry
      <4>1. fw.entries \in Seq(Entry) /\ entry \in 1 .. Len(fw.entries) + 1
        BY <1>1, Zenon DEF SoundMap, FInv, TypeOK
      <4>2. QED
        BY <3>2, <4>1
    <3>4. QED
      BY <2>2, <3>1, <3>3, Zenon DEF AllListed
  <2>3. QED
    BY <2>1, <2>2, Zenon DEF Listed
<1>3. PICK i \in DOMAIN regions : regions[i].base = e.base /\ regions[i].length = e.length
  BY <1>2, Zenon DEF InTable
<1>4. LOW \in Nat /\ e.base \in Nat /\ e.length \in Nat
  <2>1. regions[i] \in Region
    BY DEF FInv, TypeOK
  <2>2. QED
    BY <1>3, <2>1, FrameAssumption, Zenon DEF Region
<1>5. f \in Nat /\ f >= LOW
  BY <1>4
<1>6. Apart(f, LOW, fw.hi)
  <2>1. CASE fw.boot = "multiboot"
    BY <1>1, <2>1, Zenon DEF SoundMap
  <2>2. CASE fw.boot = "uefi"
    <3>1. fw.hi \in Nat
      BY <1>1, Zenon DEF SoundMap
    <3>2. QED
      BY <1>5, <2>2, <3>1 DEF Apart
  <2>3. QED
    BY <1>1, <2>1, <2>2, Zenon DEF SoundMap
<1>7. Free(f, regions[i])
  BY <1>3, <1>5, <1>6, Zenon DEF Free, Inside
<1>8. QED
  BY <1>5, <1>7, UsedUpFromInv, Zenon DEF UsedUp

(* A frame that is handed out was not handed out before: memmap_alloc_frame *)
(* has no list of used frames, only the point it has come to.              *)
LEMMA FreshFromInv == FInv /\ take_frame => addr \notin handed
<1> SUFFICES ASSUME FInv, take_frame, addr \in handed PROVE FALSE
  BY Zenon
<1>1. InRegion /\ cur_region <= Len(regions) /\ addr < region_end(cur)
  BY Zenon DEF take_frame, InRegion
<1>2. /\ cur_region \in DOMAIN regions /\ cur.base \in Nat /\ cur.length \in Nat
      /\ addr \in Nat /\ cur.base <= addr
  BY <1>1, SearchFacts, Zenon
<1>3. PICK i \in DOMAIN regions :
         regions[i].base <= addr /\ addr < region_end(regions[i]) /\ Behind(addr, i)
  BY Zenon DEF FInv, HandedRight
<1>4. regions[i] \in Region
  BY DEF FInv, TypeOK
<1>5. regions[i].base \in Nat /\ regions[i].length \in Nat
  BY <1>4, Zenon DEF Region
<1>6. CASE i = cur_region
  <2>1. ~(i < cur_region)
    BY <1>6 DEF FInv, TypeOK
  <2>2. addr < base_aligned(cur) + cur_offset
    BY <1>3, <1>6, <2>1, Zenon DEF Behind, cur
  <2>3. addr < addr
    BY <2>2, Zenon DEF addr
  <2>4. QED
    BY <1>2, <2>3
<1>7. CASE i # cur_region
  <2>1. Separate(regions[i], cur)
    BY <1>2, <1>7, Zenon DEF FInv, RegionsRight, cur
  <2>2. QED
    BY <1>1, <1>2, <1>3, <1>5, <2>1 DEF Separate, region_end
<1>8. QED
  BY <1>6, <1>7, Zenon
-----------------------------------------------------------------------------
(* No frame of the memory map is handed out twice.                         *)
THEOREM FramesFresh == Spec => [][take_frame => addr \notin handed]_vars
<1>1. FInv /\ [Next]_vars => [take_frame => addr \notin handed]_vars
  BY FreshFromInv, Zenon
<1>2. QED
  BY <1>1, FInvInit, FInvNext, PTL DEF Spec
-----------------------------------------------------------------------------
(* Every step of the boot is one of the frame allocator or leaves it alone. *)
LEMMA BootStep == [PagingNext]_allVars => [Next]_vars
<1> SUFFICES ASSUME PagingNext PROVE Next \/ UNCHANGED vars
  BY Zenon DEF allVars
<1>1. CASE uefi_main
  BY <1>1, Zenon DEF uefi_main, Next
<1>2. CASE alloc_frame
  BY <1>2, Zenon DEF alloc_frame, Next, Loop
<1>3. CASE parse_map
  BY <1>3, Zenon DEF parse_map, Next
<1>4. CASE activate_map
  BY <1>4, Zenon DEF activate_map, Next
<1>5. CASE \/ paging_init_kernel_map \/ read_acpi \/ lapic_enable \/ ioapic_write
           \/ apic_timer_init \/ create_address_space \/ create_user_process
           \/ smp_start_aps \/ ap_entry64 \/ lapic_send_eoi
  BY <1>5, Zenon DEF paging_init_kernel_map, read_acpi, lapic_enable, ioapic_write, apic_timer_init,
              create_address_space, create_user_process, smp_start_aps, ap_entry64,
              lapic_send_eoi
<1>6. QED
  BY <1>1, <1>2, <1>3, <1>4, <1>5, Zenon DEF PagingNext

(* Every frame that a boot ever gets from the memory map is usable memory  *)
(* above 1 MB outside the image, for every map a boot loader may pass.     *)
THEOREM FramesUsable == PagingSpec => []UsableFrames
<1>1. PagingInit => FInv
  BY FInvInit, Zenon DEF PagingInit
<1>2. FInv /\ [PagingNext]_allVars => FInv'
  BY BootStep, FInvNext, Zenon
<1>3. QED
  BY <1>1, <1>2, FramesFromInv, PTL DEF PagingSpec

(* A boot stops for want of frames only when every available page above    *)
(* 1 MB outside the image is gone, but for the entries a full table turned *)
(* away and, under UEFI, the memory below the image.                       *)
THEOREM FramesNotLost == PagingSpec => []NothingLost
<1>1. PagingInit => FInv /\ AllListed
  BY FInvInit, ListedInit, Zenon DEF PagingInit
<1>2. FInv /\ AllListed /\ [PagingNext]_allVars => (FInv /\ AllListed)'
  BY BootStep, FInvNext, ListedNext, Zenon
<1>3. QED
  BY <1>1, <1>2, NothingLostFromInv, PTL DEF PagingSpec
-----------------------------------------------------------------------------
(* Quotient and remainder of a number that is given by them.               *)
LEMMA DivMod ==
  ASSUME NEW a \in Nat, NEW b \in Nat \ {0}, NEW r \in Nat, r < b
  PROVE  (a * b + r) \div b = a /\ (a * b + r) % b = r
<1> DEFINE n == a * b + r
<1>1. n \in Nat
  OBVIOUS
<1> HIDE DEF n
<1> DEFINE q == n \div b
           s == n % b
<1>2. n = b * q + s /\ q \in Nat /\ s \in Nat /\ s < b
  BY <1>1
<1> HIDE DEF q, s
<1>3. b * (a - q) = s - r /\ a - q \in Int
  BY <1>2 DEF n
<1>4. ~(a - q >= 1) /\ ~(a - q <= -1)
  BY <1>2, <1>3
<1>5. a = q
  BY <1>2, <1>4
<1>6. s = r
  BY <1>2, <1>3, <1>5
<1>7. QED
  BY <1>5, <1>6, Zenon DEF n, q, s

(* The sizes of pages.                                                     *)
LEMMA Sizes ==
  /\ PAGE \in Nat \ {0} /\ ENTRIES \in Nat /\ ENTRIES >= 4
  /\ LARGE \in Nat \ {0} /\ GB \in Nat \ {0} /\ MAPPED = GB
  /\ LARGE = PAGE * ENTRIES /\ GB = LARGE * ENTRIES
<1>1. PAGE \in Nat \ {0} /\ ENTRIES \in Nat /\ ENTRIES >= 4
  BY FrameAssumption, PagingAssumption
<1>2. LARGE \in Nat \ {0}
  BY <1>1 DEF LARGE
<1>3. GB \in Nat \ {0}
  BY <1>1, <1>2 DEF GB
<1>4. QED
  BY <1>1, <1>2, <1>3, PagingAssumption, Zenon DEF LARGE, GB

(* The indices of the pages of ring 3.                                     *)
LEMMA UserIndices ==
  /\ USER_CODE_VA \in Nat /\ USER_STACK_PAGE_VA \in Nat
  /\ pdpt_idx(USER_CODE_VA) = 1 /\ pdpt_idx(USER_STACK_PAGE_VA) = 1
  /\ pd_idx(USER_CODE_VA) = ENTRIES \div 4 /\ pd_idx(USER_STACK_PAGE_VA) = ENTRIES \div 4
  /\ pt_idx(USER_CODE_VA) = 0 /\ pt_idx(USER_STACK_PAGE_VA) = 1
<1> DEFINE e == ENTRIES \div 4
<1>1. /\ PAGE \in Nat \ {0} /\ ENTRIES \in Nat /\ ENTRIES >= 4 /\ LARGE \in Nat \ {0}
      /\ GB \in Nat \ {0} /\ LARGE = PAGE * ENTRIES /\ GB = LARGE * ENTRIES
  BY Sizes, Zenon
<1>2. e \in Nat /\ ENTRIES = 4 * e /\ e >= 1 /\ e < ENTRIES
  BY <1>1, PagingAssumption
<1> HIDE DEF e
<1>3. GB = 4 * (LARGE * e) /\ LARGE * e \in Nat
  BY <1>1, <1>2
<1>4. GB \div 4 = LARGE * e
  BY <1>3
<1>5. USER_CODE_VA = GB + LARGE * e /\ USER_STACK_PAGE_VA = GB + LARGE * e + PAGE
  BY <1>4, Zenon DEF USER_CODE_VA, USER_STACK_PAGE_VA
<1>6. PAGE <= LARGE /\ PAGE < LARGE /\ LARGE <= LARGE * e
  <2>1. PAGE * 4 <= PAGE * ENTRIES
    BY <1>1
  <2>2. QED
    BY <1>1, <1>2, <2>1
<1>7. (GB + LARGE * e) \div GB = 1 /\ (GB + LARGE * e + PAGE) \div GB = 1
  <2>1. LARGE * e + PAGE < GB /\ LARGE * e < GB
    BY <1>1, <1>2, <1>3, <1>6
  <2> DEFINE x == LARGE * e
  <2> HIDE DEF x
  <2>2. x \in Nat /\ x + PAGE \in Nat /\ x < GB /\ x + PAGE < GB
    BY <1>1, <1>3, <2>1 DEF x
  <2>3. (1 * GB + x) \div GB = 1 /\ (1 * GB + (x + PAGE)) \div GB = 1
    BY <1>1, <2>2, DivMod, Zenon
  <2>4. QED
    BY <1>1, <2>2, <2>3 DEF x
<1>8. (GB + LARGE * e) \div LARGE = ENTRIES + e /\ (GB + LARGE * e + PAGE) \div LARGE = ENTRIES + e
  <2>1. GB + LARGE * e = (ENTRIES + e) * LARGE + 0
    BY <1>1, <1>2
  <2>2. ((ENTRIES + e) * LARGE + 0) \div LARGE = ENTRIES + e
    BY <1>1, <1>2, DivMod
  <2>3. ((ENTRIES + e) * LARGE + PAGE) \div LARGE = ENTRIES + e
    BY <1>1, <1>2, <1>6, DivMod
  <2> DEFINE y == (ENTRIES + e) * LARGE
  <2>4. y \in Nat
    BY <1>1, <1>2
  <2> HIDE DEF y
  <2>5. GB + LARGE * e = y /\ GB + LARGE * e + PAGE = y + PAGE
    BY <1>1, <2>1, <2>4 DEF y
  <2>6. QED
    BY <2>2, <2>3, <2>4, <2>5 DEF y
<1>9. (ENTRIES + e) % ENTRIES = e /\ 1 % ENTRIES = 1
  <2>1. (1 * ENTRIES + e) % ENTRIES = e /\ (0 * ENTRIES + 1) % ENTRIES = 1
    BY <1>1, <1>2, DivMod
  <2>2. QED
    BY <1>1, <1>2, <2>1
<1>10. /\ (GB + LARGE * e) \div PAGE = (ENTRIES + e) * ENTRIES
       /\ (GB + LARGE * e + PAGE) \div PAGE = (ENTRIES + e) * ENTRIES + 1
  <2> DEFINE z == (ENTRIES + e) * ENTRIES
  <2>1. z \in Nat
    BY <1>1, <1>2
  <2>2. GB + LARGE * e = PAGE * z
    BY <1>1, <1>2
  <2> HIDE DEF z
  <2>3. GB + LARGE * e = z * PAGE + 0 /\ GB + LARGE * e + PAGE = (z + 1) * PAGE + 0
    BY <1>1, <2>1, <2>2
  <2>4. (z * PAGE + 0) \div PAGE = z /\ ((z + 1) * PAGE + 0) \div PAGE = z + 1
    <3>1. z + 1 \in Nat /\ 0 \in Nat /\ 0 < PAGE
      BY <1>1, <2>1
    <3>2. QED
      BY <1>1, <2>1, <3>1, DivMod, Zenon
  <2>5. QED
    BY <2>3, <2>4, Zenon DEF z
<1>11. ((ENTRIES + e) * ENTRIES) % ENTRIES = 0 /\ ((ENTRIES + e) * ENTRIES + 1) % ENTRIES = 1
  <2>1. /\ ((ENTRIES + e) * ENTRIES + 0) % ENTRIES = 0
        /\ ((ENTRIES + e) * ENTRIES + 1) % ENTRIES = 1
    <3> DEFINE d == ENTRIES + e
    <3>1. d \in Nat /\ ENTRIES \in Nat \ {0} /\ 0 < ENTRIES /\ 1 < ENTRIES
      BY <1>1, <1>2
    <3> HIDE DEF d
    <3>2. (d * ENTRIES + 0) % ENTRIES = 0 /\ (d * ENTRIES + 1) % ENTRIES = 1
      BY <3>1, DivMod, Zenon
    <3>3. QED
      BY <3>2, Zenon DEF d
  <2>2. (ENTRIES + e) * ENTRIES \in Nat
    BY <1>1, <1>2
  <2>3. QED
    BY <2>1, <2>2
<1>12. GB + LARGE * e \in Nat /\ GB + LARGE * e + PAGE \in Nat
  BY <1>1, <1>3
<1>13. QED
  BY <1>5, <1>7, <1>8, <1>9, <1>10, <1>11, <1>12, Zenon DEF pdpt_idx, pd_idx, pt_idx, e

(* Where each call of kernel_main64 stands in the boot.                    *)
LEMMA BootOrder ==
  /\ THREADS \in Nat /\ Len(Boot) = THREADS + 10
  /\ Boot[1] = "paging_init_kernel_map" /\ Boot[2] = "acpi" /\ Boot[3] = "lapic_enable"
  /\ Boot[4] = "ioapic_write" /\ Boot[5] = "apic_timer_init" /\ Boot[6] = "memmap_parse"
  /\ Boot[7] = "memmap_activate"
  /\ \A k \in 8 .. THREADS + 8 : Boot[k] = "create_address_space"
  /\ Boot[THREADS + 9] = "create_user_process" /\ Boot[THREADS + 10] = "smp_start_aps"
<1> DEFINE N == {"paging_init_kernel_map", "acpi", "lapic_enable", "ioapic_write", "apic_timer_init",
                "memmap_parse", "memmap_activate", "create_address_space", "create_user_process",
                "smp_start_aps"}
           P == <<"paging_init_kernel_map", "acpi">>
           U == <<"create_user_process", "smp_start_aps">>
<1>1. THREADS \in Nat /\ Threads \in Seq(N) /\ Len(Threads) = THREADS + 1
  <2> DEFINE n == THREADS + 1
  <2>1. THREADS \in Nat /\ n \in Nat
    BY PagingAssumption
  <2> HIDE DEF n
  <2>2. Threads = [k \in 1 .. n |-> "create_address_space"]
    BY Zenon DEF Threads, n
  <2>3. Threads \in Seq(N) /\ Len(Threads) = n
    BY <2>1, <2>2
  <2>4. QED
    BY <2>1, <2>3, Zenon DEF n
<1>2. P \in Seq(N) /\ Devices \in Seq(N) /\ Memory \in Seq(N) /\ U \in Seq(N)
  BY DEF Devices, Memory
<1>3. /\ Len(P) = 2 /\ Len(Devices) = 3 /\ Len(Memory) = 2 /\ Len(U) = 2
      /\ P[1] = "paging_init_kernel_map" /\ P[2] = "acpi"
      /\ Devices[1] = "lapic_enable" /\ Devices[2] = "ioapic_write"
      /\ Devices[3] = "apic_timer_init"
      /\ Memory[1] = "memmap_parse" /\ Memory[2] = "memmap_activate"
      /\ U[1] = "create_user_process" /\ U[2] = "smp_start_aps"
  BY Zenon DEF Devices, Memory
<1>4. \A k \in 1 .. THREADS + 1 : Threads[k] = "create_address_space"
  BY Zenon DEF Threads
<1>5. Boot = ((P \o Devices) \o Memory) \o Threads \o U
  BY Zenon DEF Boot
<1> HIDE DEF N, P, U
<1>6. \A s, t \in Seq(N) :
        /\ s \o t \in Seq(N) /\ Len(s \o t) = Len(s) + Len(t) /\ Len(s) \in Nat
        /\ \A k \in 1 .. Len(s) : (s \o t)[k] = s[k]
        /\ \A k \in 1 .. Len(t) : (s \o t)[Len(s) + k] = t[k]
  OBVIOUS
<1> DEFINE Joined(c, s, t) == /\ c \in Seq(N) /\ Len(c) = Len(s) + Len(t)
                              /\ \A k \in 1 .. Len(s) : c[k] = s[k]
                              /\ \A k \in 1 .. Len(t) : c[Len(s) + k] = t[k]
           A == P \o Devices
           B == A \o Memory
           C == B \o Threads
<1>7. Joined(A, P, Devices) /\ Joined(B, A, Memory) /\ Joined(C, B, Threads) /\ Joined(Boot, C, U)
  <2>1. Joined(A, P, Devices)
    BY <1>2, <1>6, Zenon
  <2> HIDE DEF A
  <2>2. Joined(B, A, Memory)
    BY <1>2, <1>6, <2>1, Zenon
  <2> HIDE DEF B
  <2>3. Joined(C, B, Threads)
    BY <1>1, <1>6, <2>2, Zenon
  <2>4. Boot = C \o U
    BY <1>5, Zenon DEF A, B
  <2> HIDE DEF C
  <2>5. Joined(C \o U, C, U)
    BY <1>2, <1>6, <2>3, Zenon
  <2> HIDE DEF Joined
  <2>6. Joined(Boot, C, U)
    BY <2>4, <2>5, Zenon
  <2>7. QED
    BY <2>1, <2>2, <2>3, <2>6, Zenon
<1> HIDE DEF A, B, C
<1>8. /\ Len(A) = 5 /\ A[1] = P[1] /\ A[2] = P[2]
      /\ A[3] = Devices[1] /\ A[4] = Devices[2] /\ A[5] = Devices[3]
  <2>1. /\ A[Len(P) + 1] = Devices[1] /\ A[Len(P) + 2] = Devices[2]
        /\ A[Len(P) + 3] = Devices[3]
    BY <1>3, <1>7
  <2>2. QED
    BY <1>3, <1>7, <2>1
<1>9. Len(B) = 7 /\ (\A k \in 1 .. 5 : B[k] = A[k]) /\ B[6] = Memory[1] /\ B[7] = Memory[2]
  <2>1. B[Len(A) + 1] = Memory[1] /\ B[Len(A) + 2] = Memory[2]
    BY <1>3, <1>7, <1>8
  <2>2. QED
    BY <1>3, <1>7, <1>8, <2>1
<1>10. /\ Len(C) = THREADS + 8 /\ \A k \in 1 .. 7 : C[k] = B[k]
       /\ \A k \in 1 .. THREADS + 1 : C[7 + k] = Threads[k]
  <2>1. /\ Len(C) = Len(B) + Len(Threads) /\ \A k \in 1 .. Len(B) : C[k] = B[k]
        /\ \A k \in 1 .. Len(Threads) : C[Len(B) + k] = Threads[k]
    BY <1>7, Zenon
  <2>2. QED
    BY <1>1, <1>9, <2>1
<1>11. /\ Len(Boot) = THREADS + 10 /\ \A k \in 1 .. THREADS + 8 : Boot[k] = C[k]
       /\ Boot[THREADS + 9] = U[1] /\ Boot[THREADS + 10] = U[2]
  <2>1. Boot[Len(C) + 1] = U[1] /\ Boot[Len(C) + 2] = U[2]
    BY <1>1, <1>3, <1>7, <1>10
  <2>2. QED
    BY <1>1, <1>3, <1>7, <1>10, <2>1
<1>12. ASSUME NEW k \in 8 .. THREADS + 8 PROVE Boot[k] = "create_address_space"
  <2>1. k - 7 \in 1 .. THREADS + 1 /\ k = 7 + (k - 7) /\ k \in 1 .. THREADS + 8
    BY <1>1
  <2>2. QED
    BY <1>4, <1>10, <1>11, <2>1, Zenon
<1>13. \A k \in 1 .. 7 : Boot[k] = B[k]
  BY <1>1, <1>10, <1>11
<1>14. QED
  BY <1>1, <1>3, <1>8, <1>9, <1>11, <1>12, <1>13 DEF P, U

(* A call runs only at its place.                                          *)
LEMMA CallAt ==
  ASSUME pc \in 1 .. Len(Boot) + 1
  PROVE  /\ Call("paging_init_kernel_map") => pc = 1
         /\ Call("acpi") => pc = 2
         /\ Call("lapic_enable") => pc = 3
         /\ Call("ioapic_write") => pc = 4
         /\ Call("apic_timer_init") => pc = 5
         /\ At("memmap_parse") => pc = 6
         /\ Call("memmap_activate") => pc = 7
         /\ Call("create_address_space") => pc \in 8 .. THREADS + 8
         /\ Call("create_user_process") => pc = THREADS + 9
         /\ Call("smp_start_aps") => pc = THREADS + 10
<1>1. ASSUME NEW name, At(name)
      PROVE  pc \in Nat /\ pc \in 1 .. THREADS + 10 /\ Boot[pc] = name
  BY <1>1, BootOrder DEF At, Booted
<1>2. ASSUME NEW name, Call(name) PROVE At(name)
  BY <1>2, Zenon DEF Call
<1>3. \A k \in 1 .. THREADS + 10 :
        k \in 1 .. 7 \/ k \in 8 .. THREADS + 8 \/ k = THREADS + 9 \/ k = THREADS + 10
  BY BootOrder
<1>4. QED
  BY <1>1, <1>2, <1>3, BootOrder
-----------------------------------------------------------------------------
(* Two tables put together.                                                *)
LEMMA Merge ==
  ASSUME NEW f, NEW g
  PROVE  /\ DOMAIN (f @@ g) = DOMAIN f \union DOMAIN g
         /\ \A x \in DOMAIN f : (f @@ g)[x] = f[x]
         /\ \A x \in DOMAIN g : x \notin DOMAIN f => (f @@ g)[x] = g[x]
BY Zenon DEF @@

(* The tables are a function.                                              *)
IsTable(f) == f = [x \in DOMAIN f |-> f[x]]

(* So is what putting two together gives.                                  *)
LEMMA MergeIs ==
  ASSUME NEW f, NEW g, NEW n, n = f @@ g
  PROVE  IsTable(n)
BY Zenon DEF @@, IsTable

(* A table with one entry.                                                 *)
LEMMA Single ==
  ASSUME NEW i, NEW e
  PROVE  DOMAIN (i :> e) = {i} /\ (i :> e)[i] = e
BY Zenon DEF :>

(* Memory p is m but for entry i of table t.                               *)
IsPut(p, m, t, i, e) ==
  /\ DOMAIN p = {t} \union DOMAIN m /\ p = [x \in DOMAIN p |-> p[x]]
  /\ DOMAIN p[t] = {i} \union DOMAIN m[t] /\ p[t] = [j \in DOMAIN p[t] |-> p[t][j]]
  /\ p[t][i] = e /\ \A j \in DOMAIN m[t] \ {i} : p[t][j] = m[t][j]
  /\ \A x \in DOMAIN m \ {t} : p[x] = m[x]

(* put does that.                                                          *)
LEMMA Put ==
  ASSUME NEW m, NEW t, NEW i, NEW e
  PROVE  IsPut(put(m, t, i, e), m, t, i, e)
<1> DEFINE g == (i :> e) @@ m[t]
<1>1. g = [j \in {i} \union DOMAIN m[t] |-> IF j = i THEN e ELSE m[t][j]]
  BY Zenon DEF :>, @@
<1> HIDE DEF g
<1>2. put(m, t, i, e) = [x \in {t} \union DOMAIN m |-> IF x = t THEN g ELSE m[x]]
  <2>1. put(m, t, i, e) = (t :> g) @@ m
    BY Zenon DEF put, g
  <2>2. QED
    BY <2>1, Zenon DEF :>, @@
<1>3. QED
  BY <1>1, <1>2, Zenon DEF IsPut

(* Setting an entry to what it is changes nothing.                         *)
LEMMA PutSame ==
  ASSUME NEW m, NEW t \in DOMAIN m, NEW i \in DOMAIN m[t], m = [x \in DOMAIN m |-> m[x]],
         m[t] = [j \in DOMAIN m[t] |-> m[t][j]]
  PROVE  put(m, t, i, m[t][i]) = m
<1> DEFINE g == (i :> m[t][i]) @@ m[t]
<1>1. g = [j \in {i} \union DOMAIN m[t] |-> IF j = i THEN m[t][i] ELSE m[t][j]]
  BY Zenon DEF :>, @@
<1>2. [j \in {i} \union DOMAIN m[t] |-> IF j = i THEN m[t][i] ELSE m[t][j]] =
      [j \in DOMAIN m[t] |-> m[t][j]]
  BY Zenon
<1>3. g = m[t]
  BY <1>1, <1>2, Zenon
<1> HIDE DEF g
<1>4. put(m, t, i, m[t][i]) = [x \in {t} \union DOMAIN m |-> IF x = t THEN g ELSE m[x]]
  <2>1. put(m, t, i, m[t][i]) = (t :> g) @@ m
    BY Zenon DEF put, g
  <2>2. QED
    BY <2>1, Zenon DEF :>, @@
<1>5. [x \in {t} \union DOMAIN m |-> IF x = t THEN g ELSE m[x]] = [x \in DOMAIN m |-> m[x]]
  BY <1>3, Zenon
<1>6. QED
  BY <1>4, <1>5, Zenon
-----------------------------------------------------------------------------
(* The kernel tables, entry by entry.                                      *)
LEMMA KernelFacts ==
  ASSUME NEW m, NEW k4, NEW k3, KernelTables(m, k4, k3)
  PROVE  /\ k4 \in DOMAIN m /\ k3 \in DOMAIN m /\ k4 # k3
         /\ DOMAIN m[k4] = {0} /\ m[k4][0] = link(k3, KERNEL)
         /\ m[k4][0].to = k3 /\ m[k4][0].flags = KERNEL
         /\ \A i \in DOMAIN m[k3] :
              LET t == m[k3][i].to IN
              /\ m[k3][i].flags = KERNEL /\ t \in DOMAIN m /\ t \notin {k4, k3}
              /\ t \in Tables(m, k3) /\ LargePages(m[t])
<1>1. m[k4] = (0 :> link(k3, KERNEL)) /\ k4 # k3 /\ k4 \in DOMAIN m /\ k3 \in DOMAIN m
  BY Zenon DEF KernelTables, KernelFrames
<1>2. DOMAIN m[k4] = {0} /\ m[k4][0] = link(k3, KERNEL)
  BY <1>1, Single, Zenon
<1>3. m[k4][0].to = k3 /\ m[k4][0].flags = KERNEL
  BY <1>2 DEF link
<1>4. ASSUME NEW i \in DOMAIN m[k3]
      PROVE  m[k3][i].flags = KERNEL /\ m[k3][i].to \in Tables(m, k3)
  <2>1. m[k3] = [j \in DOMAIN m[k3] |-> link(m[k3][j].to, KERNEL)]
    BY Zenon DEF KernelTables
  <2>2. m[k3][i] = link(m[k3][i].to, KERNEL)
    BY <2>1, Zenon
  <2>3. link(m[k3][i].to, KERNEL).flags = KERNEL
    BY Zenon DEF link
  <2>4. QED
    BY <2>2, <2>3, Zenon DEF Tables
<1>5. \A t \in Tables(m, k3) : t \in DOMAIN m /\ t \notin {k4, k3} /\ LargePages(m[t])
  BY Zenon DEF KernelTables, KernelFrames
<1>6. QED
  BY <1>1, <1>2, <1>3, <1>4, <1>5, Zenon

(* Tables that agree on the kernel PDPT and on the tables of an address    *)
(* space hold that space.                                                  *)
LEMMA SpaceSame ==
  ASSUME NEW m, NEW n, NEW k3, NEW s, NEW q, Space(m, k3, s, q), n[k3] = m[k3],
         \A x \in SpaceTables(s, q) : n[x] = m[x]
  PROVE  Space(n, k3, s, q)
<1>1. CASE s.ring3
  <2>1. n[q[1]] = m[q[1]] /\ n[q[2]] = m[q[2]] /\ n[q[5]] = m[q[5]] /\ n[q[6]] = m[q[6]]
    BY <1>1, Zenon DEF SpaceTables
  <2>2. UserSpace(m, k3, q) /\ s.cr3 = q[1]
    BY <1>1, Zenon DEF Space
  <2>3. UserSpace(n, k3, q)
    BY <2>1, <2>2, Zenon DEF UserSpace
  <2>4. QED
    BY <1>1, <2>2, <2>3, Zenon DEF Space
<1>2. CASE ~s.ring3
  <2>1. n[q[1]] = m[q[1]] /\ n[q[2]] = m[q[2]] /\ n[q[3]] = m[q[3]] /\ n[q[4]] = m[q[4]]
    BY <1>2, Zenon DEF SpaceTables
  <2>2. ThreadSpace(m, k3, q) /\ s.cr3 = q[1]
    BY <1>2, Zenon DEF Space
  <2>3. ThreadSpace(n, k3, q)
    BY <2>1, <2>2, Zenon DEF ThreadSpace
  <2>4. QED
    BY <1>2, <2>2, <2>3, Zenon DEF Space
<1>3. QED
  BY <1>1, <1>2, Zenon

(* So a layout has the frames that own_frames says.                        *)
LEMMA OwnIsFrames ==
  ASSUME NEW m, NEW k4, NEW k3, NEW S, NEW own, Layout(m, k4, k3, S, own)
  PROVE  own = [s \in S |-> Frames(m, s)]
(* The frames of an address space are found by walking its tables.         *)
<1>FramesAre.
  ASSUME NEW m1, NEW k31, NEW s, NEW q \in Seq(Nat), Space(m1, k31, s, q)
  PROVE  Frames(m1, s) = q
  <2> USE <1>FramesAre
  <2>1. \A f, flags : link(f, flags).to = f
    BY Zenon DEF link
  <2>2. s.cr3 = q[1]
    BY Zenon DEF Space
  <2>3. CASE s.ring3
    <3>1. UserSpace(m1, k31, q)
      BY <2>3, Zenon DEF Space
    <3>2. Len(q) = 6
      BY <3>1, Zenon DEF UserSpace
    <3>3. /\ m1[q[1]][0].to = q[2] /\ m1[q[2]][1].to = q[5]
          /\ m1[q[5]][pd_idx(USER_CODE_VA)].to = q[6] /\ m1[q[6]][0].to = q[3]
      <4>1. m1[q[1]][0] = link(q[2], USER)
        BY <3>1, Zenon DEF UserSpace, :>, @@
      <4>2. m1[q[2]][1] = link(q[5], USER)
        BY <3>1, Zenon DEF UserSpace, :>, @@
      <4>3. m1[q[5]][pd_idx(USER_CODE_VA)] = link(q[6], USER)
        BY <3>1, Zenon DEF UserSpace, :>, @@
      <4>4. m1[q[6]][0] = link(q[3], USER)
        BY <3>1, Zenon DEF UserSpace, :>, @@
      <4>5. QED
        BY <2>1, <4>1, <4>2, <4>3, <4>4, ZenonT(30)
    <3>4. m1[q[6]][1].to = q[4]
      <4>1. m1[q[6]] = (0 :> link(q[3], USER)) @@ (1 :> link(q[4], USER))
        BY <3>1, Zenon DEF UserSpace
      <4>2. m1[q[6]][1] = link(q[4], USER)
        BY <4>1, Zenon DEF :>, @@
      <4>3. QED
        BY <2>1, <4>2, Zenon
    <3>5. <<q[1], q[2], q[3], q[4], q[5], q[6]>> = q
      BY <3>2
    <3>6. Frames(m1, s) = <<q[1], q[2], q[3], q[4], q[5], q[6]>>
      BY <2>2, <2>3, <3>3, <3>4, Zenon DEF Frames
    <3>7. QED
      BY <3>5, <3>6, Zenon
  <2>4. CASE ~s.ring3
    <3>1. ThreadSpace(m1, k31, q)
      BY <2>4, Zenon DEF Space
    <3>2. Len(q) = 5
      BY <3>1, Zenon DEF ThreadSpace
    <3>3. /\ m1[q[1]][0].to = q[2] /\ m1[q[2]][1].to = q[3]
          /\ m1[q[3]][0].to = q[4] /\ m1[q[4]][0].to = q[5]
      <4>1. m1[q[1]][0] = link(q[2], KERNEL)
        BY <3>1, Zenon DEF ThreadSpace, :>, @@
      <4>2. m1[q[2]][1] = link(q[3], KERNEL)
        BY <3>1, Zenon DEF ThreadSpace, :>, @@
      <4>3. m1[q[3]][0] = link(q[4], KERNEL) /\ m1[q[4]][0] = link(q[5], KERNEL)
        BY <3>1, Zenon DEF ThreadSpace, :>, @@
      <4>4. QED
        BY <2>1, <4>1, <4>2, <4>3, ZenonT(30)
    <3>4. <<q[1], q[2], q[3], q[4], q[5]>> = q
      BY <3>2
    <3>5. Frames(m1, s) = <<q[1], q[2], q[3], q[4], q[5]>>
      BY <2>2, <2>4, <3>3, Zenon DEF Frames
    <3>6. QED
      BY <3>4, <3>5, Zenon
  <2>5. QED
    BY <2>3, <2>4, Zenon
<1>1. own \in [S -> Seq(Nat)] /\ \A s \in S : own[s] \in Seq(Nat) /\ Space(m, k3, s, own[s])
  BY Zenon DEF Layout
<1>2. \A s \in S : Frames(m, s) = own[s]
  BY <1>1, <1>FramesAre, Zenon
<1>3. QED
  BY <1>1, <1>2, Zenon

(* A new address space, made of fresh frames, joins a layout.              *)
Joins(m, k3, n, s, q) ==
  /\ q \in Seq(Nat) /\ IsInjective(q) /\ SpaceTables(s, q) \subseteq Range(q)
  /\ n = [x \in DOMAIN n |-> n[x]] /\ DOMAIN n = DOMAIN m \union SpaceTables(s, q)
  /\ \A x \in DOMAIN m : n[x] = m[x]
  /\ Space(n, k3, s, q) /\ q[1] \in Range(q)

with(S, own, s, q) == [u \in S \union {s} |-> IF u = s THEN q ELSE own[u]]

(* What a layout says of the spaces, one by one.                           *)
LEMMA LayoutSpaces ==
  ASSUME NEW m, NEW k4, NEW k3, NEW S, NEW own, Layout(m, k4, k3, S, own), NEW s \in S
  PROVE  /\ own[s] \in Seq(Nat) /\ Space(m, k3, s, own[s]) /\ IsInjective(own[s])
         /\ Range(own[s]) \cap KernelFrames(m, k4, k3) = {}
         /\ SpaceTables(s, own[s]) \subseteq Range(own[s]) /\ s.cr3 \in Range(own[s])
         /\ s.cr3 = own[s][1] /\ SpaceTables(s, own[s]) \subseteq DOMAIN m
<1> DEFINE q == own[s]
<1>1. /\ q \in Seq(Nat) /\ Space(m, k3, s, q) /\ IsInjective(q)
      /\ Range(q) \cap KernelFrames(m, k4, k3) = {}
      /\ SpaceTables(s, q) \subseteq DOMAIN m
  BY Zenon DEF Layout
<1> HIDE DEF q
<1>2. s.cr3 = q[1] /\ IF s.ring3 THEN Len(q) = 6 ELSE Len(q) = 5
  BY <1>1, Zenon DEF Space, UserSpace, ThreadSpace
<1>3. SpaceTables(s, q) \subseteq Range(q) /\ q[1] \in Range(q)
  BY <1>1, <1>2 DEF SpaceTables, Range
<1>4. QED
  BY <1>1, <1>2, <1>3, Zenon DEF q

Rooted(s, q) == s.cr3 = q[1]
(* CR3 is the first frame of the address space.                            *)
LEMMA SpaceRoot ==
  ASSUME NEW m, NEW k4, NEW k3, NEW S, NEW own, Layout(m, k4, k3, S, own), NEW s \in S
  PROVE  Rooted(s, own[s])
<1>1. Space(m, k3, s, own[s])
  BY LayoutSpaces, Zenon
<1>2. QED
  BY <1>1, Zenon DEF Space, UserSpace, ThreadSpace, Rooted

(* The space that joins takes nothing from the others.                     *)
LEMMA JoinLayout ==
  ASSUME NEW m, NEW k4, NEW k3, NEW S, NEW own, Layout(m, k4, k3, S, own),
         NEW n, NEW s, NEW q, Joins(m, k3, n, s, q),
         Range(q) \cap InUse(m, k4, k3, S, own) = {}
  PROVE  /\ s \notin S /\ Layout(n, k4, k3, S \union {s}, with(S, own, s, q))
         /\ InUse(n, k4, k3, S \union {s}, with(S, own, s, q)) =
              InUse(m, k4, k3, S, own) \union Range(q)
(* Tables that agree on the kernel's frames are the kernel's tables.       *)
<1>KernelSame.
  ASSUME NEW m1, NEW k41, NEW k31, NEW n1, KernelTables(m1, k41, k31), DOMAIN m1 \subseteq DOMAIN n1,
         \A x \in KernelFrames(m1, k41, k31) : n1[x] = m1[x]
  PROVE  KernelTables(n1, k41, k31) /\ KernelFrames(n1, k41, k31) = KernelFrames(m1, k41, k31)
  <2> USE <1>KernelSame
  <2>1. n1[k41] = m1[k41] /\ n1[k31] = m1[k31]
    BY Zenon DEF KernelFrames
  <2>2. Tables(n1, k31) = Tables(m1, k31)
    BY <2>1, Zenon DEF Tables
  <2>3. KernelFrames(n1, k41, k31) = KernelFrames(m1, k41, k31)
    BY <2>2, Zenon DEF KernelFrames
  <2>4. \A t \in Tables(m1, k31) : n1[t] = m1[t]
    BY Zenon DEF KernelFrames
  <2>5. KernelFrames(m1, k41, k31) \subseteq DOMAIN n1
    BY Zenon DEF KernelTables
  <2>6. \A t \in Tables(n1, k31) : t \notin {k41, k31} /\ LargePages(n1[t])
    BY <2>2, <2>4, Zenon DEF KernelTables
  <2>7. /\ k41 # k31 /\ m1[k41] = (0 :> link(k31, KERNEL))
        /\ 0 \in DOMAIN m1[k31] /\ DOMAIN m1[k31] \subseteq (0 .. ENTRIES - 1) \ {1}
        /\ m1[k31] = [i \in DOMAIN m1[k31] |-> link(m1[k31][i].to, KERNEL)]
        /\ \A i, j \in DOMAIN m1[k31] : m1[k31][i].to = m1[k31][j].to => i = j
    BY Zenon DEF KernelTables
  <2>8. /\ n1[k41] = (0 :> link(k31, KERNEL))
        /\ 0 \in DOMAIN n1[k31] /\ DOMAIN n1[k31] \subseteq (0 .. ENTRIES - 1) \ {1}
        /\ n1[k31] = [i \in DOMAIN n1[k31] |-> link(n1[k31][i].to, KERNEL)]
        /\ \A i, j \in DOMAIN n1[k31] : n1[k31][i].to = n1[k31][j].to => i = j
    BY <2>1, <2>7
  <2>9. KernelTables(n1, k41, k31)
    BY <2>3, <2>5, <2>6, <2>7, <2>8, Zenon DEF KernelTables
  <2>10. QED
    BY <2>3, <2>9, Zenon
<1> DEFINE K == KernelFrames(m, k4, k3)
           T == S \union {s}
           own2 == with(S, own, s, q)
<1>1. /\ q \in Seq(Nat) /\ IsInjective(q) /\ SpaceTables(s, q) \subseteq Range(q)
      /\ n = [x \in DOMAIN n |-> n[x]] /\ DOMAIN n = DOMAIN m \union SpaceTables(s, q)
      /\ \A x \in DOMAIN m : n[x] = m[x]
      /\ Space(n, k3, s, q) /\ q[1] \in Range(q) /\ s.cr3 = q[1]
  BY Zenon DEF Joins, Space
<1>2. /\ KernelTables(m, k4, k3) /\ own \in [S -> Seq(Nat)] /\ K \subseteq DOMAIN m
      /\ \A u, v \in S : u # v => Range(own[u]) \cap Range(own[v]) = {}
      /\ DOMAIN m = K \union UNION {SpaceTables(u, own[u]) : u \in S}
      /\ k3 \in K
  BY Zenon DEF Layout, KernelTables, KernelFrames
<1>3. KernelTables(n, k4, k3) /\ KernelFrames(n, k4, k3) = K
  <2>1. DOMAIN m \subseteq DOMAIN n /\ \A x \in K : n[x] = m[x]
    BY <1>1, <1>2, Zenon
  <2>2. QED
    BY <1>2, <2>1, <1>KernelSame, Zenon
<1>4. /\ Range(q) \cap K = {}
      /\ \A u \in S : Range(q) \cap Range(own[u]) = {}
  BY Zenon DEF InUse
<1>5. \A u \in S : /\ own[u] \in Seq(Nat) /\ Space(m, k3, u, own[u]) /\ IsInjective(own[u])
                   /\ Range(own[u]) \cap K = {} /\ SpaceTables(u, own[u]) \subseteq DOMAIN m
                   /\ u.cr3 \in Range(own[u])
  BY LayoutSpaces, Zenon
<1>6. s \notin S
  BY <1>1, <1>4, <1>5, Zenon
<1>7. own2 = [u \in T |-> IF u = s THEN q ELSE own[u]]
  BY Zenon DEF with
<1>8. own2 \in [T -> Seq(Nat)] /\ own2[s] = q /\ \A u \in S : own2[u] = own[u]
  BY <1>1, <1>5, <1>6, <1>7, Zenon
<1> HIDE DEF own2
<1>9. \A u \in S : Space(n, k3, u, own[u])
  <2>1. n[k3] = m[k3]
    BY <1>1, <1>2, Zenon
  <2>2. QED
    BY <1>1, <1>5, <2>1, SpaceSame
<1>10. \A u \in T : Space(n, k3, u, own2[u]) /\ IsInjective(own2[u]) /\ Range(own2[u]) \cap K = {}
  BY <1>1, <1>4, <1>5, <1>8, <1>9, Zenon
<1>11. \A u, v \in T : u # v => Range(own2[u]) \cap Range(own2[v]) = {}
  BY <1>2, <1>4, <1>8, Zenon
<1>12. DOMAIN n = K \union UNION {SpaceTables(u, own2[u]) : u \in T}
  <2>1. \A u \in S : SpaceTables(u, own2[u]) = SpaceTables(u, own[u])
    BY <1>8, Zenon
  <2>2. SpaceTables(s, own2[s]) = SpaceTables(s, q)
    BY <1>8, Zenon
  <2> DEFINE X == UNION {SpaceTables(u, own[u]) : u \in S}
             Y == UNION {SpaceTables(u, own2[u]) : u \in T}
  <2>3. ASSUME NEW x PROVE x \in Y <=> x \in X \/ x \in SpaceTables(s, q)
    <3>1. x \in Y <=> \E u \in T : x \in SpaceTables(u, own2[u])
      BY Zenon
    <3>2. x \in X <=> \E u \in S : x \in SpaceTables(u, own[u])
      BY Zenon
    <3>3. QED
      BY <2>1, <2>2, <3>1, <3>2, Zenon
  <2>4. DOMAIN n = (K \union X) \union SpaceTables(s, q)
    BY <1>1, <1>2, Zenon
  <2> HIDE DEF X, Y
  <2>5. DOMAIN n = K \union Y
    BY <2>3, <2>4, Zenon
  <2>6. QED
    BY <2>5, Zenon DEF Y
<1>13. Layout(n, k4, k3, T, own2)
  BY <1>1, <1>3, <1>8, <1>10, <1>11, <1>12, Zenon DEF Layout
<1>14. InUse(n, k4, k3, T, own2) = InUse(m, k4, k3, S, own) \union Range(q)
  <2> DEFINE X == UNION {Range(own[u]) : u \in S}
             Y == UNION {Range(own2[u]) : u \in T}
  <2>1. ASSUME NEW x PROVE x \in Y <=> x \in X \/ x \in Range(q)
    <3>1. x \in Y <=> \E u \in T : x \in Range(own2[u])
      BY Zenon
    <3>2. x \in X <=> \E u \in S : x \in Range(own[u])
      BY Zenon
    <3>3. Range(own2[s]) = Range(q) /\ \A u \in S : Range(own2[u]) = Range(own[u])
      BY <1>8, Zenon
    <3>4. QED
      BY <3>1, <3>2, <3>3, Zenon
  <2>2. InUse(n, k4, k3, T, own2) = K \union Y /\ InUse(m, k4, k3, S, own) = K \union X
    BY <1>3, Zenon DEF InUse
  <2> HIDE DEF X, Y
  <2>3. QED
    BY <2>1, <2>2, Zenon
<1>15. QED
  BY <1>6, <1>13, <1>14, Zenon DEF own2

FirstTables(m, a, b, c) ==
  /\ Layout(m, a, b, {}, [s \in {} |-> << >>]) /\ KernelFrames(m, a, b) = {a, b, c}
  /\ DOMAIN m[b] = {0} /\ m[b][0].to = c
  /\ m[c] = [i \in 0 .. ENTRIES - 1 |-> link(i * LARGE, KERNEL \union {"PS"})]

(* The first layout: paging_init_kernel_map.                               *)
LEMMA InitLayout ==
  ASSUME NEW a \in Nat, NEW b \in Nat, NEW c \in Nat, a # b, b # c, a # c
  PROVE  FirstTables(init_map(a, b, c), a, b, c)
<1> DEFINE m == init_map(a, b, c)
           e(i) == link(i * LARGE, KERNEL \union {"PS"})
<1>1. /\ DOMAIN m = {a, b, c} /\ m[a] = (0 :> link(b, KERNEL)) /\ m[b] = (0 :> link(c, KERNEL))
      /\ m[c] = [i \in 0 .. ENTRIES - 1 |-> link(i * LARGE, KERNEL \union {"PS"})]
      /\ m = [t \in DOMAIN m |-> m[t]]
  BY Zenon DEF init_map
<1> HIDE DEF m
<1>2. DOMAIN m[b] = {0} /\ m[b][0] = link(c, KERNEL)
  BY <1>1, Zenon DEF :>
<1>3. m[b][0].to = c
  BY <1>2 DEF link
<1>4. Tables(m, b) = {c} /\ KernelFrames(m, a, b) = {a, b, c}
  BY <1>2, <1>3, Zenon DEF Tables, KernelFrames
<1>5. LargePages(m[c])
  <2>1. DOMAIN m[c] = 0 .. ENTRIES - 1 /\ m[c] = [j \in DOMAIN m[c] |-> m[c][j]]
    BY <1>1, Zenon
  <2>2. ASSUME NEW j \in DOMAIN m[c]
        PROVE  m[c][j].to \in Nat /\ "PS" \in m[c][j].flags /\ "U" \notin m[c][j].flags
    <3>1. j \in Nat /\ j * LARGE \in Nat
      BY <2>1, Sizes
    <3>2. m[c][j] = link(j * LARGE, KERNEL \union {"PS"})
      BY <1>1, <2>1, Zenon
    <3>3. m[c][j].to = j * LARGE /\ m[c][j].flags = {"W", "PS"}
      BY <3>2 DEF link, KERNEL
    <3>4. QED
      BY <3>1, <3>3, Zenon
  <2>3. QED
    BY <2>1, <2>2, Zenon DEF LargePages
<1>6. m[b] = [i \in DOMAIN m[b] |-> link(m[b][i].to, KERNEL)]
  BY <1>1, <1>2, <1>3, Zenon DEF :>
<1>7. 0 \in DOMAIN m[b] /\ DOMAIN m[b] \subseteq (0 .. ENTRIES - 1) \ {1}
  BY <1>2, Sizes
<1>8. KernelTables(m, a, b)
  <2>1. KernelFrames(m, a, b) \subseteq DOMAIN m
    BY <1>1, <1>4, Zenon
  <2>2. \A i, j \in DOMAIN m[b] : m[b][i].to = m[b][j].to => i = j
    BY <1>2, Zenon
  <2>3. \A t \in Tables(m, b) : t \notin {a, b} /\ LargePages(m[t])
    BY <1>4, <1>5, Zenon
  <2>4. QED
    BY <1>1, <1>6, <1>7, <2>1, <2>2, <2>3, Zenon DEF KernelTables
<1>9. Layout(m, a, b, {}, [s \in {} |-> << >>])
  <2>1. DOMAIN m = KernelFrames(m, a, b) \union UNION {SpaceTables(s, [u \in {} |-> << >>][s]) : s \in {}}
    BY <1>1, <1>4, Zenon
  <2>2. QED
    BY <1>1, <1>8, <2>1, Zenon DEF Layout
<1>10. QED
  BY <1>1, <1>2, <1>3, <1>4, <1>9, Zenon DEF m, FirstTables

KeepsTables(m, n, k4, k3, S, own) ==
  /\ Layout(n, k4, k3, S, own) /\ KernelFrames(n, k4, k3) = KernelFrames(m, k4, k3)
  /\ n[k3] = m[k3]

AddsTable(m, n, k4, k3, own, i, f) ==
  /\ Layout(n, k4, k3, {}, own)
  /\ KernelFrames(n, k4, k3) = KernelFrames(m, k4, k3) \union {f}
  /\ i \in DOMAIN n[k3] /\ n[k3][i].to = f
  /\ \A x \in DOMAIN m[k3] : x \in DOMAIN n[k3] /\ n[k3][x] = m[k3][x]
  /\ \A x \in Tables(m, k3) : n[x] = m[x]

(* Table a is d with table t added at x.                                   *)
Adds(a, x, t, d) ==
  /\ DOMAIN a = DOMAIN d \union {x} /\ a[x] = t /\ \A y \in DOMAIN d : a[y] = d[y]

(* What a new table adds to the tables.                                    *)
LEMMA Adding ==
  ASSUME NEW d, NEW x, x \notin DOMAIN d, NEW t
  PROVE  Adds(d @@ (x :> t), x, t, d)
<1> DEFINE e == x :> t
<1>1. DOMAIN e = {x} /\ e[x] = t
  BY Single, Zenon
<1> HIDE DEF e
<1>2. DOMAIN (d @@ e) = DOMAIN d \union {x}
  BY <1>1, Merge, Zenon
<1>3. (d @@ e)[x] = t
  <2>1. x \in DOMAIN e
    BY <1>1, Zenon
  <2>2. (d @@ e)[x] = e[x]
    <3>1. \A y \in DOMAIN e : y \notin DOMAIN d => (d @@ e)[y] = e[y]
      BY Merge, Zenon
    <3>2. QED
      BY <2>1, <3>1, Zenon
  <2>3. QED
    BY <1>1, <2>2, Zenon
<1>4. \A y \in DOMAIN d : (d @@ e)[y] = d[y]
  BY Merge, Zenon
<1>5. Adds(d @@ e, x, t, d)
  BY <1>2, <1>3, <1>4, Zenon DEF Adds
<1>6. QED
  BY <1>5, Zenon DEF e

(* Four new tables over the old ones.                                      *)
FourOver(n, m, a, t1, b, t2, c, t3, d, t4) ==
  /\ a # b /\ a # c /\ a # d /\ b # c /\ b # d /\ c # d /\ DOMAIN m \cap {a, b, c, d} = {}
  /\ n = (a :> t1) @@ (b :> t2) @@ (c :> t3) @@ (d :> t4) @@ m
HasFour(n, m, a, t1, b, t2, c, t3, d, t4) ==
  /\ DOMAIN n = DOMAIN m \union {a, b, c, d} /\ \A x \in DOMAIN m : n[x] = m[x]
  /\ n[a] = t1 /\ n[b] = t2 /\ n[c] = t3 /\ n[d] = t4

(* sched64_create_thread adds the address space of a thread.               *)
LEMMA ThreadJoins ==
  ASSUME NEW m, NEW k4, NEW k3, NEW S, NEW own, Layout(m, k4, k3, S, own),
         NEW q \in Seq(Nat), Len(q) = 5, IsInjective(q),
         Range(q) \cap InUse(m, k4, k3, S, own) = {},
         NEW n, n = (q[1] :> (0 :> link(q[2], KERNEL)))
                 @@ (q[2] :> ((1 :> link(q[3], KERNEL)) @@ m[k3]))
                 @@ (q[3] :> (0 :> link(q[4], KERNEL)))
                 @@ (q[4] :> (0 :> link(q[5], KERNEL)))
                 @@ m
  PROVE  Joins(m, k3, n, [cr3 |-> q[1], ring3 |-> FALSE], q)
(* What they leave.                                                        *)
<1>FourTables.
  ASSUME NEW n1, NEW m1, NEW a, NEW t1, NEW b, NEW t2, NEW c, NEW t3, NEW d, NEW t4,
         FourOver(n1, m1, a, t1, b, t2, c, t3, d, t4)
  PROVE  HasFour(n1, m1, a, t1, b, t2, c, t3, d, t4)
  <2> USE <1>FourTables
  <2> DEFINE a1 == a :> t1
             a2 == a1 @@ (b :> t2)
             a3 == a2 @@ (c :> t3)
             a4 == a3 @@ (d :> t4)
  <2> USE DEF FourOver
  <2>1. n1 = a4 @@ m1
    BY Zenon
  <2>2. DOMAIN a1 = {a} /\ a1[a] = t1
    BY Single, Zenon
  <2> HIDE DEF a1
  <2>3. Adds(a2, b, t2, a1)
    <3>1. b \notin DOMAIN a1
      BY <2>2, Zenon
    <3>2. QED
      BY <3>1, Adding, Zenon
  <2> HIDE DEF a2
  <2>4. DOMAIN a2 = {a, b} /\ a2[a] = t1 /\ a2[b] = t2
    BY <2>2, <2>3, Zenon DEF Adds
  <2>5. Adds(a3, c, t3, a2)
    <3>1. c \notin DOMAIN a2
      BY <2>4, Zenon
    <3>2. QED
      BY <3>1, Adding, Zenon
  <2> HIDE DEF a3
  <2>6. DOMAIN a3 = {a, b, c} /\ a3[a] = t1 /\ a3[b] = t2 /\ a3[c] = t3
    BY <2>4, <2>5, Zenon DEF Adds
  <2>7. Adds(a4, d, t4, a3)
    <3>1. d \notin DOMAIN a3
      BY <2>6, Zenon
    <3>2. QED
      BY <3>1, Adding, Zenon
  <2> HIDE DEF a4
  <2>8. DOMAIN a4 = {a, b, c, d} /\ a4[a] = t1 /\ a4[b] = t2 /\ a4[c] = t3 /\ a4[d] = t4
    BY <2>6, <2>7, Zenon DEF Adds
  <2>10. /\ DOMAIN n1 = DOMAIN a4 \union DOMAIN m1 /\ \A x \in DOMAIN a4 : n1[x] = a4[x]
         /\ \A x \in DOMAIN m1 : x \notin DOMAIN a4 => n1[x] = m1[x]
    <3> DEFINE k == a4 @@ m1
    <3>1. /\ DOMAIN k = DOMAIN a4 \union DOMAIN m1 /\ \A x \in DOMAIN a4 : k[x] = a4[x]
          /\ \A x \in DOMAIN m1 : x \notin DOMAIN a4 => k[x] = m1[x]
      BY Merge, Zenon
    <3>2. n1 = k
      BY <2>1, Zenon
    <3> HIDE DEF k
    <3>3. QED
      BY <3>1, <3>2, Zenon
  <2>11. DOMAIN n1 = DOMAIN m1 \union {a, b, c, d}
    BY <2>8, <2>10, Zenon
  <2>12. \A x \in DOMAIN m1 : n1[x] = m1[x]
    BY <2>8, <2>10, Zenon
  <2>13. n1[a] = t1 /\ n1[b] = t2 /\ n1[c] = t3 /\ n1[d] = t4
    BY <2>8, <2>10, Zenon
  <2>14. QED
    BY <2>11, <2>12, <2>13, Zenon DEF HasFour
<1> DEFINE s == [cr3 |-> q[1], ring3 |-> FALSE]
           t1 == 0 :> link(q[2], KERNEL)
           t2 == (1 :> link(q[3], KERNEL)) @@ m[k3]
           t3 == 0 :> link(q[4], KERNEL)
           t4 == 0 :> link(q[5], KERNEL)
<1>1. /\ s.cr3 = q[1] /\ s.ring3 = FALSE /\ SpaceTables(s, q) = {q[1], q[2], q[3], q[4]}
  BY Zenon DEF SpaceTables
<1>2. DOMAIN q = 1 .. 5 /\ Range(q) = {q[1], q[2], q[3], q[4], q[5]}
  BY DEF Range
<1>3. /\ q[1] # q[2] /\ q[1] # q[3] /\ q[1] # q[4] /\ q[2] # q[3] /\ q[2] # q[4] /\ q[3] # q[4]
  BY <1>2 DEF IsInjective
<1>4. DOMAIN m \cap {q[1], q[2], q[3], q[4]} = {} /\ k3 \in DOMAIN m
  <2>1. DOMAIN m \subseteq InUse(m, k4, k3, S, own)
    <3>1. DOMAIN m = KernelFrames(m, k4, k3) \union UNION {SpaceTables(u, own[u]) : u \in S}
      BY Zenon DEF Layout
    <3>2. \A u \in S : SpaceTables(u, own[u]) \subseteq Range(own[u])
      BY LayoutSpaces, Zenon
    <3>3. QED
      BY <3>1, <3>2 DEF InUse
  <2>2. KernelTables(m, k4, k3)
    BY Zenon DEF Layout
  <2>3. k3 \in DOMAIN m
    BY <2>2, KernelFacts, Zenon
  <2>4. QED
    BY <1>2, <2>1, <2>3, Zenon
<1>5. n = (q[1] :> t1) @@ (q[2] :> t2) @@ (q[3] :> t3) @@ (q[4] :> t4) @@ m
  BY Zenon
<1> HIDE DEF t1, t2, t3, t4
<1>6. /\ DOMAIN n = DOMAIN m \union {q[1], q[2], q[3], q[4]}
      /\ n = [x \in DOMAIN n |-> n[x]] /\ \A x \in DOMAIN m : n[x] = m[x]
      /\ n[q[1]] = t1 /\ n[q[2]] = t2 /\ n[q[3]] = t3 /\ n[q[4]] = t4
  <2> DEFINE a == (q[1] :> t1) @@ (q[2] :> t2) @@ (q[3] :> t3) @@ (q[4] :> t4)
  <2>1. n = a @@ m
    BY <1>5, Zenon
  <2> HIDE DEF a
  <2>2. IsTable(n)
    BY <2>1, MergeIs, Zenon
  <2>3. /\ DOMAIN n = DOMAIN m \union {q[1], q[2], q[3], q[4]}
        /\ \A x \in DOMAIN m : n[x] = m[x]
        /\ n[q[1]] = t1 /\ n[q[2]] = t2 /\ n[q[3]] = t3 /\ n[q[4]] = t4
    <3>1. DOMAIN m \cap {q[1], q[2], q[3], q[4]} = {}
      BY <1>4, Zenon
    <3>2. FourOver(n, m, q[1], t1, q[2], t2, q[3], t3, q[4], t4)
      BY <1>3, <1>5, <3>1, Zenon DEF FourOver
    <3>3. HasFour(n, m, q[1], t1, q[2], t2, q[3], t3, q[4], t4)
      BY <3>2, <1>FourTables, Zenon
    <3>4. QED
      BY <3>3, Zenon DEF HasFour
  <2>4. QED
    BY <2>2, <2>3, Zenon DEF IsTable
<1>7. ThreadSpace(n, k3, q)
  <2>1. n[k3] = m[k3]
    BY <1>4, <1>6, Zenon
  <2>2. n[q[2]] = (1 :> link(q[3], KERNEL)) @@ n[k3]
    BY <1>6, <2>1, Zenon DEF t2
  <2>3. QED
    BY <1>6, <2>2, Zenon DEF ThreadSpace, t1, t3, t4
<1> HIDE DEF s
<1>8. Space(n, k3, s, q)
  BY <1>1, <1>7, Zenon DEF Space
<1>9. q[1] \in Range(q) /\ SpaceTables(s, q) \subseteq Range(q)
  BY <1>1, <1>2, Zenon
<1>10. DOMAIN n = DOMAIN m \union SpaceTables(s, q)
  BY <1>1, <1>6, Zenon
<1>11. Joins(m, k3, n, s, q)
  BY <1>6, <1>8, <1>9, <1>10, Zenon DEF Joins
<1>12. QED
  BY <1>11, Zenon DEF s

(* Memory n is m with table v at t.                                        *)
Sets(n, m, t, v) ==
  DOMAIN n = DOMAIN m \union {t} /\ n[t] = v /\ \A y \in DOMAIN m : y # t => n[y] = m[y]

(* A zeroed frame is an empty table.                                       *)
LEMMA ZeroSets ==
  ASSUME NEW m, NEW x
  PROVE  Sets(zeroed({x}) @@ m, m, x, << >>)
BY Zenon DEF zeroed, @@, Sets

(* The tables of a ring 3 process, as map_user_page builds them.           *)
UserMem(m, a, t1, b, g) == (a :> t1) @@ (b :> g) @@ m
NewLevel(m, x, t, i) == put(zeroed({x}) @@ m, t, i, link(x, USER))
TopIs(n, m, a, t1, b, g) ==
  /\ DOMAIN n = DOMAIN m \union {a, b} /\ n[a] = t1 /\ n[b] = g
  /\ \A y \in DOMAIN m : n[y] = m[y]
LevelIs(n, m, x, t, i) ==
  /\ DOMAIN n = DOMAIN m \union {x} /\ n[x] = << >> /\ n[t] = (i :> link(x, USER)) @@ m[t]
  /\ \A y \in DOMAIN m : y # t => n[y] = m[y]

(* The state of map_user_page.                                             *)
IsMap(s) == s = [mem |-> s.mem, left |-> s.left]
LevelOf(r, s, t, i) ==
  /\ IsMap(r) /\ (i \in DOMAIN s.mem[t] => r = s)
  /\ i \notin DOMAIN s.mem[t] =>
       r.mem = NewLevel(s.mem, Head(s.left), t, i) /\ r.left = Tail(s.left)

(* get_or_create_next_level uses the level that is there, or the next      *)
(* frame.                                                                  *)
LEMMA Level ==
  ASSUME NEW s, NEW t, NEW i, IsMap(s)
  PROVE  LevelOf(get_or_create_next_level(s, t, i), s, t, i)
<1> DEFINE p == NewLevel(s.mem, Head(s.left), t, i)
           w == Tail(s.left)
           r == get_or_create_next_level(s, t, i)
<1>1. r = IF i \in DOMAIN s.mem[t] THEN s ELSE [mem |-> p, left |-> w]
  BY Zenon DEF get_or_create_next_level, NewLevel
<1> HIDE DEF p, w, r
<1>2. i \notin DOMAIN s.mem[t] => r.mem = p /\ r.left = w /\ IsMap(r)
  BY <1>1, Zenon DEF IsMap
<1>3. i \in DOMAIN s.mem[t] => r = s /\ IsMap(r)
  BY <1>1, Zenon
<1>4. QED
  BY <1>2, <1>3, Zenon DEF p, w, r, LevelOf

(* map_user_page, level by level.                                          *)
Walks(s, va, pml4, pdpt, s2, pd, s3) ==
  /\ pdpt = s.mem[pml4][0].to /\ s2 = get_or_create_next_level(s, pdpt, pdpt_idx(va))
  /\ pd = s2.mem[pdpt][pdpt_idx(va)].to /\ s3 = get_or_create_next_level(s2, pd, pd_idx(va))
PageIn(r, s3, pd, va, f) ==
  IsMap(r) /\ r.mem = put(s3.mem, s3.mem[pd][pd_idx(va)].to, pt_idx(va), link(f, USER))

(* What create_user_process leaves in memory.                              *)
UserDone(m, q, g) ==
  LET s == [mem |-> (q[1] :> (0 :> link(q[2], PML4_FLAGS))) @@ (q[2] :> g) @@ m,
            left |-> SubSeq(q, 5, Len(q))]
      code == map_user_page(s, q[1], USER_CODE_VA, q[3])
  IN  map_user_page(code, q[1], USER_STACK_PAGE_VA, q[4]).mem

(* create_user_process adds the address space of a ring 3 process.         *)
LEMMA UserJoins ==
  ASSUME NEW m, NEW k4, NEW k3, NEW S, NEW own, Layout(m, k4, k3, S, own),
         NEW q \in Seq(Nat), Len(q) = 6, IsInjective(q),
         Range(q) \cap InUse(m, k4, k3, S, own) = {},
         NEW n, n = UserDone(m, q, m[k3])
  PROVE  Joins(m, k3, n, [cr3 |-> q[1], ring3 |-> TRUE], q)
(* The four tables of a ring 3 process.                                    *)
<1>UserTables.
  ASSUME NEW m3, NEW q1 \in Seq(Nat), Len(q1) = 6, IsInjective(q1),
         DOMAIN m3 \cap {q1[1], q1[2], q1[5], q1[6]} = {}, NEW g, 1 \notin DOMAIN g,
         NEW n2, n2 = UserDone(m3, q1, g)
  PROVE  /\ IsTable(n2)
         /\ HasFour(n2, m3, q1[1], 0 :> link(q1[2], USER), q1[2], (1 :> link(q1[5], USER)) @@ g,
                    q1[5], pd_idx(USER_CODE_VA) :> link(q1[6], USER),
                    q1[6], (0 :> link(q1[3], USER)) @@ (1 :> link(q1[4], USER)))
  <2> USE <1>UserTables
  (* put does that, and so does a zeroed frame.                              *)
  <2>PutSets.
    ASSUME NEW m1, NEW t, NEW i, NEW e
    PROVE  Sets(put(m1, t, i, e), m1, t, (i :> e) @@ m1[t])
    <3> DEFINE g1 == (i :> e) @@ m1[t]
    <3>1. put(m1, t, i, e) = (t :> g1) @@ m1
      BY Zenon DEF put
    <3> HIDE DEF g1
    <3>2. Sets((t :> g1) @@ m1, m1, t, g1)
      BY Zenon DEF :>, @@, Sets
    <3>3. QED
      BY <3>1, <3>2, Zenon DEF g1
  (* Its top: the PML4 and the copy of the kernel PDPT.                      *)
  <2>UserTop.
    ASSUME NEW m1, NEW a, NEW b, a # b, NEW t1, NEW g1, DOMAIN m1 \cap {a, b} = {}
    PROVE  TopIs(UserMem(m1, a, t1, b, g1), m1, a, t1, b, g1)
    <3> USE <2>UserTop
    <3> DEFINE k == (a :> t1) @@ (b :> g1)
               n1 == UserMem(m1, a, t1, b, g1)
    <3>1. n1 = k @@ m1
      BY Zenon DEF UserMem
    <3>2. DOMAIN k = {a, b} /\ k[a] = t1 /\ k[b] = g1
      BY Zenon DEF :>, @@
    <3> HIDE DEF k, n1
    <3>3. /\ DOMAIN n1 = DOMAIN m1 \union {a, b} /\ n1[a] = t1 /\ n1[b] = g1
          /\ \A y \in DOMAIN m1 : n1[y] = m1[y]
      BY <3>1, <3>2, Zenon DEF @@
    <3>4. QED
      BY <3>3, Zenon DEF n1, TopIs
  (* A new level.                                                            *)
  <2>LevelSets.
    ASSUME NEW m1, NEW x, NEW t \in DOMAIN m1, NEW i, x \notin DOMAIN m1
    PROVE  LevelIs(NewLevel(m1, x, t, i), m1, x, t, i)
    <3> USE <2>LevelSets
    <3> DEFINE z == zeroed({x}) @@ m1
               e == link(x, USER)
               n1 == NewLevel(m1, x, t, i)
    <3>1. Sets(z, m1, x, << >>)
      BY ZeroSets, Zenon
    <3>2. Sets(put(z, t, i, e), z, t, (i :> e) @@ z[t])
      BY <2>PutSets, Zenon
    <3>3. n1 = put(z, t, i, e)
      BY Zenon DEF NewLevel
    <3> HIDE DEF z, e, n1
    <3>4. z[t] = m1[t] /\ x # t
      BY <3>1, Zenon DEF Sets
    <3>5. Sets(n1, z, t, (i :> e) @@ m1[t])
      BY <3>2, <3>3, <3>4, Zenon
    <3>6. n1[t] = (i :> e) @@ m1[t]
      BY <3>5, Zenon DEF Sets
    <3>7. /\ DOMAIN n1 = DOMAIN m1 \union {x} /\ n1[x] = << >>
          /\ \A y \in DOMAIN m1 : y # t => n1[y] = m1[y]
      BY <3>1, <3>4, <3>5, Zenon DEF Sets
    <3>8. QED
      BY <3>6, <3>7, Zenon DEF e, n1, LevelIs
  (* It puts the page in the table it comes to.                              *)
  <2>UserPage.
    ASSUME NEW s, NEW pml4, NEW va, NEW f, IsMap(s), NEW pdpt, NEW s2, NEW pd, NEW s3,
           Walks(s, va, pml4, pdpt, s2, pd, s3)
    PROVE  PageIn(map_user_page(s, pml4, va, f), s3, pd, va, f)
    <3> USE <2>UserPage
    <3> DEFINE r == map_user_page(s, pml4, va, f)
               pt == s3.mem[pd][pd_idx(va)].to
    <3>1. IsMap(s2)
      <4>1. s2 = get_or_create_next_level(s, pdpt, pdpt_idx(va))
        BY Zenon DEF Walks
      <4>2. LevelOf(get_or_create_next_level(s, pdpt, pdpt_idx(va)), s, pdpt, pdpt_idx(va))
        BY Level, Zenon
      <4>3. QED
        BY <4>1, <4>2, Zenon DEF LevelOf
    <3>2. IsMap(s3)
      <4>1. s3 = get_or_create_next_level(s2, pd, pd_idx(va))
        BY Zenon DEF Walks
      <4>2. LevelOf(get_or_create_next_level(s2, pd, pd_idx(va)), s2, pd, pd_idx(va))
        BY <3>1, Level, Zenon
      <4>3. QED
        BY <4>1, <4>2, Zenon DEF LevelOf
    <3> DEFINE p == put(s3.mem, pt, pt_idx(va), link(f, USER))
    <3>3. r = [s3 EXCEPT !.mem = p]
      BY Zenon DEF Walks, map_user_page
    <3> HIDE DEF p, r
    <3>4. IsMap(r) /\ r.mem = p
      BY <3>2, <3>3, Zenon DEF IsMap
    <3>5. QED
      BY <3>4, Zenon DEF p, r, PageIn
  <2> DEFINE a == q1[1]
             b == q1[2]
             c == q1[5]
             d == q1[6]
             t1 == 0 :> link(b, USER)
             pi == pd_idx(USER_CODE_VA)
             e3 == link(q1[3], USER)
             e4 == link(q1[4], USER)
             L == SubSeq(q1, 5, 6)
             s == [mem |-> UserMem(m3, a, t1, b, g), left |-> L]
             s2 == get_or_create_next_level(s, b, 1)
             s3 == get_or_create_next_level(s2, c, pi)
             r == map_user_page(s, a, USER_CODE_VA, q1[3])
             w == map_user_page(r, a, USER_STACK_PAGE_VA, q1[4])
  <2>1. a # b /\ a # c /\ a # d /\ b # c /\ b # d /\ c # d
    <3>1. DOMAIN q1 = 1 .. 6
      OBVIOUS
    <3>2. QED
      BY <3>1 DEF IsInjective
  <2>2. Head(L) = c /\ Head(Tail(L)) = d
    OBVIOUS
  <2>3. n2 = w.mem
    BY Zenon DEF UserDone, UserMem, PML4_FLAGS
  <2>4. \A f, flags : link(f, flags).to = f
    BY Zenon DEF link
  <2>5. /\ pdpt_idx(USER_CODE_VA) = 1 /\ pdpt_idx(USER_STACK_PAGE_VA) = 1
        /\ pd_idx(USER_STACK_PAGE_VA) = pi /\ pt_idx(USER_CODE_VA) = 0
        /\ pt_idx(USER_STACK_PAGE_VA) = 1
    BY UserIndices, Zenon
  <2>6. DOMAIN m3 \cap {a, b, c, d} = {}
    BY Zenon
  <2> DEFINE m0 == UserMem(m3, a, t1, b, g)
  <2>7. IsMap(s) /\ s.mem = m0 /\ s.left = L
    BY Zenon DEF IsMap
  <2> HIDE DEF a, b, c, d, pi, e3, e4, L, s, m0
  <2>8. t1[0].to = b
    <3>1. t1[0] = link(b, USER)
      BY Single, Zenon
    <3>2. QED
      BY <2>4, <3>1, Zenon
  <2> HIDE DEF t1
  <2>9. /\ DOMAIN m0 = DOMAIN m3 \union {a, b} /\ m0[a] = t1 /\ m0[b] = g
        /\ \A y \in DOMAIN m3 : m0[y] = m3[y]
    <3>1. DOMAIN m3 \cap {a, b} = {}
      BY <2>6, Zenon
    <3>2. TopIs(UserMem(m3, a, t1, b, g), m3, a, t1, b, g)
      BY <2>1, <3>1, <2>UserTop, Zenon
    <3>3. QED
      BY <3>2, Zenon DEF m0, TopIs
  <2>10. IsMap(s2) /\ s2.mem = NewLevel(m0, c, b, 1) /\ s2.left = Tail(L)
    <3>1. 1 \notin DOMAIN s.mem[b]
      BY <2>7, <2>9, Zenon
    <3>2. s2.mem = NewLevel(s.mem, Head(s.left), b, 1) /\ s2.left = Tail(s.left) /\ IsMap(s2)
      <4>1. LevelOf(s2, s, b, 1)
        BY <2>7, Level, Zenon
      <4>2. QED
        BY <3>1, <4>1, Zenon DEF LevelOf
    <3>3. QED
      BY <2>2, <2>7, <3>2, Zenon
  <2> DEFINE m2 == NewLevel(m0, c, b, 1)
             t2 == (1 :> link(c, USER)) @@ g
  <2>11. /\ DOMAIN m2 = DOMAIN m3 \union {a, b, c} /\ m2[c] = << >> /\ m2[a] = t1 /\ m2[b] = t2
         /\ \A y \in DOMAIN m3 : m2[y] = m3[y]
    <3>1. b \in DOMAIN m0 /\ c \notin DOMAIN m0
      BY <2>1, <2>6, <2>9, Zenon
    <3>2. /\ DOMAIN m2 = DOMAIN m0 \union {c} /\ m2[c] = << >>
          /\ m2[b] = (1 :> link(c, USER)) @@ m0[b]
          /\ \A y \in DOMAIN m0 : y # b => m2[y] = m0[y]
      <4>1. LevelIs(m2, m0, c, b, 1)
        BY <3>1, <2>LevelSets, Zenon
      <4>2. QED
        BY <4>1, Zenon DEF LevelIs
    <3>3. m2[b] = t2
      BY <2>9, <3>2, Zenon
    <3> HIDE DEF m2, t2
    <3>4. QED
      BY <2>1, <2>6, <2>9, <3>2, <3>3, Zenon
  <2>12. 1 \in DOMAIN t2 /\ t2[1].to = c
    <3>1. DOMAIN t2 = {1} \union DOMAIN g /\ t2[1] = link(c, USER)
      BY Zenon DEF :>, @@
    <3>2. QED
      BY <2>4, <3>1, Zenon
  <2> HIDE DEF m2, t2, s2
  <2>13. IsMap(s3) /\ s3.mem = NewLevel(m2, d, c, pi)
    <3>1. s2.mem = m2
      BY <2>10, Zenon DEF m2
    <3>2. pi \notin DOMAIN s2.mem[c]
      BY <2>11, <3>1
    <3>3. s3.mem = NewLevel(s2.mem, Head(s2.left), c, pi) /\ IsMap(s3)
      <4>1. LevelOf(s3, s2, c, pi)
        BY <2>10, Level, Zenon
      <4>2. QED
        BY <3>2, <4>1, Zenon DEF LevelOf
    <3>4. Head(s2.left) = d
      BY <2>2, <2>10, Zenon
    <3>5. QED
      BY <3>1, <3>3, <3>4, Zenon
  <2> DEFINE m4 == NewLevel(m2, d, c, pi)
             t5 == (pi :> link(d, USER)) @@ << >>
  <2>14. /\ DOMAIN m4 = DOMAIN m3 \union {a, b, c, d} /\ m4[d] = << >> /\ m4[c] = t5
         /\ m4[a] = t1 /\ m4[b] = t2 /\ \A y \in DOMAIN m3 : m4[y] = m3[y]
    <3>1. c \in DOMAIN m2 /\ d \notin DOMAIN m2
      BY <2>1, <2>6, <2>11, Zenon
    <3>2. /\ DOMAIN m4 = DOMAIN m2 \union {d} /\ m4[d] = << >>
          /\ m4[c] = (pi :> link(d, USER)) @@ m2[c]
          /\ \A y \in DOMAIN m2 : y # c => m4[y] = m2[y]
      <4>1. LevelIs(m4, m2, d, c, pi)
        BY <3>1, <2>LevelSets, Zenon
      <4>2. QED
        BY <4>1, Zenon DEF LevelIs
    <3>3. m4[c] = t5
      BY <2>11, <3>2, Zenon
    <3> HIDE DEF m4, t5
    <3>4. QED
      BY <2>1, <2>6, <2>11, <3>2, <3>3, Zenon
  <2>15. t5 = (pi :> link(d, USER)) /\ pi \in DOMAIN t5 /\ t5[pi].to = d
    <3>1. t5 = (pi :> link(d, USER)) /\ DOMAIN t5 = {pi} /\ t5[pi] = link(d, USER)
      BY DEF :>, @@
    <3>2. QED
      BY <2>4, <3>1, Zenon
  <2> HIDE DEF m4, t5
  <2>16. s3.mem = m4
    BY <2>13, Zenon DEF m4
  <2> DEFINE m5 == put(m4, d, 0, e3)
             z5 == (0 :> e3) @@ << >>
  <2>17. IsMap(r) /\ r.mem = m5
    <3>1. s2.mem = m2
      BY <2>10, Zenon DEF m2
    <3>2. b = s.mem[a][0].to /\ c = s2.mem[b][1].to /\ d = s3.mem[c][pi].to
      BY <2>7, <2>8, <2>9, <2>11, <2>12, <2>14, <2>15, <2>16, <3>1, Zenon
    <3>3. Walks(s, USER_CODE_VA, a, b, s2, c, s3)
      BY <2>5, <3>2, Zenon DEF Walks, s2, pi
    <3> DEFINE p == s3.mem[c][pd_idx(USER_CODE_VA)].to
    <3>4. p = d
      BY <3>2, Zenon DEF pi
    <3> HIDE DEF s3
    <3>5. IsMap(r) /\ r.mem = put(s3.mem, p, pt_idx(USER_CODE_VA), link(q1[3], USER))
      <4>1. PageIn(r, s3, c, USER_CODE_VA, q1[3])
        BY <2>7, <3>3, <2>UserPage, Zenon
      <4>2. QED
        BY <4>1, Zenon DEF PageIn
    <3>6. QED
      BY <2>5, <2>16, <3>4, <3>5, Zenon DEF e3
  <2> HIDE DEF r, s3
  <2>18. /\ DOMAIN m5 = DOMAIN m3 \union {a, b, c, d} /\ m5[d] = z5 /\ m5[c] = t5
         /\ m5[a] = t1 /\ m5[b] = t2 /\ \A y \in DOMAIN m3 : m5[y] = m3[y]
    <3>1. Sets(m5, m4, d, (0 :> e3) @@ m4[d])
      BY <2>PutSets, Zenon
    <3>2. Sets(m5, m4, d, z5)
      BY <2>14, <3>1, Zenon
    <3> HIDE DEF m5, z5
    <3>3. QED
      BY <2>1, <2>6, <2>14, <3>2, Zenon DEF Sets
  <2> HIDE DEF m5
  <2> DEFINE m6 == put(m5, d, 1, e4)
             z6 == (1 :> e4) @@ z5
  <2>19. IsTable(m6) /\ w.mem = m6
    <3>1. b = r.mem[a][0].to /\ c = r.mem[b][1].to /\ d = r.mem[c][pi].to
      BY <2>8, <2>12, <2>15, <2>17, <2>18, Zenon
    <3>2. 1 \in DOMAIN r.mem[b] /\ pi \in DOMAIN r.mem[c]
      BY <2>12, <2>15, <2>17, <2>18, Zenon
    <3>3. r = get_or_create_next_level(r, b, 1) /\ r = get_or_create_next_level(r, c, pi)
      BY <3>2, Zenon DEF get_or_create_next_level
    <3>4. Walks(r, USER_STACK_PAGE_VA, a, b, r, c, r)
      BY <2>5, <3>1, <3>3, Zenon DEF Walks
    <3> DEFINE p == r.mem[c][pd_idx(USER_STACK_PAGE_VA)].to
    <3>5. p = d
      BY <2>5, <3>1, Zenon
    <3>6. w.mem = put(r.mem, p, pt_idx(USER_STACK_PAGE_VA), link(q1[4], USER))
      <4>1. PageIn(w, r, c, USER_STACK_PAGE_VA, q1[4])
        BY <2>17, <3>4, <2>UserPage, Zenon
      <4>2. QED
        BY <4>1, Zenon DEF PageIn
    <3>7. w.mem = m6
      BY <2>5, <2>17, <3>5, <3>6, Zenon DEF e4
    <3>8. IsTable(m6)
      BY MergeIs, Zenon DEF put
    <3>9. QED
      BY <3>7, <3>8, Zenon
  <2>20. /\ DOMAIN m6 = DOMAIN m3 \union {a, b, c, d} /\ m6[d] = z6 /\ m6[c] = t5
         /\ m6[a] = t1 /\ m6[b] = t2 /\ \A y \in DOMAIN m3 : m6[y] = m3[y]
    <3>1. Sets(m6, m5, d, (1 :> e4) @@ m5[d])
      BY <2>PutSets, Zenon
    <3>2. Sets(m6, m5, d, z6)
      BY <2>18, <3>1, Zenon
    <3> HIDE DEF m6, z5, z6
    <3>3. QED
      BY <2>1, <2>6, <2>18, <3>2, Zenon DEF Sets
  <2>21. z6 = (0 :> e3) @@ (1 :> e4)
    BY DEF :>, @@
  <2> HIDE DEF m6, z5, z6, w
  <2>22. n2 = m6
    BY <2>3, <2>19, Zenon
  <2>23. HasFour(n2, m3, a, t1, b, t2, c, pi :> link(d, USER), d, (0 :> e3) @@ (1 :> e4))
    BY <2>15, <2>20, <2>21, <2>22, Zenon DEF HasFour
  <2>24. IsTable(n2)
    BY <2>19, <2>22, Zenon
  <2>25. QED
    BY <2>23, <2>24, Zenon DEF a, b, c, d, t1, t2, pi, e3, e4
<1> DEFINE s == [cr3 |-> q[1], ring3 |-> TRUE]
           g == m[k3]
           t1 == 0 :> link(q[2], USER)
           t2 == (1 :> link(q[5], USER)) @@ g
           t5 == pd_idx(USER_CODE_VA) :> link(q[6], USER)
           t6 == (0 :> link(q[3], USER)) @@ (1 :> link(q[4], USER))
<1>1. /\ s.cr3 = q[1] /\ s.ring3 = TRUE /\ SpaceTables(s, q) = {q[1], q[2], q[5], q[6]}
  BY Zenon DEF SpaceTables
<1>2. DOMAIN q = 1 .. 6 /\ Range(q) = {q[1], q[2], q[3], q[4], q[5], q[6]}
  BY DEF Range
<1>3. KernelTables(m, k4, k3)
  BY Zenon DEF Layout
<1>4. k3 \in DOMAIN m
  BY <1>3, KernelFacts, Zenon
<1>5. DOMAIN m \cap {q[1], q[2], q[5], q[6]} = {}
  <2>1. DOMAIN m = KernelFrames(m, k4, k3) \union UNION {SpaceTables(u, own[u]) : u \in S}
    BY Zenon DEF Layout
  <2>2. \A u \in S : SpaceTables(u, own[u]) \subseteq Range(own[u])
    BY LayoutSpaces, Zenon
  <2>3. DOMAIN m \subseteq InUse(m, k4, k3, S, own)
    BY <2>1, <2>2 DEF InUse
  <2>4. QED
    BY <1>2, <2>3, Zenon
<1>6. 1 \notin DOMAIN m[k3]
  BY <1>3, Zenon DEF KernelTables
<1>7. IsTable(n) /\ HasFour(n, m, q[1], t1, q[2], t2, q[5], t5, q[6], t6)
  BY <1>5, <1>6, <1>UserTables, Zenon
<1> HIDE DEF t1, t2, t5, t6, g
<1>8. /\ DOMAIN n = DOMAIN m \union {q[1], q[2], q[5], q[6]} /\ \A x \in DOMAIN m : n[x] = m[x]
      /\ n[q[1]] = t1 /\ n[q[2]] = t2 /\ n[q[5]] = t5 /\ n[q[6]] = t6
  BY <1>7, Zenon DEF HasFour
<1>9. UserSpace(n, k3, q)
  <2>1. n[k3] = g
    BY <1>4, <1>8, Zenon DEF g
  <2>2. n[q[2]] = (1 :> link(q[5], USER)) @@ n[k3]
    BY <1>8, <2>1, Zenon DEF t2
  <2>3. QED
    BY <1>8, <2>2, Zenon DEF UserSpace, t1, t5, t6
<1> HIDE DEF s
<1>10. Space(n, k3, s, q)
  BY <1>1, <1>9, Zenon DEF Space
<1>11. q[1] \in Range(q) /\ SpaceTables(s, q) \subseteq Range(q)
  BY <1>1, <1>2, Zenon
<1>12. DOMAIN n = DOMAIN m \union SpaceTables(s, q)
  BY <1>1, <1>8, Zenon
<1>13. Joins(m, k3, n, s, q)
  BY <1>7, <1>8, <1>10, <1>11, <1>12, Zenon DEF Joins, IsTable
<1>14. QED
  BY <1>13, Zenon DEF s
-----------------------------------------------------------------------------
(* The frames of the pool lie in the image.                                *)
LEMMA PoolFrames ==
  ASSUME TypeOK, NEW k \in 0 .. POOL_FRAMES - 1
  PROVE  /\ pool_frame(k) \in Nat /\ pool_frame(k) >= fw.lo /\ pool_frame(k) + PAGE <= fw.hi
         /\ fw.lo \in Nat /\ fw.hi \in Nat
         /\ \A j \in 0 .. POOL_FRAMES - 1 : j < k => pool_frame(j) # pool_frame(k)
<1>1. /\ PAGE \in Nat \ {0} /\ POOL_FRAMES \in Nat /\ fw.lo \in Nat /\ fw.hi \in Nat
      /\ fw.lo + POOL_FRAMES * PAGE <= fw.hi
  BY FrameAssumption, Zenon DEF TypeOK, SoundMap
<1> DEFINE hi == fw.hi
           lo == fw.lo
           P == POOL_FRAMES
<1>2. ASSUME NEW j \in 0 .. P - 1
      PROVE  (P - j) * PAGE \in Nat /\ (P - j) * PAGE >= PAGE /\ (P - j) * PAGE <= P * PAGE
  <2> DEFINE d == P - j
  <2>1. d \in Nat /\ d >= 1 /\ P = d + j /\ j \in Nat
    BY <1>1
  <2> HIDE DEF d, P
  <2>2. d * PAGE \in Nat /\ d * PAGE >= PAGE /\ j * PAGE \in Nat
    BY <1>1, <2>1
  <2>4. P * PAGE = d * PAGE + j * PAGE
    BY <1>1, <2>1
  <2>5. d * PAGE <= P * PAGE
    BY <2>2, <2>4
  <2>3. QED
    BY <2>2, <2>5, Zenon DEF d
<1>3. ASSUME NEW j \in 0 .. P - 1, j < k PROVE (P - j) * PAGE # (P - k) * PAGE
  <2> DEFINE d == P - j
             e == P - k
  <2>1. d \in Nat /\ e \in Nat /\ d > e
    BY <1>1, <1>3
  <2> HIDE DEF d, e, P
  <2>2. d * PAGE # e * PAGE
    BY <1>1, <2>1
  <2>3. QED
    BY <2>2, Zenon DEF d, e
<1>4. pool_frame(k) = hi - (P - k) * PAGE /\ \A j : pool_frame(j) = hi - (P - j) * PAGE
  BY Zenon DEF pool_frame
<1>5. \A j \in 0 .. P - 1 : (P - j) * PAGE \in Nat
  BY <1>2, Zenon
<1> HIDE DEF P, hi, lo
<1>6. /\ (P - k) * PAGE \in Nat /\ (P - k) * PAGE >= PAGE /\ (P - k) * PAGE <= P * PAGE
      /\ hi \in Nat /\ lo \in Nat /\ P * PAGE \in Nat /\ lo + P * PAGE <= hi /\ PAGE \in Nat
  BY <1>1, <1>2 DEF P, hi, lo
<1>7. pool_frame(k) \in Nat /\ pool_frame(k) >= lo /\ pool_frame(k) + PAGE <= hi
  <2> DEFINE a == (P - k) * PAGE
             b == P * PAGE
  <2>1. /\ a \in Nat /\ a >= PAGE /\ a <= b /\ b \in Nat /\ lo + b <= hi /\ pool_frame(k) = hi - a
    BY <1>4, <1>6, Zenon
  <2> HIDE DEF a, b
  <2>2. QED
    BY <1>6, <2>1
<1>8. ASSUME NEW j \in 0 .. P - 1, j < k PROVE pool_frame(j) # pool_frame(k)
  <2> DEFINE a == (P - k) * PAGE
             b == (P - j) * PAGE
  <2>1. /\ a \in Nat /\ b \in Nat /\ a # b /\ pool_frame(k) = hi - a /\ pool_frame(j) = hi - b
    BY <1>3, <1>4, <1>5, <1>6, <1>8, Zenon DEF P
  <2> HIDE DEF a, b
  <2>2. QED
    BY <1>6, <2>1
<1>9. QED
  BY <1>1, <1>7, <1>8, Zenon DEF P, hi, lo

(* What is taken stays taken.                                              *)
LEMMA TakenGrows ==
  ASSUME TypeOK, [Next]_vars
  PROVE  taken \subseteq taken'
<1>1. fw' = fw /\ handed \subseteq handed' /\ next_frame \in Nat /\ next_frame' \in Nat
      /\ next_frame' >= next_frame
  <2>1. next_frame \in Nat
    BY FrameAssumption DEF TypeOK
  <2>2. CASE UNCHANGED vars
    BY <2>1, <2>2 DEF vars, parseVars
  <2>3. CASE memmap_parse_uefi \/ memmap_parse_multiboot
    BY <2>1, <2>3 DEF memmap_parse_uefi, memmap_parse_multiboot, parse_entry, parse_end
  <2>4. CASE memmap_activate
    BY <2>1, <2>4 DEF memmap_activate, parseVars
  <2>5. CASE alloc_frame_pool
    BY <2>1, <2>5 DEF alloc_frame_pool, parseVars
  <2>6. CASE alloc_frame_map
    BY <2>1, <2>6 DEF alloc_frame_map, parseVars
  <2>7. CASE Loop
    BY <2>1, <2>7 DEF Loop, next_region, skip_low, skip_image, take_frame, out_of_frames,
                      searchSame, parseVars
  <2>8. QED
    BY <2>2, <2>3, <2>4, <2>5, <2>6, <2>7, Zenon DEF Next
<1>2. ASSUME NEW k \in 0 .. next_frame - 1
      PROVE  pool_frame(k) \in {pool_frame(j)' : j \in 0 .. next_frame' - 1}
  <2>1. ASSUME NEW a \in Nat, NEW b \in Nat, b >= a, k \in 0 .. a - 1 PROVE k \in 0 .. b - 1
    BY <2>1
  <2>4. k \in 0 .. next_frame' - 1
    BY <1>1, <2>1, Zenon
  <2>2. pool_frame(k)' = pool_frame(k)
    BY <1>1, Zenon DEF pool_frame
  <2>3. QED
    BY <2>2, <2>4, Zenon
<1>3. ASSUME NEW x \in taken PROVE x \in taken'
  BY <1>1, <1>2, <1>3, Zenon DEF taken
<1>4. QED
  BY <1>3, Zenon

(* Neither was the one from the memory map.                                *)
LEMMA MapNew ==
  ASSUME FInv, take_frame
  PROVE  addr \in Nat /\ addr \notin taken /\ addr \in taken'
<1>1. TypeOK /\ FInv'
  BY FInvNext, Zenon DEF FInv, Next, Loop
<1>2. addr \notin handed
  BY FreshFromInv, Zenon
<1>3. /\ handed' = handed \union {addr} /\ fw' = fw /\ next_frame \in 0 .. POOL_FRAMES
      /\ POOL_FRAMES \in Nat /\ PAGE \in Nat \ {0}
  BY <1>1, FrameAssumption, Zenon DEF take_frame, searchSame, parseVars, TypeOK
<1> DEFINE f == addr
<1> HIDE DEF f
<1>4. f \in Nat
  <2>1. handed' \subseteq Nat
    BY <1>1, Zenon DEF FInv, TypeOK
  <2>2. QED
    BY <1>3, <2>1, Zenon DEF f
<1>5. f + PAGE <= fw.lo \/ fw.hi <= f
  <2>1. UsableFrames'
    BY <1>1, FramesFromInv, PTL
  <2>2. \A x \in handed' : x + PAGE <= fw'.lo \/ fw'.hi <= x
    BY <2>1, Zenon DEF UsableFrames, Apart
  <2>3. f \in handed'
    BY <1>3, Zenon DEF f
  <2>4. QED
    BY <1>3, <2>2, <2>3, Zenon
<1>6. ASSUME NEW k \in 0 .. next_frame - 1 PROVE pool_frame(k) # f
  <2>1. k \in 0 .. POOL_FRAMES - 1
    BY <1>3
  <2>2. /\ pool_frame(k) \in Nat /\ pool_frame(k) >= fw.lo /\ pool_frame(k) + PAGE <= fw.hi
        /\ fw.lo \in Nat /\ fw.hi \in Nat
    BY <1>1, <2>1, PoolFrames, Zenon
  <2> DEFINE g == pool_frame(k)
  <2> HIDE DEF g
  <2>3. g # f
    BY <1>3, <1>4, <1>5, <2>2 DEF g
  <2>4. QED
    BY <2>3, Zenon DEF g
<1>7. f \notin taken
  BY <1>2, <1>6, Zenon DEF taken, f
<1>8. f \in taken'
  BY <1>3, Zenon DEF taken, f
<1>9. QED
  BY <1>4, <1>7, <1>8, Zenon DEF f

(* While nothing but the allocator's state and the boot's place change,    *)
(* the tables keep their shape.                                            *)
LEMMA TablesSame ==
  ASSUME UNCHANGED <<mem, kernel_pml4, kernel_pdpt, spaces>>
  PROVE  /\ own_frames' = own_frames
         /\ Layout(mem, kernel_pml4, kernel_pdpt, spaces, own_frames) =>
              Layout(mem, kernel_pml4, kernel_pdpt, spaces, own_frames)'
         /\ pc # 1 /\ pc' # 1 => in_use' = in_use
         /\ (pc' = pc => in_use' = in_use)
         /\ \A pa, es : Slot(pa, es) => Slot(pa, es)'
<1>1. own_frames' = own_frames
  BY Zenon DEF own_frames
<1>2. ASSUME NEW pa, NEW es PROVE Slot(pa, es)' = Slot(pa, es)
  BY Zenon DEF Slot
<1>3. QED
  BY <1>1, <1>2, Zenon DEF in_use

(* What a step that allocates nothing and changes no table keeps.          *)
LEMMA FreshSame ==
  ASSUME Fresh, in_use' = in_use, got' = << >>, taken \subseteq taken'
  PROVE  Fresh'
<1>1. in_use' \subseteq taken'
  BY Zenon DEF Fresh
<1>2. << >> \in Seq(Nat) /\ IsInjective(<< >>) /\ Range(<< >>) = {}
  BY DEF IsInjective, Range
<1>3. QED
  BY <1>1, <1>2, Zenon DEF Fresh

(* Frames R, none of which is in use, are taken.                           *)
Reserved(R, U, T) == R \cap U = {} /\ R \union U \subseteq T

(* alloc_frame adds fresh frames to those of the running call.             *)
LEMMA AllocStep ==
  ASSUME FInv, PInv, alloc_frame
  PROVE  PInv'
(* The frame that alloc_frame returns was not taken, and now it is.        *)
<1>PoolNew.
  ASSUME FInv, alloc_frame_pool, halted' = "no"
  PROVE  LET f == pool_frame(next_frame) IN f \in Nat /\ f \notin taken /\ f \in taken'
  <2> USE <1>PoolNew
  <2> DEFINE f == pool_frame(next_frame)
  <2>1. TypeOK /\ UsableFrames
    BY FramesFromInv, Zenon DEF FInv
  <2>2. /\ next_frame \in 0 .. POOL_FRAMES - 1 /\ next_frame' = next_frame + 1 /\ fw' = fw
        /\ POOL_FRAMES \in Nat /\ PAGE \in Nat \ {0} /\ handed \subseteq Nat
    BY <2>1, FrameAssumption DEF alloc_frame_pool, TypeOK, parseVars
  <2>3. /\ f \in Nat /\ f >= fw.lo /\ f + PAGE <= fw.hi /\ fw.lo \in Nat /\ fw.hi \in Nat
        /\ \A j \in 0 .. POOL_FRAMES - 1 : j < next_frame => pool_frame(j) # f
    BY <2>1, <2>2, PoolFrames, Zenon
  <2>4. f \notin handed
    <3>1. ASSUME f \in handed PROVE f + PAGE <= fw.lo \/ fw.hi <= f
      BY <2>1, <3>1, Zenon DEF UsableFrames, Apart
    <3> HIDE DEF f
    <3>2. QED
      BY <2>2, <2>3, <3>1
  <2>5. \A j \in 0 .. next_frame - 1 : pool_frame(j) # f
    <3>1. \A j \in 0 .. next_frame - 1 : j \in 0 .. POOL_FRAMES - 1 /\ j < next_frame
      BY <2>2
    <3>2. QED
      BY <2>3, <3>1, Zenon
  <2>6. f \in taken'
    <3>1. next_frame \in 0 .. next_frame' - 1
      BY <2>2
    <3>3. \A k : fw.hi - (POOL_FRAMES - k) * PAGE = fw.hi' - (POOL_FRAMES - k) * PAGE
      BY <2>2, Zenon
    <3>4. f \in {fw.hi' - (POOL_FRAMES - k) * PAGE : k \in 0 .. next_frame' - 1}
      BY <3>1, <3>3, Zenon DEF pool_frame
    <3>5. QED
      BY <3>4, Zenon DEF taken, pool_frame
  <2> HIDE DEF f
  <2>7. f \notin taken
    BY <2>4, <2>5, Zenon DEF taken
  <2>8. QED
    BY <2>3, <2>6, <2>7, Zenon DEF f
(* A sequence of frames with one more.                                     *)
<1>OneMore.
  ASSUME NEW q \in Seq(Nat), IsInjective(q), NEW f \in Nat, f \notin Range(q)
  PROVE  /\ Append(q, f) \in Seq(Nat) /\ IsInjective(Append(q, f))
         /\ Range(Append(q, f)) = Range(q) \union {f}
  <2> USE <1>OneMore
  <2> DEFINE r == Append(q, f)
  <2>1. /\ r \in Seq(Nat) /\ DOMAIN q = 1 .. Len(q) /\ DOMAIN r = 1 .. Len(q) + 1
        /\ Len(q) \in Nat /\ r[Len(q) + 1] = f /\ \A k \in 1 .. Len(q) : r[k] = q[k]
    OBVIOUS
  <2> HIDE DEF r
  <2>2. \A k \in DOMAIN r : k \in DOMAIN q \/ k = Len(q) + 1
    BY <2>1
  <2>3. IsInjective(r)
    BY <2>1, <2>2, Zenon DEF IsInjective, Range
  <2>4. Range(r) = Range(q) \union {f}
    <3>1. \A k \in DOMAIN q : k \in DOMAIN r
      BY <2>1
    <3>2. Len(q) + 1 \in DOMAIN r
      BY <2>1
    <3>3. QED
      BY <2>1, <2>2, <3>1, <3>2, Zenon DEF Range
  <2>5. QED
    BY <2>1, <2>3, <2>4, Zenon DEF r
(* So they are with a fresh one.                                           *)
<1>FreshMore.
  ASSUME NEW R, NEW U, NEW T, NEW V, NEW f, Reserved(R, U, T),
         T \subseteq V, f \in V, f \notin U
  PROVE  Reserved(R \union {f}, U, V)
  BY <1>FreshMore, Zenon DEF Reserved
<1>1. UNCHANGED <<bootVars, tableVars>> /\ ~Booted /\ [Next]_vars
  BY Zenon DEF alloc_frame, Next, Loop
<1>2. UNCHANGED <<acpi, pc, apic, spaces, enabled, fault, mem, kernel_pml4, kernel_pdpt>>
  BY <1>1, Zenon DEF bootVars, tableVars
<1>3. Placed'
  BY <1>2, Zenon DEF PInv, Placed, Booted
<1>4. enabled \in Nat /\ ~(enabled > 0) /\ ~(enabled' > 0)
  BY <1>1, <1>2, Zenon DEF PInv, Placed
<1>5. Laid'
  BY <1>2, Zenon DEF PInv, Laid, own_frames
<1>6. MappedBeforeUse'
  BY <1>2, Zenon DEF PInv, MappedBeforeUse
<1>7. Entered'
  BY <1>2, <1>4, Zenon DEF PInv, Entered, Slot
<1>8. in_use' = in_use
  BY <1>2, TablesSame, Zenon
<1>9. taken \subseteq taken'
  BY <1>1, TakenGrows, Zenon DEF FInv
<1>10. ASSUME got' = got PROVE Fresh'
  <2>1. Range(got) \union in_use \subseteq taken'
    BY <1>9, Zenon DEF PInv, Fresh
  <2>2. QED
    BY <1>8, <1>10, <2>1, Zenon DEF PInv, Fresh
<1>11. ASSUME NEW f \in Nat, f \notin taken, f \in taken', got' = Append(got, f)
       PROVE  Fresh'
  <2>1. /\ got \in Seq(Nat) /\ IsInjective(got) /\ Range(got) \cap in_use = {}
        /\ Range(got) \union in_use \subseteq taken
    BY Zenon DEF PInv, Fresh
  <2>2. f \notin Range(got) /\ f \notin in_use
    BY <1>11, <2>1, Zenon
  <2>3. /\ got' \in Seq(Nat) /\ IsInjective(got') /\ Range(got') = Range(got) \union {f}
    BY <1>11, <2>1, <2>2, <1>OneMore, Zenon
  <2>4. Range(got') \cap in_use = {} /\ Range(got') \union in_use \subseteq taken'
    <3>1. Reserved(Range(got), in_use, taken)
      BY <2>1, Zenon DEF Reserved
    <3>2. Reserved(Range(got) \union {f}, in_use, taken')
      BY <1>9, <1>11, <2>2, <3>1, <1>FreshMore, Zenon
    <3>3. QED
      BY <2>3, <3>2, Zenon DEF Reserved
  <2>5. QED
    BY <1>8, <2>3, <2>4, Zenon DEF Fresh
<1>14. Fresh'
  <2>1. CASE alloc_frame_pool /\ got' = IF halted' = "no"
                                          THEN Append(got, pool_frame(next_frame)) ELSE got
    <3>1. CASE halted' = "no"
      <4>1. /\ pool_frame(next_frame) \in Nat /\ pool_frame(next_frame) \notin taken
            /\ pool_frame(next_frame) \in taken'
        BY <2>1, <3>1, <1>PoolNew, Zenon
      <4>2. got' = Append(got, pool_frame(next_frame))
        BY <2>1, <3>1, Zenon
      <4>3. QED
        BY <1>11, <4>1, <4>2, Zenon
    <3>2. CASE halted' # "no"
      BY <1>10, <2>1, <3>2, Zenon
    <3>3. QED
      BY <3>1, <3>2, Zenon
  <2>2. CASE take_frame /\ got' = Append(got, addr)
    <3>1. addr \in Nat /\ addr \notin taken /\ addr \in taken'
      BY <2>2, MapNew, Zenon
    <3>2. QED
      BY <1>11, <2>2, <3>1, Zenon
  <2>3. CASE UNCHANGED got
    BY <1>10, <2>3, Zenon
  <2>4. QED
    BY <2>1, <2>2, <2>3, Zenon DEF alloc_frame
<1>15. QED
  BY <1>3, <1>5, <1>6, <1>7, <1>14, Zenon DEF PInv
-----------------------------------------------------------------------------
(* The page walk, level by level.                                          *)
EntryAt(m, t, i) == IF t \in DOMAIN m /\ i \in DOMAIN m[t] THEN m[t][i] ELSE ABSENT
WalkOf(e1, e2, e3, e4, va) ==
  [to |-> IF e1 = ABSENT \/ ("PS" \in e2.flags /\ e2.to % LARGE \notin {0, PAGE})
            THEN -1
          ELSE IF "PS" \in e2.flags THEN (e2.to - (e2.to % LARGE)) + (va % LARGE)
          ELSE e1.to + (va % PAGE),
   user |-> \A e \in {e1, e2, e3, e4} : "U" \in e.flags]

(* That is the walk.                                                       *)
LEMMA WalkIs ==
  ASSUME NEW m, NEW c, NEW va
  PROVE  LET e4 == EntryAt(m, c, 0)
             e3 == EntryAt(m, e4.to, pdpt_idx(va))
             e2 == EntryAt(m, e3.to, pd_idx(va))
             e1 == IF "PS" \in e2.flags THEN e2 ELSE EntryAt(m, e2.to, pt_idx(va))
         IN  Walk(m, c, va) = WalkOf(e1, e2, e3, e4, va)
BY Zenon DEF Walk, EntryAt, WalkOf

(* The walk of a kernel address, from the kernel PDPT on.                  *)
KWalk(m, k3, va) ==
  LET i == pdpt_idx(va)
      t == m[k3][i].to
      j == pd_idx(va)
  IN  [to |-> IF i \in DOMAIN m[k3] /\ j \in DOMAIN m[t] /\ m[t][j].to % LARGE \in {0, PAGE}
                THEN (m[t][j].to - (m[t][j].to % LARGE)) + (va % LARGE) ELSE -1,
       user |-> FALSE]
(* Address space c has at index i of its PDPT what the kernel has.         *)
Through(m, c, k3, i) ==
  LET p == m[c][0].to IN
  /\ c \in DOMAIN m /\ 0 \in DOMAIN m[c] /\ p \in DOMAIN m
  /\ i \in DOMAIN m[p] <=> i \in DOMAIN m[k3]
  /\ i \in DOMAIN m[k3] => m[p][i] = m[k3][i]

(* Then it walks as the kernel does.                                       *)
LEMMA KernelWalk ==
  ASSUME NEW m, NEW k4, NEW k3, KernelTables(m, k4, k3), -1 \notin DOMAIN m, NEW c, NEW va,
         Through(m, c, k3, pdpt_idx(va))
  PROVE  Walk(m, c, va) = KWalk(m, k3, va)
<1> DEFINE i == pdpt_idx(va)
           j == pd_idx(va)
           t == m[k3][i].to
           p == m[c][0].to
           e4 == EntryAt(m, c, 0)
           e3 == EntryAt(m, e4.to, i)
           e2 == EntryAt(m, e3.to, j)
           e1 == IF "PS" \in e2.flags THEN e2 ELSE EntryAt(m, e2.to, pt_idx(va))
<1>1. Walk(m, c, va) = WalkOf(e1, e2, e3, e4, va)
  BY WalkIs, Zenon
<1>2. /\ c \in DOMAIN m /\ 0 \in DOMAIN m[c] /\ p \in DOMAIN m
      /\ i \in DOMAIN m[p] <=> i \in DOMAIN m[k3]
      /\ i \in DOMAIN m[k3] => m[p][i] = m[k3][i]
  BY Zenon DEF Through
<1>3. ABSENT.to = -1 /\ ABSENT.flags = {}
  BY Zenon DEF ABSENT
<1>4. e4.to = p
  BY <1>2, Zenon DEF EntryAt
<1>5. ASSUME i \in DOMAIN m[k3]
      PROVE  /\ e3 = m[k3][i] /\ e3.to = t /\ t \in DOMAIN m /\ LargePages(m[t])
  <2>1. e3 = m[k3][i]
    BY <1>2, <1>4, <1>5, Zenon DEF EntryAt
  <2>2. t \in DOMAIN m /\ LargePages(m[t])
    BY <1>5, KernelFacts, Zenon
  <2>3. QED
    BY <2>1, <2>2, Zenon
<1>6. ASSUME i \notin DOMAIN m[k3] PROVE e3 = ABSENT
  BY <1>2, <1>4, <1>6, Zenon DEF EntryAt
<1>7. KWalk(m, k3, va) =
        [to |-> IF i \in DOMAIN m[k3] /\ j \in DOMAIN m[t] /\ m[t][j].to % LARGE \in {0, PAGE}
                  THEN (m[t][j].to - (m[t][j].to % LARGE)) + (va % LARGE) ELSE -1,
         user |-> FALSE]
  BY Zenon DEF KWalk
<1> HIDE DEF i, j, p
<1>8. CASE i \in DOMAIN m[k3] /\ j \in DOMAIN m[t]
  <2>1. e2 = m[t][j]
    BY <1>5, <1>8, Zenon DEF EntryAt
  <2>2. "PS" \in m[t][j].flags /\ "U" \notin m[t][j].flags /\ m[t][j].to \in Nat
    BY <1>5, <1>8, Zenon DEF LargePages
  <2>3. e2.to \in Nat /\ "PS" \in e2.flags /\ "U" \notin e2.flags
    BY <2>1, <2>2, Zenon
  <2>4. e1 = e2
    BY <2>3, Zenon
  <2> HIDE DEF e1, e2, e3, e4, t
  <2>5. e1 # ABSENT
    BY <1>3, <2>3, <2>4, Zenon
  <2>6. WalkOf(e1, e2, e3, e4, va) =
          [to |-> IF e2.to % LARGE \in {0, PAGE}
                    THEN (e2.to - (e2.to % LARGE)) + (va % LARGE) ELSE -1,
           user |-> FALSE]
    <3>1. (\A e \in {e1, e2, e3, e4} : "U" \in e.flags) = FALSE
      BY <2>3, Zenon
    <3>2. (IF e1 = ABSENT \/ ("PS" \in e2.flags /\ e2.to % LARGE \notin {0, PAGE}) THEN -1
           ELSE IF "PS" \in e2.flags THEN (e2.to - (e2.to % LARGE)) + (va % LARGE)
           ELSE e1.to + (va % PAGE)) =
          IF e2.to % LARGE \in {0, PAGE} THEN (e2.to - (e2.to % LARGE)) + (va % LARGE) ELSE -1
      BY <2>3, <2>5, Zenon
    <3>3. QED
      BY <3>1, <3>2, Zenon DEF WalkOf
  <2>7. QED
    BY <1>1, <1>7, <1>8, <2>1, <2>6, Zenon
<1>9. CASE ~(i \in DOMAIN m[k3] /\ j \in DOMAIN m[t])
  <2>1. e2 = ABSENT
    <3>1. CASE i \in DOMAIN m[k3]
      BY <1>5, <1>9, <3>1, Zenon DEF EntryAt
    <3>2. CASE i \notin DOMAIN m[k3]
      BY <1>3, <1>6, <3>2, Zenon DEF EntryAt
    <3>3. QED
      BY <3>1, <3>2, Zenon
  <2>2. e1 = ABSENT
    <3>1. e2.to = -1 /\ e2.flags = {}
      BY <1>3, <2>1, Zenon
    <3>2. "PS" \notin e2.flags
      BY <3>1, Zenon
    <3>3. EntryAt(m, e2.to, pt_idx(va)) = ABSENT
      BY <3>1, Zenon DEF EntryAt
    <3>4. QED
      BY <3>2, <3>3, Zenon
  <2> HIDE DEF e1, e2, e3, e4, t
  <2>3. WalkOf(e1, e2, e3, e4, va) = [to |-> -1, user |-> FALSE]
    <3>1. (\A e \in {e1, e2, e3, e4} : "U" \in e.flags) = FALSE
      BY <1>3, <2>2, Zenon
    <3>2. (IF e1 = ABSENT \/ ("PS" \in e2.flags /\ e2.to % LARGE \notin {0, PAGE}) THEN -1
           ELSE IF "PS" \in e2.flags THEN (e2.to - (e2.to % LARGE)) + (va % LARGE)
           ELSE e1.to + (va % PAGE)) = -1
      BY <2>2, Zenon
    <3>3. QED
      BY <3>1, <3>2, Zenon DEF WalkOf
  <2>4. QED
    BY <1>1, <1>7, <1>9, <2>3, Zenon
<1>10. QED
  BY <1>8, <1>9, Zenon

(* The kernel's own space goes through its PDPT,                           *)
LEMMA KernelThrough ==
  ASSUME NEW m, NEW k4, NEW k3, KernelTables(m, k4, k3), NEW i
  PROVE  Through(m, k4, k3, i)
<1>1. k4 \in DOMAIN m /\ k3 \in DOMAIN m /\ DOMAIN m[k4] = {0} /\ m[k4][0].to = k3
  BY KernelFacts, ZenonT(30)
<1>2. 0 \in DOMAIN m[k4]
  BY <1>1, Zenon
<1>3. QED
  BY <1>1, <1>2, Zenon DEF Through

(* and every address space has a copy of it but for the private GB.        *)
LEMMA SpaceThrough ==
  ASSUME NEW m, NEW k4, NEW k3, NEW S, NEW own, Layout(m, k4, k3, S, own), NEW s \in S,
         NEW i, i # 1
  PROVE  Through(m, s.cr3, k3, i)
<1> DEFINE q == own[s]
<1>1. Space(m, k3, s, q) /\ SpaceTables(s, q) \subseteq DOMAIN m /\ s.cr3 = q[1]
  <2>1. Space(m, k3, s, q)
    BY Zenon DEF Layout
  <2>2. SpaceTables(s, q) \subseteq DOMAIN m
    BY Zenon DEF Layout
  <2>3. QED
    BY <2>1, <2>2, Zenon DEF Space
<1> HIDE DEF q
<1>2. q[1] \in DOMAIN m /\ q[2] \in DOMAIN m
  BY <1>1, Zenon DEF SpaceTables
<1>3. \E e, x : m[q[1]] = (0 :> link(q[2], x)) /\ m[q[2]] = (1 :> e) @@ m[k3]
  BY <1>1, Zenon DEF Space, UserSpace, ThreadSpace
<1>4. PICK e, x : m[q[1]] = (0 :> link(q[2], x)) /\ m[q[2]] = (1 :> e) @@ m[k3]
  BY <1>3, Zenon
<1>5. 0 \in DOMAIN m[q[1]] /\ m[q[1]][0].to = q[2]
  <2> DEFINE g == 0 :> link(q[2], x)
  <2>3. DOMAIN g = {0} /\ g[0] = link(q[2], x)
    BY Single, Zenon
  <2>4. m[q[1]] = g
    BY <1>4, Zenon
  <2> HIDE DEF g
  <2>1. DOMAIN m[q[1]] = {0} /\ m[q[1]][0] = link(q[2], x)
    BY <2>3, <2>4, Zenon
  <2>2. QED
    BY <2>1 DEF link
<1>6. /\ i \in DOMAIN m[q[2]] <=> i \in DOMAIN m[k3]
      /\ i \in DOMAIN m[k3] => m[q[2]][i] = m[k3][i]
  <2> DEFINE g == m[k3]
  <2>1. m[q[2]] = [j \in {1} \union DOMAIN g |-> IF j = 1 THEN e ELSE g[j]]
    <3>1. (1 :> e) @@ g = [j \in {1} \union DOMAIN g |-> IF j = 1 THEN e ELSE g[j]]
      BY Zenon DEF :>, @@
    <3>2. QED
      BY <1>4, <3>1, Zenon
  <2> HIDE DEF g
  <2>2. /\ i \in DOMAIN m[q[2]] <=> i \in DOMAIN g
        /\ i \in DOMAIN g => m[q[2]][i] = g[i]
    BY <2>1, Zenon
  <2>3. QED
    BY <2>2, Zenon DEF g
<1>7. Through(m, q[1], k3, i)
  BY <1>2, <1>5, <1>6, Zenon DEF Through
<1>8. QED
  BY <1>1, <1>7, Zenon

(* Slot as a property of the memory.                                       *)
SlotIn(m, k3, pa, es) ==
  LET i == pdpt_idx(pa)
      t == m[k3][i].to
  IN  i \in DOMAIN m[k3] /\ pd_idx(pa) \in DOMAIN m[t] /\ m[t][pd_idx(pa)] \in es

(* A slot whose page starts at a large page is mapped, in every space that *)
(* has what the kernel has.                                                *)
LEMMA SlotInMapped ==
  ASSUME NEW m, NEW k4, NEW k3, KernelTables(m, k4, k3), -1 \notin DOMAIN m,
         NEW va \in Nat, NEW es, SlotIn(m, k3, va, es), \A e \in es : e.to \in Nat /\ e.to % LARGE = 0,
         NEW c, Through(m, c, k3, pdpt_idx(va))
  PROVE  Mapped(m, c, va)
(* Large page e holds address va.                                          *)
<1>LargeHolds.
  ASSUME NEW a \in Nat, NEW va1 \in Nat, a % LARGE = 0
  PROVE  (a - (a % LARGE)) + (va1 % LARGE) # -1
  <2> USE <1>LargeHolds
  <2>1. LARGE \in Nat \ {0}
    BY Sizes, Zenon
  <2>2. va1 % LARGE \in Nat
    BY <2>1
  <2>3. QED
    BY <2>2
<1> DEFINE i == pdpt_idx(va)
           t == m[k3][i].to
           j == pd_idx(va)
           a == m[t][j].to
<1>1. i \in DOMAIN m[k3] /\ j \in DOMAIN m[t] /\ m[t][j] \in es
  BY Zenon DEF SlotIn
<1>2. a \in Nat /\ a % LARGE = 0
  BY <1>1, Zenon
<1>3. Walk(m, c, va) = KWalk(m, k3, va)
  BY KernelWalk, Zenon
<1> DEFINE b == (a - (a % LARGE)) + (va % LARGE)
<1>4. KWalk(m, k3, va) =
        [to |-> IF i \in DOMAIN m[k3] /\ j \in DOMAIN m[t] /\ a % LARGE \in {0, PAGE}
                  THEN b ELSE -1, user |-> FALSE]
  BY Zenon DEF KWalk
<1>5. b # -1
  BY <1>2, <1>LargeHolds, Zenon
<1>6. a % LARGE \in {0, PAGE}
  BY <1>2, Zenon
<1> HIDE DEF i, j, t, a, b
<1>7. KWalk(m, k3, va).to = b
  BY <1>1, <1>4, <1>6
<1>8. QED
  BY <1>3, <1>5, <1>7, Zenon DEF Mapped

(* So it is in the tables as they are.                                     *)
LEMMA SlotMapped ==
  ASSUME KernelTables(mem, kernel_pml4, kernel_pdpt), -1 \notin DOMAIN mem,
         NEW va \in Nat, NEW es, Slot(va, es), \A e \in es : e.to \in Nat /\ e.to % LARGE = 0,
         NEW c, Through(mem, c, kernel_pdpt, pdpt_idx(va))
  PROVE  Mapped(mem, c, va)
<1>1. SlotIn(mem, kernel_pdpt, va, es)
  BY Zenon DEF SlotIn, Slot
<1>2. QED
  BY <1>1, SlotInMapped, Zenon

(* Every table is a frame that was taken.                                  *)
LEMMA TakenNat ==
  ASSUME TypeOK
  PROVE  taken \subseteq Nat
<1>1. handed \subseteq Nat /\ next_frame \in 0 .. POOL_FRAMES /\ POOL_FRAMES \in Nat
  BY FrameAssumption, Zenon DEF TypeOK
<1>2. ASSUME NEW k \in 0 .. next_frame - 1 PROVE pool_frame(k) \in Nat
  <2>1. k \in 0 .. POOL_FRAMES - 1
    BY <1>1
  <2>2. QED
    BY <2>1, PoolFrames, Zenon
<1>3. ASSUME NEW x \in taken PROVE x \in Nat
  BY <1>1, <1>2, <1>3, Zenon DEF taken
<1>4. QED
  BY <1>3, Zenon

(* Every table is a frame in use.                                          *)
LEMMA LayoutDomain ==
  ASSUME NEW m, NEW k4, NEW k3, NEW S, NEW own, Layout(m, k4, k3, S, own)
  PROVE  DOMAIN m \subseteq InUse(m, k4, k3, S, own)
<1>1. DOMAIN m = KernelFrames(m, k4, k3) \union UNION {SpaceTables(u, own[u]) : u \in S}
  BY Zenon DEF Layout
<1>2. \A u \in S : SpaceTables(u, own[u]) \subseteq Range(own[u])
  BY LayoutSpaces, Zenon
<1>3. QED
  BY <1>1, <1>2, Zenon DEF InUse

(* So none of them is -1, where ABSENT points to.                          *)
LEMMA TablesTaken ==
  ASSUME FInv, Laid, Fresh, pc # 1
  PROVE  DOMAIN mem \subseteq in_use /\ -1 \notin DOMAIN mem
<1>1. Layout(mem, kernel_pml4, kernel_pdpt, spaces, own_frames)
  BY Zenon DEF Laid
<1>2. in_use = InUse(mem, kernel_pml4, kernel_pdpt, spaces, own_frames)
  BY Zenon DEF in_use
<1>5. DOMAIN mem \subseteq in_use
  BY <1>1, <1>2, LayoutDomain, Zenon
<1>6. in_use \subseteq Nat
  <2>1. taken \subseteq Nat
    BY TakenNat, Zenon DEF FInv
  <2>2. in_use \subseteq taken
    BY Zenon DEF Fresh
  <2>3. QED
    BY <2>1, <2>2, Zenon
<1>7. QED
  BY <1>5, <1>6
-----------------------------------------------------------------------------
(* paging_map_mmio_2mb as a function of the memory and of the frame f that *)
(* it may need.                                                            *)
Level1(m, k3, f, i) ==
  IF i \in DOMAIN m[k3] THEN m ELSE put(zeroed({f}) @@ m, k3, i, link(f, KERNEL))
MmioMem(m, k3, f, pa) ==
  LET i == pdpt_idx(pa)
      m1 == Level1(m, k3, f, i)
  IN  put(m1, m1[k3][i].to, pd_idx(pa), mmio(pa))
(* Its frame is a fresh one, and no address space is there to miss it.     *)
MayMap(m, k4, k3, S, f, pa) ==
  pdpt_idx(pa) \in DOMAIN m[k3] \/ (S = {} /\ f \in Nat /\ f \notin KernelFrames(m, k4, k3))
(* What mapping device pa does.                                            *)
Maps1(m, n, k4, k3, S, own, f, pa) ==
  /\ Layout(n, k4, k3, S, own)
  /\ KernelFrames(n, k4, k3) \subseteq
       KernelFrames(m, k4, k3) \union (IF pdpt_idx(pa) \in DOMAIN m[k3] THEN {} ELSE {f})
  /\ SlotIn(n, k3, pa, {mmio(pa)})
  /\ \A pb, es : SlotIn(m, k3, pb, es) => SlotIn(n, k3, pb, es \union {mmio(pa)})

(* An index is one of a table.                                             *)
LEMMA Index ==
  ASSUME NEW pa, Device(pa)
  PROVE  pdpt_idx(pa) \in (0 .. ENTRIES - 1) \ {1} /\ pa \in Nat
<1>1. /\ pa \in Nat /\ (pa \div GB) % ENTRIES # 1 /\ GB \in Nat \ {0} /\ ENTRIES \in Nat \ {0}
  BY Sizes DEF Device
<1> DEFINE d == pa \div GB
<1>2. d \in Nat
  BY <1>1
<1> HIDE DEF d
<1>3. d % ENTRIES \in 0 .. ENTRIES - 1
  BY <1>1, <1>2
<1>4. QED
  BY <1>1, <1>3, Zenon DEF d, pdpt_idx

HasLevel(m, n, k4, k3, S, own, f, i) ==
  /\ Layout(n, k4, k3, S, own) /\ i \in DOMAIN n[k3]
  /\ KernelFrames(n, k4, k3) \subseteq
       KernelFrames(m, k4, k3) \union (IF i \in DOMAIN m[k3] THEN {} ELSE {f})
  /\ \A x \in DOMAIN m[k3] : x \in DOMAIN n[k3] /\ n[k3][x] = m[k3][x]
  /\ \A x \in Tables(m, k3) : n[x] = m[x]

(* Mapping a device keeps the layout, and the other slots but for its own. *)
LEMMA MmioMaps ==
  ASSUME NEW m, NEW k4, NEW k3, NEW S, NEW own, Layout(m, k4, k3, S, own), NEW f,
         NEW pa, Device(pa), MayMap(m, k4, k3, S, f, pa)
  PROVE  Maps1(m, MmioMem(m, k3, f, pa), k4, k3, S, own, f, pa)
(* A large page is mapped in a table that is there.                        *)
<1>MmioOld.
  ASSUME NEW m1, NEW k41, NEW k31, NEW S1, NEW own1, Layout(m1, k41, k31, S1, own1),
         NEW i \in DOMAIN m1[k31], NEW j, NEW pa1 \in Nat
  PROVE  KeepsTables(m1, put(m1, m1[k31][i].to, j, mmio(pa1)), k41, k31, S1, own1)
  <2> USE <1>MmioOld
  <2> DEFINE t == m1[k31][i].to
             n == put(m1, t, j, mmio(pa1))
             K == KernelFrames(m1, k41, k31)
  <2>1. /\ KernelTables(m1, k41, k31) /\ own1 \in [S1 -> Seq(Nat)] /\ K \subseteq DOMAIN m1
        /\ \A u, v \in S1 : u # v => Range(own1[u]) \cap Range(own1[v]) = {}
        /\ DOMAIN m1 = K \union UNION {SpaceTables(u, own1[u]) : u \in S1}
    BY Zenon DEF Layout, KernelTables
  <2>2. t \in DOMAIN m1 /\ t \notin {k41, k31} /\ t \in Tables(m1, k31) /\ LargePages(m1[t]) /\ t \in K
    BY <2>1, KernelFacts, Zenon DEF KernelFrames
  <2>3. k41 \in DOMAIN m1 /\ k31 \in DOMAIN m1
    BY <2>1, KernelFacts, Zenon
  <2> HIDE DEF t
  <2>4. /\ DOMAIN n = DOMAIN m1 /\ n = [x \in DOMAIN n |-> n[x]]
        /\ DOMAIN n[t] = {j} \union DOMAIN m1[t] /\ n[t] = [x \in DOMAIN n[t] |-> n[t][x]]
        /\ n[t][j] = mmio(pa1) /\ \A x \in DOMAIN m1[t] \ {j} : n[t][x] = m1[t][x]
        /\ \A x \in DOMAIN m1 \ {t} : n[x] = m1[x]
    <3>1. IsPut(n, m1, t, j, mmio(pa1))
      BY Put, Zenon
    <3> HIDE DEF n
    <3>2. QED
      BY <2>2, <3>1, Zenon DEF IsPut
  <2> HIDE DEF n
  <2>5. n[k41] = m1[k41] /\ n[k31] = m1[k31]
    BY <2>2, <2>3, <2>4, Zenon
  <2>6. Tables(n, k31) = Tables(m1, k31) /\ KernelFrames(n, k41, k31) = K
    BY <2>5, Zenon DEF Tables, KernelFrames
  <2>7. LargePages(n[t])
    <3>1. mmio(pa1).to \in Nat /\ "PS" \in mmio(pa1).flags /\ "U" \notin mmio(pa1).flags
      BY Zenon DEF mmio, link, KERNEL
    <3>2. QED
      BY <2>2, <2>4, <3>1, Zenon DEF LargePages
  <2>8. \A x \in Tables(n, k31) : x \notin {k41, k31} /\ LargePages(n[x])
    <3>1. \A x \in Tables(m1, k31) : x \in DOMAIN m1 /\ x \notin {k41, k31} /\ LargePages(m1[x])
      BY <2>1, Zenon DEF KernelTables, KernelFrames
    <3>2. QED
      BY <2>4, <2>6, <2>7, <3>1, Zenon
  <2>9. KernelTables(n, k41, k31)
    <3> DEFINE Pdpt(x) == /\ 0 \in DOMAIN x /\ DOMAIN x \subseteq (0 .. ENTRIES - 1) \ {1}
                          /\ x = [y \in DOMAIN x |-> link(x[y].to, KERNEL)]
                          /\ \A y, z \in DOMAIN x : x[y].to = x[z].to => y = z
    <3>1. k41 # k31 /\ m1[k41] = (0 :> link(k31, KERNEL)) /\ Pdpt(m1[k31])
      BY <2>1, Zenon DEF KernelTables
    <3>2. n[k41] = (0 :> link(k31, KERNEL)) /\ Pdpt(n[k31])
      <4> HIDE DEF Pdpt
      <4>1. QED
        BY <2>5, <3>1, Zenon
    <3>3. KernelFrames(n, k41, k31) \subseteq DOMAIN n
      BY <2>1, <2>4, <2>6, Zenon
    <3>4. QED
      BY <2>8, <3>1, <3>2, <3>3, Zenon DEF KernelTables
  <2>10. \A u \in S1 : /\ Space(n, k31, u, own1[u]) /\ IsInjective(own1[u])
                      /\ Range(own1[u]) \cap KernelFrames(n, k41, k31) = {}
    <3>1. ASSUME NEW u \in S1
          PROVE  /\ Space(n, k31, u, own1[u]) /\ IsInjective(own1[u]) /\ Range(own1[u]) \cap K = {}
      <4>1. /\ Space(m1, k31, u, own1[u]) /\ IsInjective(own1[u]) /\ Range(own1[u]) \cap K = {}
            /\ SpaceTables(u, own1[u]) \subseteq Range(own1[u])
            /\ SpaceTables(u, own1[u]) \subseteq DOMAIN m1
        BY LayoutSpaces, Zenon
      <4>2. \A x \in SpaceTables(u, own1[u]) : n[x] = m1[x]
        BY <2>2, <2>4, <4>1, Zenon
      <4>3. Space(n, k31, u, own1[u])
        BY <2>5, <4>1, <4>2, SpaceSame, Zenon
      <4>4. QED
        BY <4>1, <4>3, Zenon
    <3>2. QED
      BY <2>6, <3>1, Zenon
  <2>11. DOMAIN n = KernelFrames(n, k41, k31) \union UNION {SpaceTables(u, own1[u]) : u \in S1}
    BY <2>1, <2>4, <2>6, Zenon
  <2>12. Layout(n, k41, k31, S1, own1)
    BY <2>1, <2>4, <2>9, <2>10, <2>11, Zenon DEF Layout
  <2>13. QED
    BY <2>5, <2>6, <2>12, Zenon DEF n, t, KeepsTables
(* The table that the page goes to, with the entries it had.               *)
<1>Level1Is.
  ASSUME NEW m2, NEW k42, NEW k32, NEW S1, NEW own2, Layout(m2, k42, k32, S1, own2), NEW f2,
         NEW pa1, Device(pa1), MayMap(m2, k42, k32, S1, f2, pa1)
  PROVE  HasLevel(m2, Level1(m2, k32, f2, pdpt_idx(pa1)), k42, k32, S1, own2, f2, pdpt_idx(pa1))
  <2> USE <1>Level1Is
  (* Or in a new table, which gets its entry in the kernel PDPT; there must  *)
  (* not be an address space yet, because it would not see it.               *)
  <2>MmioNew.
    ASSUME NEW m1, NEW k41, NEW k31, NEW own1, Layout(m1, k41, k31, {}, own1),
           NEW i \in (0 .. ENTRIES - 1) \ {1}, i \notin DOMAIN m1[k31],
           NEW f1 \in Nat, f1 \notin KernelFrames(m1, k41, k31)
    PROVE  AddsTable(m1, put(zeroed({f1}) @@ m1, k31, i, link(f1, KERNEL)), k41, k31, own1, i, f1)
    <3> USE <2>MmioNew
    <3> DEFINE z == zeroed({f1}) @@ m1
               n == put(z, k31, i, link(f1, KERNEL))
               K == KernelFrames(m1, k41, k31)
    <3>1. /\ KernelTables(m1, k41, k31) /\ own1 \in [{} -> Seq(Nat)] /\ K \subseteq DOMAIN m1
          /\ DOMAIN m1 = K \union UNION {SpaceTables(u, own1[u]) : u \in {}}
      BY Zenon DEF Layout, KernelTables
    <3>2. DOMAIN m1 = K
      BY <3>1, Zenon
    <3>3. k41 \in DOMAIN m1 /\ k31 \in DOMAIN m1 /\ k41 # k31 /\ f1 # k41 /\ f1 # k31
      <4>1. k41 # k31
        BY <3>1, Zenon DEF KernelTables
      <4>2. k41 \in K /\ k31 \in K
        BY Zenon DEF KernelFrames
      <4>3. QED
        BY <3>1, <4>1, <4>2, Zenon
    <3>4. DOMAIN z = {f1} \union K /\ z[f1] = << >> /\ \A x \in K : z[x] = m1[x]
      BY <3>2, Zenon DEF zeroed, @@
    <3>5. IsPut(n, z, k31, i, link(f1, KERNEL))
      BY Put, Zenon
    <3> HIDE DEF z, n
    <3>6. /\ DOMAIN n = K \union {f1} /\ n = [x \in DOMAIN n |-> n[x]]
          /\ DOMAIN n[k31] = {i} \union DOMAIN m1[k31] /\ n[k31] = [j \in DOMAIN n[k31] |-> n[k31][j]]
          /\ n[k31][i] = link(f1, KERNEL) /\ \A j \in DOMAIN m1[k31] : n[k31][j] = m1[k31][j]
          /\ n[f1] = << >> /\ \A x \in K \ {k31} : n[x] = m1[x]
      BY <3>2, <3>3, <3>4, <3>5, Zenon DEF IsPut
    <3>7. n[k31][i].to = f1
      BY <3>6 DEF link
    <3>8. Tables(n, k31) = Tables(m1, k31) \union {f1}
      BY <3>6, <3>7 DEF Tables
    <3>9. KernelFrames(n, k41, k31) = K \union {f1}
      BY <3>8, Zenon DEF KernelFrames
    <3>10. /\ m1[k41] = (0 :> link(k31, KERNEL))
           /\ 0 \in DOMAIN m1[k31] /\ DOMAIN m1[k31] \subseteq (0 .. ENTRIES - 1) \ {1}
           /\ m1[k31] = [x \in DOMAIN m1[k31] |-> link(m1[k31][x].to, KERNEL)]
           /\ \A x, y \in DOMAIN m1[k31] : m1[k31][x].to = m1[k31][y].to => x = y
           /\ \A x \in Tables(m1, k31) : x \in K /\ x \notin {k41, k31} /\ LargePages(m1[x])
      BY <3>1, Zenon DEF KernelTables, KernelFrames
    <3>11. n[k41] = (0 :> link(k31, KERNEL))
      BY <3>2, <3>3, <3>6, <3>10, Zenon
    <3>12. n[k31] = [x \in DOMAIN n[k31] |-> link(n[k31][x].to, KERNEL)]
      <4>1. \A x \in DOMAIN m1[k31] : m1[k31][x] = link(m1[k31][x].to, KERNEL)
        BY <3>10, Zenon
      <4>2. \A x \in DOMAIN n[k31] : n[k31][x] = link(n[k31][x].to, KERNEL)
        BY <3>6, <3>7, <4>1, Zenon
      <4>3. QED
        BY <3>6, <4>2, Zenon
    <3>13. \A x, y \in DOMAIN n[k31] : n[k31][x].to = n[k31][y].to => x = y
      <4>1. \A x \in DOMAIN m1[k31] : m1[k31][x].to \in Tables(m1, k31)
        BY Zenon DEF Tables
      <4>2. \A x \in DOMAIN m1[k31] : m1[k31][x].to # f1
        BY <3>10, <4>1, Zenon
      <4>3. QED
        BY <3>6, <3>7, <3>10, <4>2, Zenon
    <3>14. LargePages(n[f1])
      BY <3>6 DEF LargePages
    <3>15. \A x \in Tables(n, k31) : x \notin {k41, k31} /\ LargePages(n[x])
      BY <3>3, <3>6, <3>8, <3>10, <3>14, Zenon
    <3>16. KernelTables(n, k41, k31)
      <4>1. 0 \in DOMAIN n[k31] /\ DOMAIN n[k31] \subseteq (0 .. ENTRIES - 1) \ {1}
        BY <3>6, <3>10, Zenon
      <4>2. KernelFrames(n, k41, k31) \subseteq DOMAIN n
        BY <3>6, <3>9, Zenon
      <4>3. QED
        BY <3>3, <3>11, <3>12, <3>13, <3>15, <4>1, <4>2, Zenon DEF KernelTables
    <3>17. Layout(n, k41, k31, {}, own1)
      <4>1. DOMAIN n = KernelFrames(n, k41, k31) \union UNION {SpaceTables(u, own1[u]) : u \in {}}
        BY <3>6, <3>9, Zenon
      <4>2. QED
        BY <3>1, <3>6, <3>16, <4>1, Zenon DEF Layout
    <3>18. \A x \in Tables(m1, k31) : n[x] = m1[x]
      BY <3>6, <3>10, Zenon
    <3>19. i \in DOMAIN n[k31] /\ \A x \in DOMAIN m1[k31] : x \in DOMAIN n[k31] /\ n[k31][x] = m1[k31][x]
      BY <3>6, Zenon
    <3>20. QED
      BY <3>7, <3>9, <3>17, <3>18, <3>19, Zenon DEF n, z, AddsTable
  <2> DEFINE i == pdpt_idx(pa1)
             n == Level1(m2, k32, f2, i)
  <2>1. CASE i \in DOMAIN m2[k32]
    <3>1. n = m2
      BY <2>1, Zenon DEF Level1
    <3>2. HasLevel(m2, m2, k42, k32, S1, own2, f2, i)
      BY <2>1, Zenon DEF HasLevel
    <3>3. QED
      BY <3>1, <3>2, Zenon
  <2>2. CASE i \notin DOMAIN m2[k32]
    <3>1. n = put(zeroed({f2}) @@ m2, k32, i, link(f2, KERNEL))
      BY <2>2, Zenon DEF Level1
    <3>2. S1 = {} /\ f2 \in Nat /\ f2 \notin KernelFrames(m2, k42, k32)
      BY <2>2, Zenon DEF MayMap
    <3>3. i \in (0 .. ENTRIES - 1) \ {1}
      BY Index, Zenon
    <3>4. Layout(m2, k42, k32, {}, own2)
      BY <3>2, Zenon
    <3> DEFINE p == put(zeroed({f2}) @@ m2, k32, i, link(f2, KERNEL))
    <3>5. /\ Layout(p, k42, k32, {}, own2)
          /\ KernelFrames(p, k42, k32) = KernelFrames(m2, k42, k32) \union {f2}
          /\ i \in DOMAIN p[k32]
          /\ \A x \in DOMAIN m2[k32] : x \in DOMAIN p[k32] /\ p[k32][x] = m2[k32][x]
          /\ \A x \in Tables(m2, k32) : p[x] = m2[x]
      <4>1. AddsTable(m2, p, k42, k32, own2, i, f2)
        BY <2>2, <3>2, <3>3, <3>4, <2>MmioNew, Zenon
      <4>2. QED
        BY <4>1, Zenon DEF AddsTable
    <3>6. n = p
      BY <3>1, Zenon
    <3>7. Layout(n, k42, k32, S1, own2)
      BY <3>2, <3>5, <3>6, Zenon
    <3> HIDE DEF p, n
    <3>8. KernelFrames(n, k42, k32) \subseteq
            KernelFrames(m2, k42, k32) \union (IF i \in DOMAIN m2[k32] THEN {} ELSE {f2})
      BY <2>2, <3>5, <3>6, Zenon
    <3>9. /\ i \in DOMAIN n[k32]
          /\ \A x \in DOMAIN m2[k32] : x \in DOMAIN n[k32] /\ n[k32][x] = m2[k32][x]
          /\ \A x \in Tables(m2, k32) : n[x] = m2[x]
      BY <3>5, <3>6, Zenon
    <3>10. QED
      BY <3>7, <3>8, <3>9, Zenon DEF n, HasLevel
  <2>3. QED
    BY <2>1, <2>2, Zenon
<1> DEFINE i == pdpt_idx(pa)
           j == pd_idx(pa)
           m1 == Level1(m, k3, f, i)
           t == m1[k3][i].to
           n == put(m1, t, j, mmio(pa))
<1>1. n = MmioMem(m, k3, f, pa)
  BY Zenon DEF MmioMem
<1>2. HasLevel(m, m1, k4, k3, S, own, f, i)
  BY <1>Level1Is, Zenon
<1>3. pa \in Nat
  BY Index, Zenon
<1> HIDE DEF i, j, m1
<1>4. Layout(m1, k4, k3, S, own) /\ i \in DOMAIN m1[k3]
  BY <1>2, Zenon DEF HasLevel
<1>5. KeepsTables(m1, n, k4, k3, S, own)
  BY <1>3, <1>4, <1>MmioOld, Zenon
<1>6. IsPut(n, m1, t, j, mmio(pa))
  BY Put, Zenon
<1> HIDE DEF n, t
<1>7. Layout(n, k4, k3, S, own) /\ n[k3] = m1[k3] /\ KernelFrames(n, k4, k3) = KernelFrames(m1, k4, k3)
  BY <1>5, Zenon DEF KeepsTables
<1>8. KernelFrames(n, k4, k3) \subseteq
        KernelFrames(m, k4, k3) \union (IF pdpt_idx(pa) \in DOMAIN m[k3] THEN {} ELSE {f})
  BY <1>2, <1>7, Zenon DEF HasLevel, i
<1>9. j \in DOMAIN n[t] /\ n[t][j] = mmio(pa) /\ n[k3][i].to = t
  <2>1. j \in DOMAIN n[t] /\ n[t][j] = mmio(pa)
    BY <1>6, Zenon DEF IsPut
  <2>2. QED
    BY <1>7, <2>1, Zenon DEF t
<1>10. SlotIn(n, k3, pa, {mmio(pa)})
  <2>1. mmio(pa) \in {mmio(pa)} /\ i \in DOMAIN n[k3]
    BY <1>4, <1>7, Zenon
  <2>2. QED
    BY <1>9, <2>1, Zenon DEF SlotIn, i, j
<1>11. ASSUME NEW pb, NEW es, SlotIn(m, k3, pb, es)
       PROVE  SlotIn(n, k3, pb, es \union {mmio(pa)})
  <2> DEFINE x == pdpt_idx(pb)
             y == pd_idx(pb)
             u == m[k3][x].to
  <2>1. x \in DOMAIN m[k3] /\ y \in DOMAIN m[u] /\ m[u][y] \in es
    BY <1>11, Zenon DEF SlotIn
  <2>2. KernelTables(m, k4, k3)
    BY Zenon DEF Layout
  <2>3. u \in Tables(m, k3)
    BY <2>1, <2>2, KernelFacts, Zenon
  <2>4. /\ x \in DOMAIN m1[k3] /\ m1[k3][x] = m[k3][x] /\ m1[u] = m[u]
    BY <1>2, <2>1, <2>3, Zenon DEF HasLevel
  <2>5. x \in DOMAIN n[k3] /\ n[k3][x].to = u
    BY <1>7, <2>4, Zenon
  <2>6. u \in DOMAIN m1
    <3>1. KernelTables(m1, k4, k3)
      BY <1>4, Zenon DEF Layout
    <3>2. m1[k3][x].to \in DOMAIN m1
      BY <2>4, <3>1, KernelFacts, Zenon
    <3>3. QED
      BY <2>4, <3>2, Zenon
  <2> HIDE DEF x, y, u
  <2>7. y \in DOMAIN n[u] /\ n[u][y] \in es \union {mmio(pa)}
    <3>1. CASE u = t
      BY <1>6, <2>1, <2>4, <3>1, Zenon DEF IsPut
    <3>2. CASE u # t
      BY <1>6, <2>1, <2>4, <2>6, <3>2, Zenon DEF IsPut
    <3>3. QED
      BY <3>1, <3>2, Zenon
  <2>8. QED
    BY <2>5, <2>7, Zenon DEF SlotIn, x, y
<1>12. QED
  BY <1>1, <1>7, <1>8, <1>10, <1>11, Zenon DEF Maps1
-----------------------------------------------------------------------------
(* The boot starts with no tables.                                         *)
LEMMA PInvInit == PagingInit => PInv
<1> SUFFICES ASSUME PagingInit PROVE PInv
  BY Zenon
<1>1. /\ acpi \in Firmwares /\ pc = 1 /\ got = << >> /\ mem = << >> /\ kernel_pml4 = -1
      /\ apic = [lapic |-> LAPIC_DEFAULT, ioapic |-> IOAPIC_DEFAULT]
      /\ spaces = {} /\ enabled = 0 /\ fault = "none"
  BY Zenon DEF PagingInit
<1>2. Placed
  <2>1. pc \in 1 .. Len(Boot) + 1
    BY <1>1, BootOrder
  <2>2. apic.lapic = LAPIC_DEFAULT /\ apic.ioapic = IOAPIC_DEFAULT
    BY <1>1, Zenon
  <2>3. Device(apic.lapic) /\ Device(apic.ioapic)
    BY <2>2, DeviceAssumption, Zenon
  <2>4. enabled \in Nat /\ ~(enabled > 0)
    BY <1>1
  <2>5. QED
    BY <1>1, <2>1, <2>3, <2>4, Zenon DEF Placed
<1>3. Laid
  BY <1>1, Zenon DEF Laid
<1>4. Fresh
  <2>1. in_use = {}
    BY <1>1, Zenon DEF in_use
  <2>2. QED
    BY <1>1, <2>1 DEF Fresh, IsInjective, Range
<1>5. Entered /\ MappedBeforeUse
  BY <1>1 DEF Entered, MappedBeforeUse
<1>6. QED
  BY <1>2, <1>3, <1>4, <1>5, Zenon DEF PInv

(* A boot call moves on by one, with no AP running and no fault yet.       *)
LEMMA Moves ==
  ASSUME Placed, NEW name, Call(name), enabled' = enabled
  PROVE  /\ pc \in Nat /\ pc \in 1 .. THREADS + 10 /\ pc' = pc + 1 /\ pc' \in 1 .. Len(Boot) + 1
         /\ ~(enabled > 0) /\ ~(enabled' > 0) /\ enabled' \in Nat
         /\ fault = "none" /\ got' = << >> /\ Boot[pc] = name /\ Len(got) = frames_needed
<1>1. /\ pc \in 1 .. Len(Boot) + 1 /\ ~Booted /\ fault = "none" /\ pc' = pc + 1 /\ enabled \in Nat
      /\ (enabled > 0 => Booted) /\ got' = << >> /\ Boot[pc] = name /\ Len(got) = frames_needed
  BY Zenon DEF Placed, Call, At, Alive
<1>2. pc <= Len(Boot) /\ Len(Boot) = THREADS + 10 /\ THREADS \in Nat
  BY <1>1, BootOrder DEF Booted
<1>3. QED
  BY <1>1, <1>2

(* Where the boot may be after a call.                                     *)
LEMMA PlacedNext ==
  ASSUME Placed, NEW name, Call(name), UNCHANGED <<acpi, enabled>>,
         Device(apic'.lapic), Device(apic'.ioapic), pc' < 9 => spaces' = {}
  PROVE  Placed'
<1>1. pc' \in 1 .. Len(Boot) + 1 /\ ~(enabled' > 0) /\ enabled' \in Nat
  BY Moves, Zenon
<1>2. acpi' \in Firmwares
  BY Zenon DEF Placed
<1>3. QED
  BY <1>1, <1>2, Zenon DEF Placed

(* A call that changes no table and no address space.                      *)
Quiet == UNCHANGED <<acpi, mem, kernel_pml4, kernel_pdpt, spaces, enabled>>

(* It keeps the invariant if the device addresses still are some, and are  *)
(* settled once the first is mapped.                                       *)
LEMMA QuietStep ==
  ASSUME FInv, PInv, pc # 1, NEW name, Call(name), Quiet, [Next]_vars,
         Device(apic'.lapic), Device(apic'.ioapic), MappedBeforeUse',
         pc' > 3 => apic' = apic /\ pc > 3
  PROVE  PInv'
<1>1. Placed /\ Laid /\ Fresh /\ Entered
  BY Zenon DEF PInv
<1>2. UNCHANGED <<acpi, mem, kernel_pml4, kernel_pdpt, spaces, enabled>>
  BY Zenon DEF Quiet
<1>3. pc \in Nat /\ pc' = pc + 1 /\ pc >= 1 /\ got' = << >> /\ ~(enabled' > 0)
  <2>1. pc \in Nat /\ pc' = pc + 1 /\ pc \in 1 .. THREADS + 10 /\ got' = << >> /\ ~(enabled' > 0)
    BY <1>1, <1>2, Moves, Zenon
  <2>2. QED
    BY <2>1, BootOrder
<1>4. pc' # 1 /\ pc' # 2 /\ (pc' < 9 => pc < 9)
  BY <1>3
<1>5. Placed'
  BY <1>1, <1>2, <1>4, PlacedNext, Zenon DEF Placed
<1>6. Laid'
  BY <1>1, <1>2, <1>4, TablesSame, Zenon DEF Laid
<1>7. in_use' = in_use
  BY <1>2, <1>4, TablesSame, Zenon
<1>8. taken \subseteq taken'
  BY TakenGrows, Zenon DEF FInv
<1>9. Fresh'
  BY <1>1, <1>3, <1>7, <1>8, FreshSame, Zenon
<1>10. Entered'
  <2>1. ASSUME pc' > 3
        PROVE  Slot(apic.lapic, {mmio(apic.lapic), mmio(apic.ioapic)})' /\ apic' = apic
    <3>1. Slot(apic.lapic, {mmio(apic.lapic), mmio(apic.ioapic)}) /\ apic' = apic
      BY <1>1, <2>1, Zenon DEF Entered
    <3>2. QED
      BY <1>2, <3>1, Zenon DEF Slot
  <2>2. QED
    BY <1>3, <1>4, <2>1, Zenon DEF Entered
<1>11. QED
  BY <1>5, <1>6, <1>9, <1>10, Zenon DEF PInv

(* Steps between the calls that change no table either.                    *)
LEMMA IdleStep ==
  ASSUME FInv, PInv, [Next]_vars, MappedBeforeUse', Alive,
         UNCHANGED <<acpi, pc, got, mem, kernel_pml4, kernel_pdpt, apic, spaces, enabled>>
  PROVE  PInv'
<1>1. Placed /\ Laid /\ Fresh /\ Entered
  BY Zenon DEF PInv
<1>2. Placed' /\ Laid'
  BY <1>1, Zenon DEF Placed, Laid, Booted, own_frames
<1>3. in_use' = in_use
  BY TablesSame, Zenon
<1>4. taken \subseteq taken'
  BY TakenGrows, Zenon DEF FInv
<1>5. Fresh'
  <2>1. Range(got) \union in_use \subseteq taken'
    BY <1>1, <1>4, Zenon DEF Fresh
  <2>2. QED
    BY <1>1, <1>3, <2>1, Zenon DEF Fresh
<1>6. Entered'
  BY <1>1, Zenon DEF Entered, Slot
<1>7. QED
  BY <1>2, <1>5, <1>6, Zenon DEF PInv

(* So the use of the local APIC faults only if one of them does not.       *)
LEMMA TouchDevice ==
  ASSUME FInv, PInv, pc > 3, NEW c, Through(mem, c, kernel_pdpt, pdpt_idx(apic.lapic)),
         touch(mem, c, apic.lapic), UNCHANGED <<acpi, apic>>
  PROVE  MappedBeforeUse'
(* A device that starts at a large page can be used once it is mapped.     *)
<1>DeviceMapped.
  ASSUME FInv, PInv, pc > 3, apic.lapic % LARGE = 0, apic.ioapic % LARGE = 0, NEW c1,
         Through(mem, c1, kernel_pdpt, pdpt_idx(apic.lapic))
  PROVE  Mapped(mem, c1, apic.lapic)
  <2> USE <1>DeviceMapped
  <2> DEFINE es == {mmio(apic.lapic), mmio(apic.ioapic)}
  <2>1. /\ Device(apic.lapic) /\ Device(apic.ioapic) /\ pc \in Nat
        /\ Slot(apic.lapic, es) /\ Laid /\ Fresh
    BY BootOrder DEF PInv, Placed, Entered
  <2>2. apic.lapic \in Nat /\ apic.ioapic \in Nat
    BY <2>1, Zenon DEF Device
  <2>3. pc # 1
    BY <2>1
  <2>4. KernelTables(mem, kernel_pml4, kernel_pdpt)
    BY <2>1, <2>3, Zenon DEF Laid, Layout
  <2>5. -1 \notin DOMAIN mem
    BY <2>1, <2>3, TablesTaken, Zenon
  <2>6. \A pa : mmio(pa).to = pa
    BY Zenon DEF mmio, link
  <2>7. \A e \in es : e.to \in Nat /\ e.to % LARGE = 0
    BY <2>2, <2>6, Zenon
  <2> HIDE DEF es
  <2>8. QED
    BY <2>1, <2>2, <2>4, <2>5, <2>7, SlotMapped, ZenonT(30)
<1>1. MappedBeforeUse
  BY Zenon DEF PInv
<1>2. CASE Mapped(mem, c, apic.lapic)
  BY <1>1, <1>2, Zenon DEF touch, MappedBeforeUse
<1>3. CASE ~Mapped(mem, c, apic.lapic)
  <2>1. apic.lapic % LARGE # 0 \/ apic.ioapic % LARGE # 0
    BY <1>3, <1>DeviceMapped, Zenon
  <2>2. fault' = "device"
    BY <1>3, Zenon DEF touch
  <2>3. fault' # "tables"
    BY <2>2, Zenon
  <2>4. QED
    BY <2>1, <2>3, Zenon DEF MappedBeforeUse
<1>4. QED
  BY <1>2, <1>3, Zenon

(* The kernel's own space can always be gone through.                      *)
LEMMA KernelGoes ==
  ASSUME Laid, pc # 1, NEW i
  PROVE  Through(mem, kernel_pml4, kernel_pdpt, i)
BY KernelThrough, Zenon DEF Laid, Layout
=============================================================================
