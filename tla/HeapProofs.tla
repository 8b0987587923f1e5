----------------------------- MODULE HeapProofs -----------------------------
(***************************************************************************)
(* The heap is sound for every arena size and every sequence of calls.     *)
(***************************************************************************)
EXTENDS HeapLocked, TLAPS, WellFoundedInduction

(* A block of a tiled arena ends inside it.                                *)
LEMMA EndInside ==
  ASSUME NEW h, HeapType(h), Tiles(h), NEW b \in DOMAIN h
  PROVE  End(h, b) \in Addr /\ h[b].size \in Nat /\ b \in Addr
<1>1. h[b] \in Block /\ b \in Addr
  BY Zenon DEF HeapType
<1>2. h[b].size \in Nat /\ h[b].next \in Addr \cup {NULL}
  BY <1>1, Zenon DEF Block
<1>3. QED
  BY <1>1, <1>2, HeapAssumption DEF Tiles, End, Addr, HDR, NULL, HeapType

(* split_block keeps the tiling, cuts nothing below the size asked for and *)
(* changes neither the mark of a block nor the blocks there were.          *)
LEMMA SplitKeeps ==
  ASSUME NEW h, HeapType(h), Tiles(h), NEW b \in DOMAIN h,
         NEW size \in Nat, h[b].size >= size,
         NEW g, g = split_block(h, b, size)
  PROVE  /\ HeapType(g) /\ Tiles(g)
         /\ DOMAIN h \subseteq DOMAIN g
         /\ \A x \in DOMAIN h : g[x].free = h[x].free
         /\ \A x \in DOMAIN g \ DOMAIN h : g[x].free /\ g[x].next = h[b].next
         /\ \A x \in DOMAIN h \ {b} : g[x].size = h[x].size /\ g[x].next = h[x].next
         /\ g[b].size >= size
<1> DEFINE n == b + HDR + size
           remaining == h[b].size - size
<1>1. CASE remaining <= HDR + 16
  <2>1. g = h
    BY <1>1, Zenon DEF split_block
  <2>2. QED
    BY <2>1, Zenon
<1>2. CASE ~(remaining <= HDR + 16)
  <2>1. /\ h[b] \in Block /\ b \in Addr /\ h[b].size \in Nat
        /\ h[b].next \in Addr \cup {NULL} /\ End(h, b) \in Addr
    BY EndInside, Zenon DEF HeapType, Block
  <2>2. /\ n \in Addr /\ b < n /\ n + HDR <= End(h, b)
        /\ remaining - HDR \in Nat /\ n # 0 /\ n # NULL /\ n # b
    BY <1>2, <2>1, HeapAssumption DEF Addr, HDR, End, NULL
  <2>3. n \notin DOMAIN h
    BY <2>1, <2>2, HeapAssumption DEF Tiles, HDR, Addr, HeapType, End
  <2>4. DOMAIN g = DOMAIN h \cup {n}
    BY <1>2, Zenon DEF split_block
  <2>5. g[n] = [size |-> remaining - HDR, free |-> TRUE, next |-> h[b].next, prev |-> b]
    BY <1>2, Zenon DEF split_block
  <2>6. g[b] = [h[b] EXCEPT !.size = size, !.next = n]
    BY <1>2, <2>2, Zenon DEF split_block
  <2>7. \A x \in DOMAIN h \ {b} :
           g[x] = IF x = h[b].next THEN [h[x] EXCEPT !.prev = n] ELSE h[x]
    BY <1>2, <2>3, Zenon DEF split_block
  <2>8. /\ g[b].size = size /\ g[b].next = n /\ g[b].free = h[b].free /\ g[b].prev = h[b].prev
        /\ g[b] \in Block
    BY <2>1, <2>2, <2>6, Zenon DEF Block
  <2>9. /\ g[n].size = remaining - HDR /\ g[n].next = h[b].next /\ g[n].free = TRUE
        /\ g[n].prev = b /\ g[n] \in Block
    BY <2>1, <2>2, <2>5 DEF Block
  <2>10. ASSUME NEW x \in DOMAIN h, x # b
         PROVE  /\ g[x].size = h[x].size /\ g[x].next = h[x].next /\ g[x].free = h[x].free
                /\ g[x].prev = IF x = h[b].next THEN n ELSE h[x].prev
                /\ g[x] \in Block
    <3>1. h[x] \in Block
      BY Zenon DEF HeapType
    <3>2. QED
      BY <2>2, <2>7, <2>10, <3>1, ZenonT(30) DEF Block
  <2>11. HeapType(g)
    <3>1. g = [x \in DOMAIN g |-> g[x]]
      BY <1>2, Zenon DEF split_block
    <3>2. \A x \in DOMAIN g : g[x] \in Block
      BY <2>4, <2>8, <2>9, <2>10, Zenon
    <3>3. DOMAIN g \subseteq Addr
      BY <2>2, <2>4, Zenon DEF HeapType
    <3>4. QED
      BY <3>1, <3>2, <3>3, Zenon DEF HeapType
  <2>12. Tiles(g)
    <3>1. 0 \in DOMAIN g /\ g[0].prev = NULL
      <4>1. 0 \in DOMAIN h /\ h[0].prev = NULL /\ h[b].next # 0
        BY <2>1, HeapAssumption DEF Tiles, End, HDR, Addr, NULL
      <4>2. QED
        BY <4>1, <2>4, <2>8, <2>10, Zenon
    <3>2. ASSUME NEW x \in DOMAIN g
          PROVE  /\ g[x].next = NULL => End(g, x) = HEAP_SIZE
                 /\ g[x].next # NULL => /\ g[x].next \in DOMAIN g
                                        /\ g[x].next = End(g, x)
                                        /\ g[g[x].next].prev = x
      <4>1. CASE x = b
        BY <4>1, <2>2, <2>4, <2>8, <2>9, Zenon DEF End
      <4>2. CASE x = n
        <5>1. End(g, n) = End(h, b)
          BY <2>1, <2>2, <2>9 DEF End, Addr, HDR
        <5>2. h[b].next # NULL => h[b].next \in DOMAIN h /\ h[b].next # b
          BY <2>1 DEF Tiles, End, HDR, Addr
        <5>3. h[b].next # NULL => g[h[b].next].prev = n
          BY <5>2, <2>10, Zenon
        <5>4. QED
          BY <4>2, <5>1, <5>2, <5>3, <2>4, <2>9 DEF Tiles
      <4>3. CASE x # b /\ x # n
        <5>1. x \in DOMAIN h
          BY <4>3, <2>4, Zenon
        <5>2. End(g, x) = End(h, x) /\ g[x].next = h[x].next
          BY <5>1, <4>3, <2>10, Zenon DEF End
        <5>3. h[x].next # NULL => h[x].next \in DOMAIN h /\ h[h[x].next].prev = x
                                   /\ h[x].next # h[b].next
          BY <5>1, <4>3 DEF Tiles
        <5>4. h[x].next # NULL => g[h[x].next].prev = x
          BY <5>3, <2>8, <2>10, Zenon
        <5>5. QED
          BY <5>1, <5>2, <5>3, <5>4, <2>4, Zenon DEF Tiles
      <4>4. QED
        BY <4>1, <4>2, <4>3, Zenon
    <3>3. ASSUME NEW x \in DOMAIN g, x # 0
          PROVE  g[x].prev \in DOMAIN g /\ g[g[x].prev].next = x
      <4>1. CASE x = n
        BY <4>1, <2>4, <2>8, <2>9, Zenon
      <4>2. CASE x # n
        <5>1. x \in DOMAIN h /\ h[x].prev \in DOMAIN h /\ h[h[x].prev].next = x
          BY <4>2, <3>3, <2>4, Zenon DEF Tiles
        <5>2. CASE x = h[b].next
          <6>1. x # b
            BY <5>2, <2>1 DEF Tiles, End, HDR, Addr, NULL
          <6>2. QED
            BY <6>1, <5>1, <5>2, <2>4, <2>9, <2>10, Zenon
        <5>3. CASE x # h[b].next
          <6>1. h[x].prev # b
            BY <5>1, <5>3, Zenon
          <6>2. QED
            BY <6>1, <5>1, <5>3, <2>4, <2>8, <2>10
        <5>4. QED
          BY <5>2, <5>3, Zenon
      <4>3. QED
        BY <4>1, <4>2, Zenon
    <3>4. ASSUME NEW x \in DOMAIN g, NEW y \in DOMAIN g, x < y
          PROVE  End(g, x) <= y
      <4>1. /\ End(g, b) = n /\ End(g, n) = End(h, b)
            /\ \A z \in DOMAIN h : z # b => End(g, z) = End(h, z)
        BY <2>1, <2>2, <2>8, <2>9, <2>10 DEF End, Addr, HDR
      <4>2. \A z \in DOMAIN h : z < b => End(h, z) <= b
        BY Zenon DEF Tiles
      <4>3. \A z \in DOMAIN h : b < z => End(h, b) <= z
        BY Zenon DEF Tiles
      <4>4. \A z \in DOMAIN h : z \in Addr /\ End(h, z) \in Addr
        BY EndInside, Zenon
      <4>5. CASE x \in DOMAIN h /\ y \in DOMAIN h
        BY <4>5, <4>1, <4>3, <4>4, <3>4, <2>1, <2>2 DEF Tiles, Addr, HDR
      <4>6. CASE x = n
        BY <4>6, <4>1, <4>2, <4>3, <4>4, <3>4, <2>1, <2>2, <2>4 DEF Addr, HDR
      <4>7. CASE y = n
        BY <4>7, <4>1, <4>2, <4>3, <4>4, <3>4, <2>1, <2>2, <2>4 DEF Addr, HDR
      <4>8. QED
        BY <4>5, <4>6, <4>7, <2>4, Zenon
    <3>5. QED
      BY <3>1, <3>2, <3>3, <3>4, Zenon DEF Tiles
  <2>13. QED
    BY <2>3, <2>4, <2>8, <2>9, <2>10, <2>11, <2>12
<1>3. QED
  BY <1>1, <1>2, Zenon

\* List g is list h after the next block, if free, was merged into b.
Merged(h, b, g) ==
  /\ b \in DOMAIN g /\ DOMAIN g \subseteq DOMAIN h
  /\ \A x \in DOMAIN g : g[x].free = h[x].free
  /\ \A x \in DOMAIN g \ {b} : g[x].size = h[x].size /\ g[x].next = h[x].next
  /\ \/ g = h /\ (h[b].next = NULL \/ ~h[h[b].next].free)
     \/ /\ DOMAIN g = DOMAIN h \ {h[b].next}
        /\ h[b].next \in DOMAIN h /\ h[h[b].next].free
        /\ g[b].next = h[h[b].next].next

(* coalesce_forward keeps the tiling.  All it does is to merge the next    *)
(* block into b if that one is free.                                       *)
LEMMA CoalesceKeeps ==
  ASSUME NEW h, HeapType(h), Tiles(h), NEW b \in DOMAIN h,
         NEW g, g = coalesce_forward(h, b)
  PROVE  HeapType(g) /\ Tiles(g) /\ Merged(h, b, g)
<1> DEFINE n == h[b].next
<1>1. CASE ~(n # NULL /\ h[n].free)
  <2>1. g = h
    BY <1>1, Zenon DEF coalesce_forward
  <2>2. QED
    BY <2>1, <1>1, Zenon DEF Merged
<1>2. CASE n # NULL /\ h[n].free
  <2>1. /\ n \in DOMAIN h /\ n = End(h, b) /\ h[n].prev = b
    BY <1>2, Zenon DEF Tiles
  <2>2. /\ h[b] \in Block /\ b \in Addr /\ h[b].size \in Nat /\ End(h, b) \in Addr
        /\ h[n] \in Block /\ n \in Addr /\ h[n].size \in Nat /\ End(h, n) \in Addr
        /\ h[n].next \in Addr \cup {NULL}
    BY <2>1, EndInside, Zenon DEF HeapType, Block
  <2>3. b < n /\ n # 0 /\ n < End(h, n) /\ h[n].next # b /\ h[n].next # n
    BY <2>1, <2>2, HeapAssumption DEF Tiles, End, HDR, Addr, NULL
  <2>4. DOMAIN g = DOMAIN h \ {n} /\ b \in DOMAIN g
    BY <1>2, <2>2, <2>3, Zenon DEF coalesce_forward, Addr
  <2>5. g[b] = [h[b] EXCEPT !.size = @ + HDR + h[n].size, !.next = h[n].next]
    BY <1>2, <2>2, <2>3, Zenon DEF coalesce_forward, Addr
  <2>6. \A x \in DOMAIN g \ {b} :
           g[x] = IF x = h[n].next THEN [h[x] EXCEPT !.prev = b] ELSE h[x]
    BY <1>2, <2>4, Zenon DEF coalesce_forward
  <2>7. /\ g[b].size = h[b].size + HDR + h[n].size /\ g[b].next = h[n].next
        /\ g[b].free = h[b].free /\ g[b].prev = h[b].prev /\ g[b] \in Block
    <3>1. h[b].size + HDR + h[n].size \in Nat
      BY <2>2 DEF HDR
    <3>2. QED
      BY <2>2, <2>5, <3>1, Zenon DEF Block
  <2>8. ASSUME NEW x \in DOMAIN g, x # b
        PROVE  /\ g[x].size = h[x].size /\ g[x].next = h[x].next /\ g[x].free = h[x].free
               /\ g[x].prev = IF x = h[n].next THEN b ELSE h[x].prev
               /\ g[x] \in Block
    <3>1. h[x] \in Block
      BY <2>4, Zenon DEF HeapType
    <3>2. QED
      BY <2>2, <2>6, <2>8, <3>1 DEF Block
  <2>9. HeapType(g)
    <3>1. g = [x \in DOMAIN g |-> g[x]]
      BY <1>2, Zenon DEF coalesce_forward
    <3>2. \A x \in DOMAIN g : g[x] \in Block
      BY <2>7, <2>8, Zenon
    <3>3. QED
      BY <3>1, <3>2, <2>4, Zenon DEF HeapType
  <2>10. /\ End(g, b) = End(h, n)
         /\ \A z \in DOMAIN g : z # b => End(g, z) = End(h, z)
    BY <2>1, <2>2, <2>7, <2>8 DEF End, Addr, HDR
  <2>11. Tiles(g)
    <3>1. 0 \in DOMAIN g /\ g[0].prev = NULL
      <4>1. 0 \in DOMAIN h /\ h[0].prev = NULL /\ h[n].next # 0
        BY <2>1, <2>2, HeapAssumption DEF Tiles, End, HDR, Addr, NULL
      <4>2. QED
        BY <4>1, <2>3, <2>4, <2>7, <2>8, Zenon
    <3>2. ASSUME NEW x \in DOMAIN g
          PROVE  /\ g[x].next = NULL => End(g, x) = HEAP_SIZE
                 /\ g[x].next # NULL => /\ g[x].next \in DOMAIN g
                                        /\ g[x].next = End(g, x)
                                        /\ g[g[x].next].prev = x
      <4>1. CASE x = b
        <5>1. h[n].next # NULL => h[n].next \in DOMAIN g /\ h[n].next # b
          BY <2>1, <2>3, <2>4, Zenon DEF Tiles
        <5>2. h[n].next # NULL => g[h[n].next].prev = b
          BY <5>1, <2>8, Zenon
        <5>3. QED
          BY <4>1, <5>1, <5>2, <2>1, <2>7, <2>10, Zenon DEF Tiles
      <4>2. CASE x # b
        <5>1. x \in DOMAIN h /\ x # n /\ g[x].next = h[x].next
          BY <4>2, <2>4, <2>8, Zenon
        <5>2. h[x].next # NULL => /\ h[x].next \in DOMAIN h /\ h[h[x].next].prev = x
                                  /\ h[x].next # n /\ h[x].next # h[n].next
          BY <5>1, <4>2, <2>1 DEF Tiles
        <5>3. h[x].next # NULL => g[h[x].next].prev = x
          BY <5>2, <2>4, <2>7, <2>8
        <5>4. QED
          BY <5>1, <5>2, <5>3, <4>2, <2>4, <2>10, Zenon DEF Tiles
      <4>3. QED
        BY <4>1, <4>2, Zenon
    <3>3. ASSUME NEW x \in DOMAIN g, x # 0
          PROVE  g[x].prev \in DOMAIN g /\ g[g[x].prev].next = x
      <4>1. x \in DOMAIN h /\ h[x].prev \in DOMAIN h /\ h[h[x].prev].next = x /\ x # n
        BY <3>3, <2>4, Zenon DEF Tiles
      <4>2. CASE x = h[n].next
        BY <4>1, <4>2, <2>3, <2>4, <2>7, <2>8, Zenon
      <4>3. CASE x # h[n].next
        <5>1. h[x].prev # n /\ h[x].prev # b
          BY <4>1, <4>3, Zenon
        <5>2. QED
          BY <5>1, <4>1, <4>3, <2>4, <2>7, <2>8
      <4>4. QED
        BY <4>2, <4>3, Zenon
    <3>4. ASSUME NEW x \in DOMAIN g, NEW y \in DOMAIN g, x < y
          PROVE  End(g, x) <= y
      <4>1. x \in DOMAIN h /\ y \in DOMAIN h /\ y # n /\ End(h, x) <= y /\ y \in Addr
        BY <3>4, <2>4, Zenon DEF Tiles, HeapType
      <4>2. n < y => End(h, n) <= y
        BY <4>1, <2>1, Zenon DEF Tiles
      <4>3. QED
        BY <4>1, <4>2, <2>1, <2>2, <2>10 DEF Addr
    <3>5. QED
      BY <3>1, <3>2, <3>3, <3>4, Zenon DEF Tiles
  <2>12. QED
    BY <1>2, <2>1, <2>4, <2>7, <2>8, <2>9, <2>11, Zenon DEF Merged
<1>3. QED
  BY <1>1, <1>2, Zenon
-----------------------------------------------------------------------------
\* The inductive invariant: all the properties of the list at once.
HInv == TypeOK /\ Tiling /\ MagicExact /\ Roomy /\ Coalesced

(* align16 never rounds down, so a block of the size searched for holds    *)
(* the request and the magic word.                                         *)
LEMMA Rounding ==
  ASSUME NEW n \in Requests
  PROVE  n \in Nat /\ needed(n) \in Nat /\ needed(n) >= n + MAGIC_SIZE
BY HeapAssumption DEF needed, align16, MAGIC_SIZE

(* The tiling does not depend on the marks.                                *)
LEMMA SameTiling ==
  ASSUME NEW g, NEW k, Tiles(g), DOMAIN k = DOMAIN g,
         \A x \in DOMAIN g : /\ k[x].size = g[x].size /\ k[x].next = g[x].next
                             /\ k[x].prev = g[x].prev
  PROVE  Tiles(k)
<1>1. \A x \in DOMAIN g : End(k, x) = End(g, x)
  BY Zenon DEF End
<1>2. \A x \in DOMAIN g : /\ g[x].next # NULL => g[x].next \in DOMAIN g
                          /\ x # 0 => g[x].prev \in DOMAIN g
  BY Zenon DEF Tiles
<1>3. QED
  BY <1>1, <1>2 DEF Tiles

(* Marking a block changes its mark and nothing else.                      *)
LEMMA MarkKeeps ==
  ASSUME NEW g, HeapType(g), Tiles(g), NEW b \in DOMAIN g, NEW k,
         \/ k = mark_free(g, b)
         \/ k = mark_used(g, b)
  PROVE  /\ HeapType(k) /\ Tiles(k) /\ DOMAIN k = DOMAIN g
         /\ \A x \in DOMAIN g : /\ k[x].size = g[x].size /\ k[x].next = g[x].next
                                /\ k[x].prev = g[x].prev
                                /\ x # b => k[x].free = g[x].free
         /\ k = mark_free(g, b) => k[b].free
         /\ k = mark_used(g, b) => ~k[b].free
<1>1. DOMAIN k = DOMAIN g
  BY Zenon DEF mark_free, mark_used
<1>2. ASSUME NEW x \in DOMAIN g
      PROVE  /\ k[x].size = g[x].size /\ k[x].next = g[x].next /\ k[x].prev = g[x].prev
             /\ x # b => k[x].free = g[x].free
             /\ k[x] \in Block
  <2>1. g[x] \in Block
    BY Zenon DEF HeapType
  <2>2. CASE k = mark_free(g, b)
    BY <2>1, <2>2, Zenon DEF Block, mark_free
  <2>3. CASE k = mark_used(g, b)
    BY <2>1, <2>3, Zenon DEF Block, mark_used
  <2>4. QED
    BY <2>2, <2>3, Zenon
<1>a. /\ k = mark_free(g, b) => k[b].free
      /\ k = mark_used(g, b) => ~k[b].free
  <2>1. g[b] \in Block
    BY Zenon DEF HeapType
  <2>2. QED
    BY <2>1, Zenon DEF Block, mark_free, mark_used
<1>3. HeapType(k)
  <2>1. k = [x \in DOMAIN k |-> k[x]]
    BY Zenon DEF mark_free, mark_used
  <2>2. \A x \in DOMAIN k : k[x] \in Block
    BY <1>1, <1>2, Zenon
  <2>3. DOMAIN k \subseteq Addr
    BY <1>1, Zenon DEF HeapType
  <2>4. QED
    BY <2>1, <2>2, <2>3, Zenon DEF HeapType
<1>4. Tiles(k)
  BY <1>1, <1>2, SameTiling, Zenon
<1>5. QED
  BY <1>1, <1>2, <1>3, <1>4, <1>a, Zenon

(* A nonempty set of addresses has a least one.                            *)
LEMMA LeastExists ==
  ASSUME NEW S \in SUBSET Nat, S # {}
  PROVE  \E p \in S : \A q \in S : p <= q
<1>1. \A R, U, V : IsWellFoundedOn(R, U) /\ V \in SUBSET U /\ V # {}
                    => \E x \in V : \A y \in V : <<y, x>> \notin R
  BY WFMin, Zenon
<1>2. PICK x \in S : \A y \in S : <<y, x>> \notin OpToRel(<, Nat)
  BY <1>1, NatLessThanWellFounded, Zenon
<1>3. \A y \in S : ~(y < x)
  BY <1>2, Zenon DEF OpToRel
<1>4. QED
  BY <1>3

(* find_free_block returns a free block that is large enough, if there is one. *)
LEMMA FoundFree ==
  ASSUME HInv, NEW n \in Requests, Fits(heap, needed(n)) # {}
  PROVE  LET b == find_free_block(heap, needed(n))
         IN  b \in DOMAIN heap /\ heap[b].free /\ heap[b].size >= needed(n)
<1>1. Fits(heap, needed(n)) \in SUBSET Nat
  BY HeapAssumption DEF HInv, TypeOK, Fits, HeapType, Addr
<1>2. find_free_block(heap, needed(n)) \in Fits(heap, needed(n))
  BY <1>1, LeastExists, Zenon DEF find_free_block
<1>3. QED
  BY <1>2, Zenon DEF Fits

(* kmalloc turns a free block that is large enough into an allocated one.  *)
LEMMA MallocStep ==
  ASSUME HInv, NEW n \in Requests, kmalloc(n)
  PROVE  HInv'
<1> DEFINE b == find_free_block(heap, needed(n))
           g == split_block(heap, b, needed(n))
           p == b + HDR + MAGIC_SIZE
<1>0. HeapType(heap) /\ Tiles(heap)
  BY Zenon DEF HInv, TypeOK, Tiling
<1>1. needed(n) \in Nat /\ needed(n) >= n + MAGIC_SIZE /\ n \in Nat
  BY Rounding, Zenon
<1>2. b \in DOMAIN heap /\ heap[b].free /\ heap[b].size >= needed(n)
  BY FoundFree, Zenon DEF kmalloc
<1>3. /\ heap' = mark_used(g, b) /\ magic' = magic \cup {b + HDR}
      /\ live' = [q \in DOMAIN live \cup {p} |-> IF q = p THEN n ELSE live[q]]
      /\ UNCHANGED <<dangling, halted>>
  BY Zenon DEF kmalloc
<1>4. /\ HeapType(g) /\ Tiles(g) /\ DOMAIN heap \subseteq DOMAIN g
      /\ \A x \in DOMAIN heap : g[x].free = heap[x].free
      /\ \A x \in DOMAIN g \ DOMAIN heap : g[x].free /\ g[x].next = heap[b].next
      /\ \A x \in DOMAIN heap \ {b} : g[x].size = heap[x].size /\ g[x].next = heap[x].next
      /\ g[b].size >= needed(n)
  BY <1>0, <1>1, <1>2, SplitKeeps
<1> HIDE DEF b, g
<1>5. /\ HeapType(heap') /\ Tiles(heap') /\ DOMAIN heap' = DOMAIN g
      /\ \A x \in DOMAIN g : /\ heap'[x].size = g[x].size /\ heap'[x].next = g[x].next
                             /\ x # b => heap'[x].free = g[x].free
      /\ ~heap'[b].free
  <2>1. b \in DOMAIN g /\ HeapType(g) /\ Tiles(g)
    BY <1>2, <1>4, Zenon
  <2>2. QED
    BY <2>1, <1>3, MarkKeeps
<1>6. /\ b \in Addr /\ b + HDR \in Addr /\ p \in Addr
      /\ b + HDR + needed(n) <= HEAP_SIZE
  BY <1>0, <1>1, <1>2, EndInside, HeapAssumption DEF End, Addr, HDR, MAGIC_SIZE
<1>7. TypeOK'
  BY <1>3, <1>5, <1>6, Zenon DEF HInv, TypeOK
<1>8. {x \in DOMAIN heap' : ~heap'[x].free} = {x \in DOMAIN heap : ~heap[x].free} \cup {b}
  BY <1>2, <1>4, <1>5, Zenon
<1>9. MagicExact'
  <2>1. DOMAIN live' = DOMAIN live \cup {p} /\ p - MAGIC_SIZE = b + HDR
    BY <1>3, <1>6 DEF MAGIC_SIZE, HDR, Addr
  <2>2. QED
    BY <1>3, <1>8, <2>1 DEF HInv, MagicExact
<1>10. Roomy'
  <2> SUFFICES ASSUME NEW q \in DOMAIN live'
               PROVE  /\ q - MAGIC_SIZE - HDR \in DOMAIN heap'
                      /\ heap'[q - MAGIC_SIZE - HDR].size >= live'[q] + MAGIC_SIZE
    BY Zenon DEF Roomy
  <2>1. CASE q = p
    <3>1. q - MAGIC_SIZE - HDR = b /\ live'[q] = n
      BY <2>1, <1>3, <1>6 DEF MAGIC_SIZE, HDR, Addr
    <3>2. heap'[b].size \in Nat /\ heap'[b].size = g[b].size /\ b \in DOMAIN heap'
      BY <1>2, <1>4, <1>5, Zenon DEF HeapType, Block
    <3>3. QED
      BY <3>1, <3>2, <1>1, <1>4 DEF MAGIC_SIZE
  <2>2. CASE q # p
    <3>1. q \in DOMAIN live /\ live'[q] = live[q]
      BY <2>2, <1>3, Zenon
    <3> DEFINE x == q - MAGIC_SIZE - HDR
    <3>2. x \in DOMAIN heap /\ heap[x].size >= live[q] + MAGIC_SIZE
      BY <3>1, Zenon DEF HInv, Roomy
    <3>3. x # b
      BY <2>2, <3>1, <1>6 DEF HInv, TypeOK, Addr, MAGIC_SIZE, HDR
    <3> HIDE DEF x
    <3>4. x \in DOMAIN heap' /\ heap'[x].size = heap[x].size
      BY <3>2, <3>3, <1>4, <1>5, Zenon
    <3>5. QED
      BY <3>1, <3>2, <3>4, Zenon DEF x
  <2>3. QED
    BY <2>1, <2>2, Zenon
<1>11. Coalesced'
  <2> SUFFICES ASSUME NEW x \in DOMAIN heap', heap'[x].free, heap'[x].next # NULL
               PROVE  ~heap'[heap'[x].next].free
    BY Zenon DEF Coalesced
  <2>1. x # b /\ heap'[x].next \in DOMAIN heap'
    BY <1>5, Zenon DEF Tiles
  <2>2. CASE x \in DOMAIN heap
    <3>1. heap[x].free /\ heap'[x].next = heap[x].next
      BY <2>1, <2>2, <1>4, <1>5, Zenon
    <3>2. heap[x].next \in DOMAIN heap /\ ~heap[heap[x].next].free
      BY <3>1, <2>2, <1>0, Zenon DEF HInv, Coalesced, Tiles
    <3>3. QED
      BY <3>1, <3>2, <1>4, <1>5
  <2>3. CASE x \notin DOMAIN heap
    <3>1. heap'[x].next = heap[b].next
      BY <2>3, <1>4, <1>5, Zenon
    <3>2. heap[b].next \in DOMAIN heap /\ ~heap[heap[b].next].free
      BY <3>1, <1>0, <1>2, Zenon DEF HInv, Coalesced, Tiles
    <3>3. QED
      BY <3>1, <3>2, <1>4, <1>5
  <2>4. QED
    BY <2>2, <2>3, Zenon
<1>12. QED
  BY <1>5, <1>7, <1>9, <1>10, <1>11, Zenon DEF HInv, Tiling

(* A pointer that kfree accepts is that of a live allocation.              *)
LEMMA FreedIsLive ==
  ASSUME HInv, NEW p \in Pointers, p - MAGIC_SIZE \in magic
  PROVE  /\ p \in DOMAIN live /\ p \in Addr
         /\ p - MAGIC_SIZE - HDR \in DOMAIN heap
         /\ ~heap[p - MAGIC_SIZE - HDR].free
<1>1. p \in Addr
  BY Zenon DEF HInv, TypeOK, Pointers
<1>2. PICK q \in DOMAIN live : p - MAGIC_SIZE = q - MAGIC_SIZE
  BY DEF HInv, MagicExact
<1>3. q \in Addr
  BY Zenon DEF HInv, TypeOK
<1>4. p = q
  BY <1>1, <1>2, <1>3 DEF Addr, MAGIC_SIZE
<1>5. PICK b \in DOMAIN heap : p - MAGIC_SIZE = b + HDR /\ ~heap[b].free
  BY Zenon DEF HInv, MagicExact
<1>6. b \in Addr
  BY Zenon DEF HInv, TypeOK, HeapType
<1>7. p - MAGIC_SIZE - HDR = b
  BY <1>1, <1>5, <1>6 DEF Addr, MAGIC_SIZE, HDR
<1>8. QED
  BY <1>1, <1>4, <1>5, <1>7, Zenon

(* kfree frees the block of p, and the two coalescing steps leave no two   *)
(* free neighbours.                                                        *)
LEMMA FreeStep ==
  ASSUME HInv, NEW p \in Pointers, kfree(p)
  PROVE  HInv'
<1> DEFINE b == p - MAGIC_SIZE - HDR
           m == mark_free(heap, b)
           f == coalesce_forward(m, b)
           k == coalesce_back(f, b)
<1>0. HeapType(heap) /\ Tiles(heap) /\ Coalesced
  BY Zenon DEF HInv, TypeOK, Tiling
<1>1. p \in DOMAIN live /\ p \in Addr /\ b \in DOMAIN heap /\ ~heap[b].free
  BY FreedIsLive, Zenon DEF kfree
<1>2. /\ heap' = k /\ magic' = magic \ {p - MAGIC_SIZE}
      /\ live' = [q \in DOMAIN live \ {p} |-> live[q]]
      /\ dangling' \in {dangling, p} /\ UNCHANGED halted
  BY Zenon DEF kfree, magic_cleared
<1>3. /\ HeapType(m) /\ Tiles(m) /\ DOMAIN m = DOMAIN heap
      /\ \A x \in DOMAIN heap : /\ m[x].size = heap[x].size /\ m[x].next = heap[x].next
                                /\ x # b => m[x].free = heap[x].free
      /\ m[b].free
  BY <1>0, <1>1, MarkKeeps
<1>f. f = coalesce_forward(m, b) /\ k = coalesce_back(f, b)
  BY Zenon
<1> HIDE DEF b, m, f, k
<1>4. HeapType(f) /\ Tiles(f) /\ Merged(m, b, f)
  BY <1>1, <1>3, <1>f, CoalesceKeeps, Zenon
<1> USE DEF Merged
<1>5. \A x \in DOMAIN m \ DOMAIN f : m[x].free
  BY <1>4, Zenon
<1>6. f[b].next # NULL => f[b].next \in DOMAIN f /\ ~f[f[b].next].free
  <2>1. SUFFICES ASSUME f[b].next # NULL PROVE ~f[f[b].next].free
    BY <1>4, Zenon DEF Tiles
  <2>2. f[b].next \in DOMAIN f
    BY <2>1, <1>4, Zenon DEF Tiles
  <2>3. CASE f = m
    BY <2>1, <2>3, <1>4, Zenon
  <2>4. CASE f # m
    <3> DEFINE n == m[b].next
    <3>1. n \in DOMAIN heap /\ m[n].free /\ f[b].next = m[n].next /\ n # b
      BY <2>4, <1>1, <1>3, <1>4, Zenon
    <3>2. heap[n].free /\ heap[n].next = f[b].next
      BY <3>1, <1>3, Zenon
    <3>3. ~heap[f[b].next].free /\ f[b].next \in DOMAIN heap /\ f[b].next # b
      <4>1. f[b].next \in DOMAIN heap /\ ~heap[f[b].next].free
        BY <2>1, <2>2, <3>1, <3>2, <1>0, <1>3, <1>4, Zenon DEF Coalesced
      <4>2. f[b].next # b
        BY <2>1, <1>4, EndInside DEF Tiles, End, HDR, Addr
      <4>3. QED
        BY <4>1, <4>2, Zenon
    <3>4. QED
      BY <2>2, <3>3, <1>3, <1>4, Zenon
  <2>5. QED
    BY <2>3, <2>4, Zenon
<1>7. ASSUME NEW x \in DOMAIN f, x # b, f[x].free, f[x].next # NULL, f[x].next # b
      PROVE  f[x].next \in DOMAIN f /\ ~f[f[x].next].free
  <2>1. f[x].next = heap[x].next /\ heap[x].free /\ x \in DOMAIN heap
    BY <1>7, <1>3, <1>4, Zenon
  <2>2. f[x].next \in DOMAIN f
    BY <1>7, <1>4, Zenon DEF Tiles
  <2>3. ~heap[f[x].next].free
    BY <2>1, <1>7, <1>0, Zenon DEF Coalesced
  <2>4. QED
    BY <2>2, <2>3, <1>7, <1>3, <1>4, Zenon
<1> DEFINE r == f[b].prev
<1>8. /\ HeapType(k) /\ Tiles(k) /\ DOMAIN k \subseteq DOMAIN f
      /\ \A x \in DOMAIN k : f[x].free = k[x].free
      /\ \A x \in DOMAIN f \ DOMAIN k : f[x].free
      /\ \A x \in DOMAIN k : ~f[x].free => k[x].size = f[x].size
      /\ \A x \in DOMAIN k : k[x].free /\ k[x].next # NULL => ~k[k[x].next].free
  <2>1. f[b].free
    BY <1>3, <1>4, Zenon
  <2>2. CASE ~(r # NULL /\ f[r].free)
    <3>1. k = f
      BY <2>2, <1>f, Zenon DEF coalesce_back
    <3>2. ASSUME NEW x \in DOMAIN f, f[x].free, f[x].next # NULL
          PROVE  ~f[f[x].next].free
      <4>1. CASE x = b
        BY <4>1, <3>2, <1>6, Zenon
      <4>2. CASE x # b /\ f[x].next # b
        BY <4>2, <3>2, <1>7, Zenon
      <4>3. CASE f[x].next = b
        <5>1. r = x
          BY <4>3, <3>2, <1>4, Zenon DEF Tiles
        <5>2. x # NULL
          BY <1>4 DEF HeapType, Addr, NULL
        <5>3. QED
          BY <5>1, <5>2, <2>2, <3>2, Zenon
      <4>4. QED
        BY <4>1, <4>2, <4>3, Zenon
    <3>3. QED
      BY <3>1, <3>2, <1>4, Zenon
  <2>3. CASE r # NULL /\ f[r].free
    <3>1. k = coalesce_forward(f, r)
      BY <2>3, <1>f, Zenon DEF coalesce_back
    <3>2. r \in DOMAIN f /\ f[r].next = b
      <4>1. b # 0
        BY <2>3, <1>4, Zenon DEF Tiles
      <4>2. QED
        BY <4>1, <1>4, Zenon DEF Tiles
    <3> HIDE DEF r
    <3>3. HeapType(k) /\ Tiles(k) /\ Merged(f, r, k)
      <4> HIDE DEF Merged
      <4>1. QED
        BY <3>1, <3>2, <1>4, CoalesceKeeps, Zenon
    <3>4. DOMAIN k = DOMAIN f \ {b} /\ k[r].next = f[b].next /\ b # NULL
      BY <3>2, <3>3, <2>1, <1>4 DEF HeapType, Addr, NULL
    <3>5. ASSUME NEW x \in DOMAIN k, k[x].free, k[x].next # NULL
          PROVE  ~k[k[x].next].free
      <4>1. k[x].next \in DOMAIN k
        BY <3>3, <3>5, Zenon DEF Tiles
      <4>2. CASE x = r
        BY <4>1, <4>2, <3>3, <3>4, <3>5, <1>6, Zenon
      <4>3. CASE x # r
        <5>1. f[x].next = k[x].next /\ x \in DOMAIN f /\ x # b /\ f[x].next # b /\ f[x].free
          BY <4>1, <4>3, <3>3, <3>4, <3>5, Zenon
        <5>2. QED
          BY <5>1, <4>1, <3>3, <3>5, <1>7, Zenon
      <4>4. QED
        BY <4>2, <4>3, Zenon
    <3>6. QED
      BY <3>3, <3>4, <3>5, <2>1, <2>3, Zenon
  <2>4. QED
    BY <2>2, <2>3, Zenon
<1>9. {x \in DOMAIN heap' : ~heap'[x].free} = {x \in DOMAIN heap : ~heap[x].free} \ {b}
  <2>1. {x \in DOMAIN m : ~m[x].free} = {x \in DOMAIN heap : ~heap[x].free} \ {b}
    BY <1>1, <1>3, Zenon
  <2>2. {x \in DOMAIN f : ~f[x].free} = {x \in DOMAIN m : ~m[x].free}
    BY <1>4, <1>5, Zenon
  <2>3. {x \in DOMAIN k : ~k[x].free} = {x \in DOMAIN f : ~f[x].free}
    BY <1>8, Zenon
  <2>4. QED
    BY <2>1, <2>2, <2>3, <1>2, Zenon
<1>10. p - MAGIC_SIZE = b + HDR /\ b \in Addr
  BY <1>0, <1>1 DEF b, Addr, MAGIC_SIZE, HDR, HeapType
<1>11. TypeOK'
  BY <1>1, <1>2, <1>8, Zenon DEF HInv, TypeOK
<1>12. MagicExact'
  <2>1. DOMAIN live' = DOMAIN live \ {p}
    BY <1>2, Zenon
  <2>2. {q - MAGIC_SIZE : q \in DOMAIN live \ {p}} = magic \ {p - MAGIC_SIZE}
    <3>1. \A q \in DOMAIN live : q \in Addr
      BY Zenon DEF HInv, TypeOK
    <3>2. QED
      BY <3>1, <1>1 DEF HInv, MagicExact, Addr, MAGIC_SIZE
  <2>3. {x + HDR : x \in {y \in DOMAIN heap : ~heap[y].free} \ {b}} = magic \ {b + HDR}
    <3>1. \A x \in DOMAIN heap : x \in Addr
      BY <1>0, Zenon DEF HeapType
    <3>2. QED
      BY <3>1, <1>10 DEF HInv, MagicExact, Addr, HDR
  <2>4. QED
    BY <2>1, <2>2, <2>3, <1>2, <1>9, <1>10, Zenon DEF MagicExact
<1>13. Roomy'
  <2> SUFFICES ASSUME NEW q \in DOMAIN live'
               PROVE  /\ q - MAGIC_SIZE - HDR \in DOMAIN heap'
                      /\ heap'[q - MAGIC_SIZE - HDR].size >= live'[q] + MAGIC_SIZE
    BY Zenon DEF Roomy
  <2> DEFINE x == q - MAGIC_SIZE - HDR
  <2>1. q \in DOMAIN live /\ q # p /\ live'[q] = live[q] /\ q \in Addr
    BY <1>2, Zenon DEF HInv, TypeOK
  <2>2. x \in DOMAIN heap /\ heap[x].size >= live[q] + MAGIC_SIZE
    BY <2>1, Zenon DEF HInv, Roomy
  <2>3. x # b
    BY <2>1, <1>1 DEF b, Addr, MAGIC_SIZE, HDR
  <2>4. ~heap[x].free
    <3>1. PICK y \in DOMAIN heap : q - MAGIC_SIZE = y + HDR /\ ~heap[y].free
      BY <2>1, Zenon DEF HInv, MagicExact
    <3>2. y = x
      BY <3>1, <2>1, <1>0 DEF HeapType, Addr, MAGIC_SIZE, HDR
    <3>3. QED
      BY <3>1, <3>2, Zenon
  <2> HIDE DEF x
  <2>5. x \in DOMAIN k /\ k[x].size = heap[x].size
    <3>1. ~m[x].free /\ m[x].size = heap[x].size
      BY <2>2, <2>3, <2>4, <1>3, Zenon
    <3>2. x \in DOMAIN f /\ ~f[x].free /\ f[x].size = heap[x].size
      BY <3>1, <2>2, <2>3, <1>3, <1>4, <1>5, Zenon
    <3>3. QED
      BY <3>2, <1>8, Zenon
  <2>6. QED
    BY <2>1, <2>2, <2>5, <1>2, Zenon DEF x
<1>14. Coalesced'
  BY <1>2, <1>8, Zenon DEF Coalesced
<1>15. QED
  BY <1>2, <1>8, <1>11, <1>12, <1>13, <1>14, Zenon DEF HInv, Tiling
-----------------------------------------------------------------------------
(* heap_init establishes the invariant.                                    *)
LEMMA HeapInit == Init => HInv
<1> SUFFICES ASSUME Init PROVE HInv
  BY Zenon
<1>1. /\ DOMAIN heap = {0} /\ heap[0].size = HEAP_SIZE - HDR /\ heap[0].free
      /\ heap[0].next = NULL /\ heap[0].prev = NULL
  BY Zenon DEF Init, heap_init
<1>2. HeapType(heap)
  <2>1. heap[0] \in Block
    BY HeapAssumption DEF Init, heap_init, Block, HDR
  <2>2. QED
    BY <1>1, <2>1, HeapAssumption DEF Init, heap_init, HeapType, Addr
<1>3. Tiling
  BY <1>1, HeapAssumption DEF Tiling, Tiles, End, HDR, NULL
<1>4. TypeOK
  BY <1>2, Zenon DEF Init, TypeOK
<1>5. MagicExact /\ Roomy
  BY <1>1, Zenon DEF Init, MagicExact, Roomy
<1>6. Coalesced
  BY <1>1, Zenon DEF Coalesced
<1>7. QED
  BY <1>3, <1>4, <1>5, <1>6, Zenon DEF HInv

(* A call that panics, like no call at all, leaves the heap as it is.      *)
LEMMA SameHeap ==
  ASSUME HInv, UNCHANGED <<heap, magic, live, dangling>>, halted' \subseteq CPUs
  PROVE  HInv'
<1>1. TypeOK'
  BY Zenon DEF HInv, TypeOK
<1>2. Tiling' /\ MagicExact' /\ Roomy' /\ Coalesced'
  BY Zenon DEF HInv, Tiling, MagicExact, Roomy, Coalesced
<1>3. QED
  BY <1>1, <1>2, Zenon DEF HInv

(* Every call keeps the invariant.                                         *)
LEMMA HeapStep == HInv /\ [Next]_vars => HInv'
<1> SUFFICES ASSUME HInv, [Next]_vars PROVE HInv'
  BY Zenon
<1>1. ASSUME NEW n \in Requests, kmalloc(n) PROVE HInv'
  BY <1>1, MallocStep, Zenon
<1>2. ASSUME NEW p \in Pointers, kfree(p) PROVE HInv'
  BY <1>2, FreeStep, Zenon
<1>3. ASSUME NEW c \in CPUs, Halt(c) PROVE HInv'
  BY <1>3, SameHeap, Zenon DEF Halt, HInv, TypeOK
<1>4. CASE UNCHANGED vars
  BY <1>4, SameHeap, Zenon DEF vars, HInv, TypeOK
<1>5. QED
  BY <1>1, <1>2, <1>3, <1>4, Zenon DEF Next, kmalloc_oom, kfree_corrupt

(* HInv holds in every state of the heap.                                  *)
LEMMA HeapInvariance == Spec => []HInv
BY HeapInit, HeapStep, PTL DEF Spec

(* The block list tiles the arena after every call, whatever its size and  *)
(* the requests: split_block and coalesce_forward lose and overlap nothing. *)
THEOREM ArenaTiled == Spec => []Tiling
<1>1. HInv => Tiling
  BY Zenon DEF HInv
<1>2. QED
  BY <1>1, HeapInvariance, PTL

(* BLOCK_MAGIC is found exactly in front of live allocations, so kfree     *)
(* panics on every pointer that is not one.                                *)
THEOREM MagicTold == Spec => []MagicExact
<1>1. HInv => MagicExact
  BY Zenon DEF HInv
<1>2. QED
  BY <1>1, HeapInvariance, PTL

(* No two neighbours are both free: the two calls of coalesce_forward in   *)
(* kfree are enough.                                                       *)
THEOREM NoFreeNeighbours == Spec => []Coalesced
<1>1. HInv => Coalesced
  BY Zenon DEF HInv
<1>2. QED
  BY <1>1, HeapInvariance, PTL

(* When all is freed the arena is one free block again, as heap_self_test  *)
(* expects: an allocated block would carry a live magic, a free block      *)
(* would have a free neighbour.                                            *)
THEOREM FullRecovery == Spec => []Recovered
<1>1. ASSUME HInv, DOMAIN live = {} PROVE heap = heap_init
  <2>1. HeapType(heap) /\ Tiles(heap) /\ Coalesced /\ MagicExact
    BY <1>1, Zenon DEF HInv, TypeOK, Tiling
  <2>2. \A b \in DOMAIN heap : heap[b].free
    <3>1. magic = {}
      BY <1>1, <2>1, Zenon DEF MagicExact
    <3>2. QED
      BY <2>1, <3>1, Zenon DEF MagicExact
  <2>3. 0 \in DOMAIN heap /\ heap[0].next = NULL /\ heap[0].prev = NULL
    BY <2>1, <2>2, Zenon DEF Tiles, Coalesced
  <2>4. heap[0] \in Block /\ heap[0].size = HEAP_SIZE - HDR
    BY <2>1, <2>3, HeapAssumption DEF HeapType, Block, Tiles, End, HDR
  <2>5. DOMAIN heap = {0}
    <3>1. SUFFICES ASSUME NEW x \in DOMAIN heap, x # 0 PROVE FALSE
      BY <2>3, Zenon
    <3>2. x \in Addr /\ End(heap, x) \in Addr /\ heap[x].size \in Nat
      BY <2>1, EndInside, Zenon
    <3>3. End(heap, 0) <= x
      BY <2>1, <2>3, <3>1, <3>2 DEF Tiles, Addr
    <3>4. QED
      BY <2>4, <3>2, <3>3, HeapAssumption DEF End, Addr, HDR
  <2>6. heap[0] = [size |-> HEAP_SIZE - HDR, free |-> TRUE, next |-> NULL, prev |-> NULL]
    BY <2>2, <2>3, <2>4, Zenon DEF Block
  <2>7. QED
    BY <2>1, <2>5, <2>6, Zenon DEF heap_init, HeapType
<1>2. HInv => Recovered
  BY <1>1, Zenon DEF Recovered
<1>3. QED
  BY <1>2, HeapInvariance, PTL

(* The bytes kmalloc hands out lie in the arena and in no other live       *)
(* allocation.                                                             *)
LEMMA MallocPromise ==
  ASSUME HInv, HInv', NEW n \in Requests, kmalloc(n)
  PROVE  \E p \in DOMAIN live' : A!Alloc(p, n)
<1> DEFINE b == find_free_block(heap, needed(n))
           p == b + HDR + MAGIC_SIZE
<1>1. /\ live' = [q \in DOMAIN live \cup {p} |-> IF q = p THEN n ELSE live[q]]
      /\ UNCHANGED halted
  BY Zenon DEF kmalloc
<1>2. HeapType(heap') /\ Tiles(heap') /\ Roomy'
  BY Zenon DEF HInv, TypeOK, Tiling
<1>a. b \in Addr /\ heap[b].free
  BY FoundFree, Zenon DEF kmalloc, HInv, TypeOK, HeapType
<1>b. p - MAGIC_SIZE - HDR = b
  BY <1>a DEF Addr, MAGIC_SIZE, HDR
<1> HIDE DEF p, b
<1>3. p \in DOMAIN live' /\ live'[p] = n
  BY <1>1, Zenon
<1>4. ASSUME NEW q \in DOMAIN live'
      PROVE  /\ q - MAGIC_SIZE - HDR \in DOMAIN heap' /\ q \in Addr
             /\ live'[q] \in Nat /\ q + live'[q] <= End(heap', q - MAGIC_SIZE - HDR)
             /\ End(heap', q - MAGIC_SIZE - HDR) \in Addr
  <2>1. q \in Addr /\ live'[q] \in Nat
    BY HeapAssumption, Zenon DEF HInv, TypeOK
  <2>2. /\ q - MAGIC_SIZE - HDR \in DOMAIN heap'
        /\ heap'[q - MAGIC_SIZE - HDR].size >= live'[q] + MAGIC_SIZE
    BY <1>2, Zenon DEF Roomy
  <2>3. /\ heap'[q - MAGIC_SIZE - HDR].size \in Nat
        /\ End(heap', q - MAGIC_SIZE - HDR) \in Addr
    BY <2>2, <1>2, EndInside, Zenon
  <2>4. QED
    BY <2>1, <2>2, <2>3 DEF End, Addr, MAGIC_SIZE, HDR
<1>5. p + n <= HEAP_SIZE
  BY <1>3, <1>4, HeapAssumption DEF Addr
<1>6. ASSUME NEW q \in DOMAIN live PROVE A!Apart(p, n, q, live[q])
  <2>1. q \in DOMAIN live'
    BY <1>1, Zenon
  <2>2. q # p
    <3>1. q \in Pointers /\ q - MAGIC_SIZE \in magic
      BY DEF HInv, TypeOK, MagicExact, Pointers, Addr, NULL
    <3>2. ~heap[q - MAGIC_SIZE - HDR].free
      BY <3>1, FreedIsLive, Zenon
    <3>3. QED
      BY <3>2, <1>a, <1>b, Zenon
  <2>3. live'[q] = live[q]
    BY <2>2, <1>1, Zenon
  <2> DEFINE x == p - MAGIC_SIZE - HDR
             y == q - MAGIC_SIZE - HDR
  <2>4. /\ x \in DOMAIN heap' /\ p \in Addr /\ n \in Nat /\ p + n <= End(heap', x)
        /\ y \in DOMAIN heap' /\ q \in Addr /\ live[q] \in Nat
        /\ q + live[q] <= End(heap', y)
        /\ End(heap', x) \in Addr /\ End(heap', y) \in Addr
    BY <2>1, <2>3, <1>3, <1>4, Zenon
  <2>5. x < y \/ y < x
    BY <2>2, <2>4 DEF Addr, MAGIC_SIZE, HDR
  <2>6. End(heap', x) <= y \/ End(heap', y) <= x
    BY <2>4, <2>5, <1>2, Zenon DEF Tiles
  <2>7. QED
    BY <2>4, <2>6 DEF A!Apart, Addr, MAGIC_SIZE, HDR
<1>7. QED
  BY <1>1, <1>3, <1>5, <1>6, Zenon DEF A!Alloc

(* kmalloc and kfree implement Allocator, for every arena size and set of  *)
(* requests: what a caller was given is its own until it frees it.         *)
THEOREM KeepsPromise == Spec => Promise
<1>1. Init => A!AInit
  BY Zenon DEF Init, A!AInit
<1>2. HInv /\ HInv' /\ [Next]_vars => [A!ANext]_<<live, halted>>
  <2> SUFFICES ASSUME HInv, HInv', Next PROVE A!ANext \/ UNCHANGED <<live, halted>>
    BY Zenon DEF vars
  <2>1. ASSUME NEW n \in Requests, kmalloc(n) PROVE A!ANext
    BY <2>1, MallocPromise, Zenon DEF A!ANext
  <2>2. ASSUME NEW p \in Pointers, kfree(p) PROVE A!ANext
    <3>1. p \in DOMAIN live
      BY <2>2, FreedIsLive, Zenon DEF kfree
    <3>2. A!Free(p)
      BY <2>2, Zenon DEF kfree, A!Free
    <3>3. QED
      BY <3>1, <3>2, Zenon DEF A!ANext
  <2>3. ASSUME NEW c \in CPUs, Halt(c) PROVE A!ANext
    BY <2>3, Zenon DEF Halt, A!ANext, A!Panic
  <2>4. QED
    BY <2>1, <2>2, <2>3, Zenon DEF Next, kmalloc_oom, kfree_corrupt
<1>3. QED
  BY <1>1, <1>2, HeapInvariance, PTL DEF Spec, Promise, A!ASpec

-----------------------------------------------------------------------------
(* Nobody is in a call at first.                                           *)
LEMMA CallInit == LockedInit => CallInv /\ H!Init
<1> SUFFICES ASSUME LockedInit PROVE CallInv /\ H!Init
  BY Zenon
<1>1. /\ owner = None /\ step = [c \in CPUs |-> "idle"] /\ halted = {}
      /\ arg = [c \in CPUs |-> 0] /\ blk = [c \in CPUs |-> 0]
  BY Zenon DEF LockedInit, Init
<1>2. CallInv
  BY <1>1, NoneAssumption, Zenon DEF CallInv, Steps
<1>3. {c \in CPUs : step[c] = "panic"} = {}
  BY <1>1, Zenon
<1>4. H!Init
  BY <1>1, <1>3, Zenon DEF LockedInit, Init, H!Init, heap_init, H!heap_init, HDR, H!HDR, NULL, H!NULL
<1>5. QED
  BY <1>2, <1>4, Zenon

(* CPU c goes to place to of its call and keeps the lock.                  *)
Inside(c, to) ==
  /\ step[c] \notin {"idle", "panic"} /\ to \in Steps \ {"idle", "panic"}
  /\ step' = [step EXCEPT ![c] = to]
  /\ UNCHANGED <<live, dangling, halted, owner, arg, before>>
  /\ blk' = [d \in CPUs |-> blk'[d]]

(* Such a step changes nothing that others can see.                        *)
LEMMA InsideStep ==
  ASSUME CallInv, NEW c \in CPUs, NEW to, Inside(c, to), Begun(c)'
  PROVE  CallInv' /\ UNCHANGED H!vars
<1> USE DEF Inside
<1>1. owner = c /\ owner' = c /\ c # None /\ step'[c] = to
  BY NoneAssumption, Zenon DEF CallInv
<1>2. Begun(owner)'
  BY <1>1, Zenon DEF Begun
<1>3. \A d \in CPUs : /\ step'[d] \in {"idle", "panic"} <=> owner' # d
                      /\ step'[d] # "idle" => d \notin halted'
                      /\ step'[d] = "panic" <=> step[d] = "panic"
  BY <1>1, Zenon DEF CallInv
<1>4. owner' \in CPUs \cup {None} /\ step' \in [CPUs -> Steps] /\ arg' = [d \in CPUs |-> arg'[d]]
  BY <1>1, Zenon DEF CallInv
<1>5. CallInv'
  BY <1>2, <1>3, <1>4, Zenon DEF CallInv
<1>6. {d \in CPUs : step'[d] = "panic"} = {d \in CPUs : step[d] = "panic"}
  BY <1>3, Zenon
<1>7. UNCHANGED H!vars
  BY <1>1, <1>6, Zenon DEF H!vars
<1>8. QED
  BY <1>5, <1>7, Zenon

(* Taking the lock keeps the heap that others see.                         *)
LEMMA EnterStep ==
  ASSUME CallInv, NEW c \in CPUs, NEW first \in {"find", "check"}, NEW a, enter(c, first, a),
         first = "find" => a \in Requests, first = "check" => a \in Pointers
  PROVE  CallInv' /\ UNCHANGED H!vars
<1>1. /\ owner = None /\ owner' = c /\ c # None /\ c \notin halted /\ step[c] = "idle"
      /\ step' = [step EXCEPT ![c] = first] /\ arg' = [arg EXCEPT ![c] = a]
      /\ before' = [heap |-> heap, magic |-> magic]
      /\ UNCHANGED <<heap, magic, live, dangling, halted, blk>>
  BY NoneAssumption, Zenon DEF enter, spin_acquire, Go, callers
<1>2. step'[c] = first /\ arg'[c] = a /\ step' \in [CPUs -> Steps] /\ arg' = [d \in CPUs |-> arg'[d]]
  BY <1>1, Zenon DEF CallInv, Steps
<1>3. before'.heap = heap /\ before'.magic = magic
  BY <1>1, Zenon
<1>4. Pointers' = Pointers
  BY <1>1, Zenon DEF Pointers
<1>5. Begun(c)'
  BY <1>1, <1>2, <1>3, <1>4, Zenon DEF Begun
<1>6. Begun(owner)'
  BY <1>5, <1>1, Zenon DEF Begun
<1>7. \A d \in CPUs : /\ step'[d] \in {"idle", "panic"} <=> owner' # d
                      /\ step'[d] # "idle" => d \notin halted'
                      /\ step'[d] = "panic" <=> step[d] = "panic"
  BY <1>1, NoneAssumption, Zenon DEF CallInv
<1>8. owner' \in CPUs \cup {None} /\ blk' = [d \in CPUs |-> blk'[d]]
  BY <1>1, Zenon DEF CallInv
<1>9. CallInv'
  BY <1>2, <1>6, <1>7, <1>8, Zenon DEF CallInv
<1>10. {d \in CPUs : step'[d] = "panic"} = {d \in CPUs : step[d] = "panic"}
  BY <1>7, Zenon
<1>11. UNCHANGED H!vars
  BY <1>1, <1>3, <1>10, Zenon DEF H!vars
<1>12. QED
  BY <1>9, <1>11, Zenon

(* CPU c releases the lock, back from its call or on the way to neka_panic. *)
Leaving(c, to) ==
  /\ step[c] \notin {"idle", "panic"} /\ spin_release
  /\ to \in {"idle", "panic"} /\ step' = [step EXCEPT ![c] = to]
  /\ UNCHANGED <<heap, magic, halted, arg, blk, before>>

(* Whoever releases the lock owned it and was not stopped, and no other    *)
(* CPU stops with it.                                                      *)
LEMMA LeaveStep ==
  ASSUME CallInv, NEW c \in CPUs, NEW to, Leaving(c, to)
  PROVE  /\ CallInv' /\ owner = c /\ owner # None /\ owner' = None /\ c \notin halted
         /\ {d \in CPUs : step'[d] = "panic"} =
              {d \in CPUs : step[d] = "panic"} \cup (IF to = "panic" THEN {c} ELSE {})
         /\ step[c] # "panic" /\ Begun(c)
<1> USE DEF Leaving
<1>1. owner = c /\ c # None /\ owner' = None /\ c \notin halted /\ step'[c] = to /\ step[c] # "panic"
  BY NoneAssumption, Zenon DEF CallInv, spin_release
<1>2. \A d \in CPUs : /\ step'[d] \in {"idle", "panic"} <=> owner' # d
                      /\ step'[d] # "idle" => d \notin halted'
                      /\ d # c => step'[d] = step[d]
  BY <1>1, NoneAssumption, Zenon DEF CallInv
<1>3. owner' \in CPUs \cup {None} /\ step' \in [CPUs -> Steps]
  BY <1>1, Zenon DEF CallInv, Steps
<1>4. arg' = [d \in CPUs |-> arg'[d]] /\ blk' = [d \in CPUs |-> blk'[d]]
  BY Zenon DEF CallInv
<1>5. CallInv'
  BY <1>1, <1>2, <1>3, <1>4, Zenon DEF CallInv
<1>6. Begun(c)
  BY <1>1, Zenon DEF CallInv
<1>7. QED
  BY <1>1, <1>2, <1>5, <1>6, Zenon

(* Every step between the lock and the unlock does its part of the call.   *)
LEMMA CallStep ==
  ASSUME CallInv, NEW c \in CPUs,
         \/ kmalloc_find(c) \/ kmalloc_split(c) \/ kmalloc_take(c)
         \/ kfree_check(c) \/ kfree_mark(c) \/ kfree_forward(c) \/ kfree_back(c)
  PROVE  CallInv' /\ UNCHANGED H!vars
<1>1. ASSUME step[c] \notin {"idle", "panic"} PROVE Begun(c)
  BY <1>1, NoneAssumption, Zenon DEF CallInv
<1>2. step \in [CPUs -> Steps] /\ blk = [d \in CPUs |-> blk[d]]
  BY Zenon DEF CallInv
<1>3. CASE kmalloc_find(c)
  <2> DEFINE to == IF Fits(heap, needed(arg[c])) = {} THEN "oom" ELSE "split"
  <2>1. /\ step[c] = "find" /\ step' = [step EXCEPT ![c] = to]
        /\ blk' = IF Fits(heap, needed(arg[c])) = {} THEN blk
                  ELSE [blk EXCEPT ![c] = find_free_block(heap, needed(arg[c]))]
        /\ UNCHANGED <<heap, magic, live, dangling, halted, owner, arg, before>>
    BY <1>3, Zenon DEF kmalloc_find, Go, callers
  <2>2. step'[c] = to /\ blk' = [d \in CPUs |-> blk'[d]] /\ to \in Steps \ {"idle", "panic"}
    BY <2>1, <1>2, Zenon DEF Steps
  <2>3. Fits(heap, needed(arg[c])) # {} => blk'[c] = find_free_block(heap, needed(arg[c]))
    BY <2>1, <1>2, Zenon
  <2>4. Begun(c) /\ Pointers' = Pointers
    BY <1>1, <2>1, Zenon DEF Pointers
  <2>5. heap = before.heap /\ magic = before.magic /\ arg[c] \in Requests
    BY <2>1, <2>4, Zenon DEF Begun
  <2>6. Begun(c)'
    BY <2>1, <2>2, <2>3, <2>5 DEF Begun
  <2>7. Inside(c, to)
    BY <2>1, <2>2, Zenon DEF Inside
  <2>8. QED
    BY <2>6, <2>7, InsideStep, Zenon
<1>4. CASE kmalloc_split(c)
  <2>1. /\ step[c] = "split" /\ step' = [step EXCEPT ![c] = "take"]
        /\ heap' = split_block(heap, blk[c], needed(arg[c]))
        /\ UNCHANGED <<magic, live, dangling, halted, owner, arg, blk, before>>
    BY <1>4, Zenon DEF kmalloc_split, Go, callers
  <2>2. step'[c] = "take" /\ blk' = [d \in CPUs |-> blk'[d]] /\ Begun(c)
    BY <2>1, <1>1, <1>2, Zenon
  <2>3. /\ arg[c] \in Requests /\ heap = before.heap /\ magic = before.magic
        /\ Fits(before.heap, needed(arg[c])) # {}
        /\ blk[c] = find_free_block(before.heap, needed(arg[c]))
    BY <2>1, <2>2, Zenon DEF Begun
  <2>4. Begun(c)'
    BY <2>1, <2>2, <2>3, Zenon DEF Begun
  <2>5. Inside(c, "take")
    BY <2>1, <2>2, Zenon DEF Inside, Steps
  <2>6. QED
    BY <2>4, <2>5, InsideStep, Zenon
<1>5. CASE kmalloc_take(c)
  <2>1. /\ step[c] = "take" /\ step' = [step EXCEPT ![c] = "given"]
        /\ heap' = mark_used(heap, blk[c]) /\ magic' = magic \cup {blk[c] + HDR}
        /\ UNCHANGED <<live, dangling, halted, owner, arg, blk, before>>
    BY <1>5, Zenon DEF kmalloc_take, Go, callers
  <2>2. step'[c] = "given" /\ blk' = [d \in CPUs |-> blk'[d]] /\ Begun(c)
    BY <2>1, <1>1, <1>2, Zenon
  <2>3. /\ arg[c] \in Requests /\ magic = before.magic
        /\ heap = split_block(before.heap, blk[c], needed(arg[c]))
        /\ Fits(before.heap, needed(arg[c])) # {}
        /\ blk[c] = find_free_block(before.heap, needed(arg[c]))
    BY <2>1, <2>2, Zenon DEF Begun
  <2>4. Begun(c)'
    BY <2>1, <2>2, <2>3, Zenon DEF Begun
  <2>5. Inside(c, "given")
    BY <2>1, <2>2, Zenon DEF Inside, Steps
  <2>6. QED
    BY <2>4, <2>5, InsideStep, Zenon
<1>6. CASE kfree_check(c)
  <2> DEFINE to == IF arg[c] - MAGIC_SIZE \in magic THEN "mark" ELSE "corrupt"
  <2>1. /\ step[c] = "check" /\ step' = [step EXCEPT ![c] = to]
        /\ blk' = [blk EXCEPT ![c] = arg[c] - MAGIC_SIZE - HDR]
        /\ UNCHANGED <<heap, magic, live, dangling, halted, owner, arg, before>>
    BY <1>6, Zenon DEF kfree_check, Go, callers
  <2>2. /\ step'[c] = to /\ blk' = [d \in CPUs |-> blk'[d]] /\ to \in Steps \ {"idle", "panic"}
        /\ blk'[c] = arg[c] - MAGIC_SIZE - HDR /\ Begun(c) /\ Pointers' = Pointers
    BY <2>1, <1>1, <1>2, Zenon DEF Steps, Pointers
  <2>3. arg[c] \in Pointers /\ heap = before.heap /\ magic = before.magic
    BY <2>1, <2>2, Zenon DEF Begun
  <2>4. Begun(c)'
    BY <2>1, <2>2, <2>3 DEF Begun
  <2>5. Inside(c, to)
    BY <2>1, <2>2, Zenon DEF Inside
  <2>6. QED
    BY <2>4, <2>5, InsideStep, Zenon
<1>7. CASE kfree_mark(c)
  <2>1. /\ step[c] = "mark" /\ step' = [step EXCEPT ![c] = "forward"]
        /\ heap' = mark_free(heap, blk[c]) /\ magic' = magic \ {arg[c] - MAGIC_SIZE}
        /\ UNCHANGED <<live, dangling, halted, owner, arg, blk, before>>
    BY <1>7, Zenon DEF kfree_mark, Go, callers, magic_cleared
  <2>2. step'[c] = "forward" /\ blk' = [d \in CPUs |-> blk'[d]] /\ Begun(c) /\ Pointers' = Pointers
    BY <2>1, <1>1, <1>2, Zenon DEF Pointers
  <2>3. /\ arg[c] \in Pointers /\ heap = before.heap /\ magic = before.magic
        /\ arg[c] - MAGIC_SIZE \in before.magic /\ blk[c] = arg[c] - MAGIC_SIZE - HDR
    BY <2>1, <2>2, Zenon DEF Begun
  <2>4. Begun(c)'
    BY <2>1, <2>2, <2>3, Zenon DEF Begun
  <2>5. Inside(c, "forward")
    BY <2>1, <2>2, Zenon DEF Inside, Steps
  <2>6. QED
    BY <2>4, <2>5, InsideStep, Zenon
<1>8. CASE kfree_forward(c)
  <2>1. /\ step[c] = "forward" /\ step' = [step EXCEPT ![c] = "back"]
        /\ heap' = coalesce_forward(heap, blk[c])
        /\ UNCHANGED <<magic, live, dangling, halted, owner, arg, blk, before>>
    BY <1>8, Zenon DEF kfree_forward, Go, callers
  <2>2. step'[c] = "back" /\ blk' = [d \in CPUs |-> blk'[d]] /\ Begun(c) /\ Pointers' = Pointers
    BY <2>1, <1>1, <1>2, Zenon DEF Pointers
  <2>3. /\ arg[c] \in Pointers /\ magic = before.magic \ {arg[c] - MAGIC_SIZE}
        /\ arg[c] - MAGIC_SIZE \in before.magic /\ blk[c] = arg[c] - MAGIC_SIZE - HDR
        /\ heap = mark_free(before.heap, blk[c])
    BY <2>1, <2>2, Zenon DEF Begun
  <2>4. Begun(c)'
    BY <2>1, <2>2, <2>3, Zenon DEF Begun
  <2>5. Inside(c, "back")
    BY <2>1, <2>2, Zenon DEF Inside, Steps
  <2>6. QED
    BY <2>4, <2>5, InsideStep, Zenon
<1>9. CASE kfree_back(c)
  <2>1. /\ step[c] = "back" /\ step' = [step EXCEPT ![c] = "freed"]
        /\ heap' = coalesce_back(heap, blk[c])
        /\ UNCHANGED <<magic, live, dangling, halted, owner, arg, blk, before>>
    BY <1>9, Zenon DEF kfree_back, Go, callers
  <2>2. step'[c] = "freed" /\ blk' = [d \in CPUs |-> blk'[d]] /\ Begun(c) /\ Pointers' = Pointers
    BY <2>1, <1>1, <1>2, Zenon DEF Pointers
  <2>3. /\ arg[c] \in Pointers /\ magic = before.magic \ {arg[c] - MAGIC_SIZE}
        /\ arg[c] - MAGIC_SIZE \in before.magic /\ blk[c] = arg[c] - MAGIC_SIZE - HDR
        /\ heap = coalesce_forward(mark_free(before.heap, blk[c]), blk[c])
    BY <2>1, <2>2, Zenon DEF Begun
  <2>4. Begun(c)'
    BY <2>1, <2>2, <2>3, Zenon DEF Begun
  <2>5. Inside(c, "freed")
    BY <2>1, <2>2, Zenon DEF Inside, Steps
  <2>6. QED
    BY <2>4, <2>5, InsideStep, Zenon
<1>10. QED
  BY <1>3, <1>4, <1>5, <1>6, <1>7, <1>8, <1>9, Zenon

(* The unlock at the end of kmalloc is the whole call for the others.      *)
LEMMA MallocLeaves ==
  ASSUME CallInv, NEW c \in CPUs, kmalloc_unlock(c)
  PROVE  CallInv' /\ H!Next
<1>1. /\ step[c] = "given" /\ step' = [step EXCEPT ![c] = "idle"] /\ spin_release
      /\ live' = [q \in DOMAIN live \cup {blk[c] + HDR + MAGIC_SIZE} |->
                    IF q = blk[c] + HDR + MAGIC_SIZE THEN arg[c] ELSE live[q]]
      /\ UNCHANGED <<heap, magic, dangling, halted, arg, blk, before>>
  BY Zenon DEF kmalloc_unlock, Go
<1>2. /\ CallInv' /\ owner = c /\ owner # None /\ owner' = None /\ c \notin halted
      /\ {d \in CPUs : step'[d] = "panic"} =
           {d \in CPUs : step[d] = "panic"} \cup (IF "idle" = "panic" THEN {c} ELSE {})
      /\ step[c] # "panic" /\ Begun(c)
  <2>1. Leaving(c, "idle")
    BY <1>1, Zenon DEF Leaving
  <2>2. QED
    BY <2>1, LeaveStep, Zenon
<1>3. {d \in CPUs : step'[d] = "panic"} = {d \in CPUs : step[d] = "panic"}
  BY <1>2, Zenon
<1>4. /\ arg[c] \in Requests /\ Fits(before.heap, needed(arg[c])) # {}
      /\ blk[c] = find_free_block(before.heap, needed(arg[c]))
      /\ heap = mark_used(split_block(before.heap, blk[c], needed(arg[c])), blk[c])
      /\ magic = before.magic \cup {blk[c] + HDR}
  BY <1>1, <1>2, Zenon DEF Begun
<1> DEFINE n == arg[c]
<1>5. /\ H!find_free_block(before.heap, H!needed(n)) = blk[c]
      /\ H!Fits(before.heap, H!needed(n)) # {}
  BY <1>4, Zenon DEF H!find_free_block, find_free_block, H!Fits, Fits, H!needed, needed,
     H!align16, align16, H!MAGIC_SIZE, MAGIC_SIZE
<1>6. /\ heap = H!mark_used(H!split_block(before.heap, blk[c], H!needed(n)), blk[c])
      /\ H!HDR = HDR /\ H!MAGIC_SIZE = MAGIC_SIZE
  BY <1>4, Zenon DEF H!mark_used, mark_used, H!split_block, split_block, H!needed, needed,
     H!align16, align16, H!MAGIC_SIZE, MAGIC_SIZE, H!HDR, HDR
<1>7. H!kmalloc(n)
  BY <1>1, <1>2, <1>3, <1>4, <1>5, <1>6, Zenon DEF H!kmalloc
<1>8. c \in CPUs \ (halted \cup {d \in CPUs : step[d] = "panic"})
  BY <1>2, Zenon
<1>9. H!Next
  BY <1>4, <1>7, <1>8, Zenon DEF H!Next
<1>10. QED
  BY <1>2, <1>9, Zenon

(* The same for the unlock at the end of kfree.                            *)
LEMMA FreeLeaves ==
  ASSUME CallInv, NEW c \in CPUs, kfree_unlock(c)
  PROVE  CallInv' /\ H!Next
<1>1. /\ step[c] = "freed" /\ step' = [step EXCEPT ![c] = "idle"] /\ spin_release
      /\ live' = [q \in DOMAIN live \ {arg[c]} |-> live[q]] /\ dangling' \in {dangling, arg[c]}
      /\ UNCHANGED <<heap, magic, halted, arg, blk, before>>
  BY Zenon DEF kfree_unlock, Go
<1>2. /\ CallInv' /\ owner = c /\ owner # None /\ owner' = None /\ c \notin halted
      /\ {d \in CPUs : step'[d] = "panic"} =
           {d \in CPUs : step[d] = "panic"} \cup (IF "idle" = "panic" THEN {c} ELSE {})
      /\ step[c] # "panic" /\ Begun(c)
  <2>1. Leaving(c, "idle")
    BY <1>1, Zenon DEF Leaving
  <2>2. QED
    BY <2>1, LeaveStep, Zenon
<1>3. {d \in CPUs : step'[d] = "panic"} = {d \in CPUs : step[d] = "panic"}
  BY <1>2, Zenon
<1>4. /\ arg[c] \in Pointers /\ arg[c] - MAGIC_SIZE \in before.magic
      /\ blk[c] = arg[c] - MAGIC_SIZE - HDR /\ magic = before.magic \ {arg[c] - MAGIC_SIZE}
      /\ heap = coalesce_back(coalesce_forward(mark_free(before.heap, blk[c]), blk[c]), blk[c])
  BY <1>1, <1>2, Zenon DEF Begun
<1> DEFINE p == arg[c]
<1>5. /\ p \in H!Pointers /\ p - H!MAGIC_SIZE \in before.magic
      /\ blk[c] = p - H!MAGIC_SIZE - H!HDR /\ magic = before.magic \ {p - H!MAGIC_SIZE}
  BY <1>4, Zenon DEF H!Pointers, Pointers, H!MAGIC_SIZE, MAGIC_SIZE, H!HDR, HDR, H!NULL, NULL
<1>6. heap = H!coalesce_back(H!coalesce_forward(H!mark_free(before.heap, blk[c]), blk[c]), blk[c])
  BY <1>4, Zenon DEF H!coalesce_back, coalesce_back, H!coalesce_forward, coalesce_forward,
     H!mark_free, mark_free, H!NULL, NULL, H!HDR, HDR
<1>7. H!kfree(p)
  BY <1>1, <1>2, <1>3, <1>5, <1>6, Zenon DEF H!kfree, H!magic_cleared
<1>8. c \in CPUs \ (halted \cup {d \in CPUs : step[d] = "panic"})
  BY <1>2, Zenon
<1>9. H!Next
  BY <1>5, <1>7, <1>8, Zenon DEF H!Next
<1>10. QED
  BY <1>2, <1>9, Zenon

(* An error path stops its CPU, for the others, when it unlocks.           *)
LEMMA ErrorLeaves ==
  ASSUME CallInv, NEW c \in CPUs, error_unlock(c)
  PROVE  CallInv' /\ H!Next
<1>1. /\ step[c] \in {"oom", "corrupt"} /\ step' = [step EXCEPT ![c] = "panic"] /\ spin_release
      /\ UNCHANGED <<heap, magic, live, dangling, halted, arg, blk, before>>
  BY Zenon DEF error_unlock, Go, callers
<1>2. /\ CallInv' /\ owner = c /\ owner # None /\ owner' = None /\ c \notin halted
      /\ {d \in CPUs : step'[d] = "panic"} =
           {d \in CPUs : step[d] = "panic"} \cup (IF "panic" = "panic" THEN {c} ELSE {})
      /\ step[c] # "panic" /\ Begun(c)
  <2>1. Leaving(c, "panic")
    BY <1>1, Zenon DEF Leaving
  <2>2. QED
    BY <2>1, LeaveStep, Zenon
<1>3. halted' \cup {d \in CPUs : step'[d] = "panic"} =
        (halted \cup {d \in CPUs : step[d] = "panic"}) \cup {c}
  BY <1>1, <1>2, Zenon
<1>4. heap = before.heap /\ magic = before.magic
  BY <1>1, <1>2, Zenon DEF Begun
<1>5. H!Halt(c)
  BY <1>1, <1>2, <1>3, <1>4, Zenon DEF H!Halt
<1>6. c \in CPUs \ (halted \cup {d \in CPUs : step[d] = "panic"})
  BY <1>2, Zenon
<1>7. CASE step[c] = "oom"
  <2>1. arg[c] \in Requests /\ Fits(before.heap, needed(arg[c])) = {}
    BY <1>2, <1>7, Zenon DEF Begun
  <2>2. H!Fits(before.heap, H!needed(arg[c])) = {}
    BY <2>1, Zenon DEF H!Fits, Fits, H!needed, needed, H!align16, align16, H!MAGIC_SIZE, MAGIC_SIZE
  <2>3. H!kmalloc_oom(c, arg[c])
    BY <1>2, <1>5, <2>2, Zenon DEF H!kmalloc_oom
  <2>4. QED
    BY <1>2, <1>6, <2>1, <2>3, Zenon DEF H!Next
<1>8. CASE step[c] = "corrupt"
  <2>1. arg[c] \in Pointers /\ arg[c] - MAGIC_SIZE \notin before.magic
    BY <1>2, <1>8, Zenon DEF Begun
  <2>2. arg[c] \in H!Pointers /\ arg[c] - H!MAGIC_SIZE \notin before.magic
    BY <2>1, Zenon DEF H!Pointers, Pointers, H!MAGIC_SIZE, MAGIC_SIZE, H!NULL, NULL
  <2>3. H!kfree_corrupt(c, arg[c])
    BY <1>2, <1>5, <2>2, Zenon DEF H!kfree_corrupt
  <2>4. QED
    BY <1>2, <1>6, <2>2, <2>3, Zenon DEF H!Next
<1>9. QED
  BY <1>1, <1>7, <1>8, Zenon

(* neka_panic itself is no news to the others.                             *)
LEMMA PanicStep ==
  ASSUME CallInv, NEW c \in CPUs, neka_panic(c)
  PROVE  CallInv' /\ UNCHANGED H!vars
<1>1. /\ step[c] = "panic" /\ step' = [step EXCEPT ![c] = "idle"] /\ halted' = halted \cup {c}
      /\ UNCHANGED <<heap, magic, live, dangling, owner, arg, blk, before>>
  BY Zenon DEF neka_panic, Go
<1>2. owner # c /\ step'[c] = "idle" /\ \A d \in CPUs \ {c} : step'[d] = step[d]
  BY <1>1, Zenon DEF CallInv
<1>3. \A d \in CPUs : /\ step'[d] \in {"idle", "panic"} <=> owner' # d
                      /\ step'[d] # "idle" => d \notin halted'
  BY <1>1, <1>2, Zenon DEF CallInv
<1>4. step' \in [CPUs -> Steps]
  BY <1>1, Zenon DEF CallInv, Steps
<1>5. ASSUME owner # None PROVE Begun(owner)'
  <2>1. owner \in CPUs \ {c} /\ Begun(owner)
    BY <1>2, <1>5, Zenon DEF CallInv
  <2>2. step'[owner] = step[owner] /\ Pointers' = Pointers
    BY <1>1, <1>2, <2>1, Zenon DEF Pointers
  <2>3. QED
    BY <1>1, <2>1, <2>2, Zenon DEF Begun
<1>6. /\ owner' \in CPUs \cup {None} /\ owner' = owner
      /\ arg' = [d \in CPUs |-> arg'[d]] /\ blk' = [d \in CPUs |-> blk'[d]]
  BY <1>1, Zenon DEF CallInv
<1>7. CallInv'
  BY <1>3, <1>4, <1>5, <1>6, Zenon DEF CallInv
<1>8. halted' \cup {d \in CPUs : step'[d] = "panic"} = halted \cup {d \in CPUs : step[d] = "panic"}
  BY <1>1, <1>2, Zenon
<1>9. UNCHANGED H!vars
  BY <1>1, <1>8, Zenon DEF H!vars
<1>10. QED
  BY <1>7, <1>9, Zenon

(* heap.c under the big lock, step by step on any number of CPUs,          *)
(* implements the Heap whose kmalloc and kfree are one action each: the    *)
(* list that is "not yet consistent" between two steps is never seen.      *)
THEOREM CallsAtomic == LockedSpec => AtomicCalls
<1>1. CallInv /\ [LockedNext]_lockedVars => CallInv' /\ [H!Next]_(H!vars)
  <2>1. ASSUME CallInv, LockedNext PROVE CallInv' /\ (H!Next \/ UNCHANGED H!vars)
    <3>1. PICK c \in CPUs :
            \/ \E n \in Requests : kmalloc_lock(c, n)
            \/ \E p \in Pointers : kfree_lock(c, p)
            \/ kmalloc_find(c) \/ kmalloc_split(c) \/ kmalloc_take(c) \/ kmalloc_unlock(c)
            \/ kfree_check(c) \/ kfree_mark(c) \/ kfree_forward(c) \/ kfree_back(c)
            \/ kfree_unlock(c) \/ error_unlock(c) \/ neka_panic(c)
      BY <2>1, Zenon DEF LockedNext
    <3>2. ASSUME NEW n \in Requests, kmalloc_lock(c, n) PROVE CallInv' /\ UNCHANGED H!vars
      <4>1. enter(c, "find", n) /\ "find" # "check"
        BY <3>2, Zenon DEF kmalloc_lock
      <4>2. QED
        BY <2>1, <4>1, EnterStep, Zenon
    <3>3. ASSUME NEW p \in Pointers, kfree_lock(c, p) PROVE CallInv' /\ UNCHANGED H!vars
      <4>1. enter(c, "check", p) /\ "check" # "find"
        BY <3>3, Zenon DEF kfree_lock
      <4>2. QED
        BY <2>1, <4>1, EnterStep, Zenon
    <3>4. QED
      BY <2>1, <3>1, <3>2, <3>3, CallStep, MallocLeaves, FreeLeaves, ErrorLeaves, PanicStep, Zenon
  <2>2. ASSUME CallInv, UNCHANGED lockedVars PROVE CallInv' /\ UNCHANGED H!vars
    <3>1. UNCHANGED <<heap, magic, live, dangling, halted, owner, step, arg, blk, before>>
      BY <2>2, Zenon DEF lockedVars
    <3>2. Pointers' = Pointers
      BY <3>1, Zenon DEF Pointers
    <3>3. owner # None => Begun(owner)'
      BY <2>2, <3>1, <3>2, Zenon DEF CallInv, Begun
    <3>4. CallInv'
      BY <2>2, <3>1, <3>3, Zenon DEF CallInv
    <3>5. UNCHANGED H!vars
      BY <3>1, Zenon DEF H!vars
    <3>6. QED
      BY <3>4, <3>5, Zenon
  <2>3. QED
    BY <2>1, <2>2, Zenon
<1>2. QED
  BY <1>1, CallInit, PTL DEF LockedSpec, AtomicCalls, H!Spec
=============================================================================
