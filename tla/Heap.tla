-------------------------------- MODULE Heap --------------------------------
(***************************************************************************)
(* The kernel heap of heap.c: first fit over a doubly linked list of all   *)
(* blocks in address order, splitting on allocation, coalescing on free,   *)
(* and a magic word in front of every payload.                             *)
(*                                                                         *)
(* Addresses are byte offsets into heap_arena.  heap maps the address of   *)
(* each block header in the list to the header; magic is the set of        *)
(* addresses that hold BLOCK_MAGIC (the callers' own data is taken never   *)
(* to look like it).  kmalloc and kfree run under NKern_Lock, so each is   *)
(* one action here; HeapLocked takes them apart.  live and dangling are    *)
(* the callers' view: the requests not yet freed, and a pointer already    *)
(* freed that some caller may pass to kfree again.                         *)
(***************************************************************************)
EXTENDS Integers

CONSTANTS HEAP_SIZE,  \* bytes in the arena, 1 MB in the code
          Requests,   \* the sizes callers ask for
          CPUs

NULL == -1
HDR == 32             \* sizeof(block_t)
MAGIC_SIZE == 4       \* sizeof(uint32_t)

ASSUME HeapAssumption ==
  /\ HEAP_SIZE \in Nat /\ HEAP_SIZE > HDR
  /\ Requests \subseteq Nat \ {0}

VARIABLES heap, magic, live, dangling, halted

vars == <<heap, magic, live, dangling, halted>>

Addr == 0..HEAP_SIZE
Block == [size : Nat, free : BOOLEAN, next : Addr \cup {NULL}, prev : Addr \cup {NULL}]

HeapType(h) == DOMAIN h \subseteq Addr /\ h \in [DOMAIN h -> Block]

\* Every header, mark and pointer lies in the arena.
TypeOK ==
  /\ HeapType(heap)
  /\ magic \subseteq Addr
  /\ DOMAIN live \subseteq Addr /\ live \in [DOMAIN live -> Requests]
  /\ dangling \in Addr \cup {NULL}
  /\ halted \subseteq CPUs

\* heap_init: one free block.
heap_init == [b \in {0} |-> [size |-> HEAP_SIZE - HDR, free |-> TRUE,
                             next |-> NULL, prev |-> NULL]]

Init ==
  /\ heap = heap_init
  /\ magic = {}
  /\ live = [p \in {} |-> 0]
  /\ dangling = NULL
  /\ halted = {}
-----------------------------------------------------------------------------
Mut_align16(n) == (n \div 16) * 16
align16(n) == ((n + 15) \div 16) * 16

\* The first block of the list that is free and large enough.  The list is in
\* address order (Tiling), so the first is the lowest.
Fits(h, size) == {b \in DOMAIN h : h[b].free /\ h[b].size >= size}
find_free_block(h, size) ==
  CHOOSE b \in Fits(h, size) : \A x \in Fits(h, size) : b <= x

split_block(h, b, size) ==
  LET remaining == h[b].size - size
      n == b + HDR + size
      N == [size |-> remaining - HDR, free |-> TRUE, next |-> h[b].next, prev |-> b]
  IN IF remaining <= HDR + 16 THEN h
     ELSE [x \in DOMAIN h \cup {n} |->
             IF x = n THEN N
             ELSE IF x = b THEN [h[b] EXCEPT !.size = size, !.next = n]
             ELSE IF x = h[b].next THEN [h[x] EXCEPT !.prev = n]
             ELSE h[x]]

Mut_coalesce_forward(h, b) ==
  LET n == h[b].next IN
  IF n # NULL /\ h[n].free
    THEN [x \in DOMAIN h \ {n} |->
            IF x = b THEN [h[b] EXCEPT !.size = @ + HDR + h[n].size, !.next = h[n].next]
            ELSE h[x]]
    ELSE h
coalesce_forward(h, b) ==
  LET n == h[b].next IN
  IF n # NULL /\ h[n].free
    THEN [x \in DOMAIN h \ {n} |->
            IF x = b THEN [h[b] EXCEPT !.size = @ + HDR + h[n].size, !.next = h[n].next]
            ELSE IF x = h[n].next THEN [h[x] EXCEPT !.prev = b]
            ELSE h[x]]
    ELSE h

\* The second coalescing of kfree, with the previous block.
Mut_coalesce_back(h, b) == h
coalesce_back(h, b) ==
  LET p == h[b].prev IN
  IF p # NULL /\ h[p].free THEN coalesce_forward(h, p) ELSE h

\* b->free = 0 and b->free = 1.
mark_used(h, b) == [h EXCEPT ![b].free = FALSE]
mark_free(h, b) == [h EXCEPT ![b].free = TRUE]

\* neka_panic stops the CPU that called it and no other.
Halt(c) == halted' = halted \cup {c} /\ UNCHANGED <<heap, magic, live, dangling>>
-----------------------------------------------------------------------------
needed(n) == align16(n) + MAGIC_SIZE

kmalloc(n) ==
  LET b == find_free_block(heap, needed(n))
      p == b + HDR + MAGIC_SIZE
  IN
  /\ Fits(heap, needed(n)) # {}
  /\ heap' = mark_used(split_block(heap, b, needed(n)), b)
  /\ magic' = magic \cup {b + HDR}
  /\ live' = [q \in DOMAIN live \cup {p} |-> IF q = p THEN n ELSE live[q]]
  /\ UNCHANGED <<dangling, halted>>

\* No block is large enough: neka_panic.
kmalloc_oom(c, n) == Fits(heap, needed(n)) = {} /\ Halt(c)

Mut_magic_cleared(p) == magic
magic_cleared(p) == magic \ {p - MAGIC_SIZE}

\* kfree of a pointer that kmalloc returned at some time.
kfree(p) ==
  LET b == p - MAGIC_SIZE - HDR IN
  /\ p - MAGIC_SIZE \in magic
  /\ heap' = coalesce_back(coalesce_forward(mark_free(heap, b), b), b)
  /\ magic' = magic_cleared(p)
  /\ live' = [q \in DOMAIN live \ {p} |-> live[q]]
  /\ dangling' \in {dangling, p}
  /\ UNCHANGED halted

kfree_corrupt(c, p) == p - MAGIC_SIZE \notin magic /\ Halt(c)

\* What a caller passes to kfree; kfree(NULL) returns at once.
Pointers == (DOMAIN live \cup {dangling}) \ {NULL}

Next ==
  \E c \in CPUs \ halted :
    \/ \E n \in Requests : kmalloc(n) \/ kmalloc_oom(c, n)
    \/ \E p \in Pointers : kfree(p) \/ kfree_corrupt(c, p)

Spec == Init /\ [][Next]_vars
-----------------------------------------------------------------------------
End(h, b) == b + HDR + h[b].size

\* List h tiles the arena.
Tiles(h) ==
  /\ 0 \in DOMAIN h /\ h[0].prev = NULL
  /\ \A b \in DOMAIN h :
       /\ h[b].next = NULL => End(h, b) = HEAP_SIZE
       /\ h[b].next # NULL => /\ h[b].next \in DOMAIN h
                              /\ h[b].next = End(h, b)
                              /\ h[h[b].next].prev = b
       /\ b # 0 => h[b].prev \in DOMAIN h /\ h[h[b].prev].next = b
       /\ \A x \in DOMAIN h : b < x => End(h, b) <= x

\* The blocks tile the arena: following next from heap_arena visits blocks that
\* end where the next begins, prev is the inverse of next, the last block ends
\* with the arena, and no header lies inside another block (split_block and
\* coalesce_forward).
Tiling == Tiles(heap)

\* BLOCK_MAGIC stands exactly in front of the live allocations, and these are
\* exactly the blocks not marked free.  So kfree accepts a pointer if and only if
\* its address is that of a live allocation: a second kfree panics, also after
\* the block was coalesced or split, until kmalloc hands the address out again.
\* From then on the stale pointer passes for the new one (heap.c:146 compares
\* nothing but the word) and kfree releases the block of another caller.
MagicExact ==
  /\ magic = {p - MAGIC_SIZE : p \in DOMAIN live}
  /\ magic = {b + HDR : b \in {x \in DOMAIN heap : ~heap[x].free}}

\* Every block is as large as its owner asked for, magic included.
Roomy ==
  \A p \in DOMAIN live :
    /\ p - MAGIC_SIZE - HDR \in DOMAIN heap
    /\ heap[p - MAGIC_SIZE - HDR].size >= live[p] + MAGIC_SIZE

\* No two neighbours are both free.
Coalesced ==
  \A b \in DOMAIN heap :
    heap[b].free /\ heap[b].next # NULL => ~heap[heap[b].next].free

\* What heap_self_test looks for: once everything is freed, in whatever order,
\* the arena is one free block again.
Recovered == DOMAIN live = {} => heap = heap_init

\* kmalloc and kfree keep the promise of Allocator.
A == INSTANCE Allocator
Promise == A!ASpec
=============================================================================
