----------------------------- MODULE Allocator -----------------------------
(***************************************************************************)
(* What kmalloc and kfree promise their callers: an allocation of n bytes  *)
(* lies in the arena, overlaps no other live one, and stays until someone  *)
(* frees its address.  A request for more than there is, or a kfree of an  *)
(* address where nothing is live, stops the CPU that asked.  No one is     *)
(* kept from freeing an address that has been handed out to another since. *)
(***************************************************************************)
EXTENDS Naturals

CONSTANTS HEAP_SIZE, Requests, CPUs

VARIABLES live,      \* the size asked for, by address, of each live allocation
          halted     \* the CPUs that stopped in neka_panic

Apart(p, n, q, m) == p + n <= q \/ q + m <= p

AInit == live = [p \in {} |-> 0] /\ halted = {}

Alloc(p, n) ==
  /\ p + n <= HEAP_SIZE
  /\ \A q \in DOMAIN live : Apart(p, n, q, live[q])
  /\ live' = [q \in DOMAIN live \cup {p} |-> IF q = p THEN n ELSE live[q]]
  /\ UNCHANGED halted

Free(p) ==
  /\ live' = [q \in DOMAIN live \ {p} |-> live[q]]
  /\ UNCHANGED halted

Panic(c) == halted' = halted \cup {c} /\ UNCHANGED live

ANext ==
  \/ \E p \in DOMAIN live', n \in Requests : Alloc(p, n)
  \/ \E p \in DOMAIN live : Free(p)
  \/ \E c \in CPUs : Panic(c)

ASpec == AInit /\ [][ANext]_<<live, halted>>
=============================================================================
