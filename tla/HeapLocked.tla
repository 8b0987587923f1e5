----------------------------- MODULE HeapLocked -----------------------------
(***************************************************************************)
(* kmalloc and kfree step by step on several CPUs.  NKern_Lock is here     *)
(* what it does for callers that hold no lock yet, as those of the heap:   *)
(* interrupts are masked, so that the code on a CPU is not switched, and   *)
(* spin_acquire tests and sets big_kernel_lock, the word all CPUs share.   *)
(* Nesting, and the reschedules that use the same word, are in Sched64.    *)
(* Between the steps the list is what heap.c calls not yet consistent; the *)
(* lock makes each call look like one action of Heap.                      *)
(***************************************************************************)
EXTENDS Heap

CONSTANT None
ASSUME NoneAssumption == None \notin CPUs

VARIABLES owner,  \* the CPU that set big_kernel_lock; None while it is clear
          step,   \* where each CPU is in kmalloc, kfree or neka_panic
          arg,    \* the size or the pointer it was called with
          blk,    \* the local variable b
          before  \* heap and magic as the last NKern_Lock found them

lockedVars == <<heap, magic, live, dangling, halted, owner, step, arg, blk, before>>
callers == <<live, dangling, halted>>

LockedInit ==
  /\ Init
  /\ owner = None
  /\ step = [c \in CPUs |-> "idle"]
  /\ arg = [c \in CPUs |-> 0]
  /\ blk = [c \in CPUs |-> 0]
  /\ before = [heap |-> heap, magic |-> magic]

Go(c, from, to) == step[c] = from /\ step' = [step EXCEPT ![c] = to]

\* The word of nkern_lock.c; spin_release does not ask who set it.
Mut_spin_acquire(c) == owner' = c
spin_acquire(c) == owner = None /\ owner' = c
spin_release == owner' = None

enter(c, first, a) ==
  /\ c \notin halted
  /\ spin_acquire(c)
  /\ Go(c, "idle", first)
  /\ arg' = [arg EXCEPT ![c] = a]
  /\ before' = [heap |-> heap, magic |-> magic]
  /\ UNCHANGED <<heap, magic, callers, blk>>

kmalloc_lock(c, n) == enter(c, "find", n)

kmalloc_find(c) ==
  LET fits == Fits(heap, needed(arg[c])) IN
  /\ Go(c, "find", IF fits = {} THEN "oom" ELSE "split")
  /\ blk' = IF fits = {} THEN blk
            ELSE [blk EXCEPT ![c] = find_free_block(heap, needed(arg[c]))]
  /\ UNCHANGED <<heap, magic, callers, owner, arg, before>>

kmalloc_split(c) ==
  /\ Go(c, "split", "take")
  /\ heap' = split_block(heap, blk[c], needed(arg[c]))
  /\ UNCHANGED <<magic, callers, owner, arg, blk, before>>

kmalloc_take(c) ==
  /\ Go(c, "take", "given")
  /\ heap' = mark_used(heap, blk[c])
  /\ magic' = magic \cup {blk[c] + HDR}
  /\ UNCHANGED <<callers, owner, arg, blk, before>>

\* NKern_Unlock, and the caller has its pointer.
kmalloc_unlock(c) ==
  LET p == blk[c] + HDR + MAGIC_SIZE IN
  /\ Go(c, "given", "idle")
  /\ spin_release
  /\ live' = [q \in DOMAIN live \cup {p} |-> IF q = p THEN arg[c] ELSE live[q]]
  /\ UNCHANGED <<heap, magic, dangling, halted, arg, blk, before>>

kfree_lock(c, p) == enter(c, "check", p)

kfree_check(c) ==
  /\ Go(c, "check", IF arg[c] - MAGIC_SIZE \in magic THEN "mark" ELSE "corrupt")
  /\ blk' = [blk EXCEPT ![c] = arg[c] - MAGIC_SIZE - HDR]
  /\ UNCHANGED <<heap, magic, callers, owner, arg, before>>

kfree_mark(c) ==
  /\ Go(c, "mark", "forward")
  /\ heap' = mark_free(heap, blk[c])
  /\ magic' = magic_cleared(arg[c])
  /\ UNCHANGED <<callers, owner, arg, blk, before>>

kfree_forward(c) ==
  /\ Go(c, "forward", "back")
  /\ heap' = coalesce_forward(heap, blk[c])
  /\ UNCHANGED <<magic, callers, owner, arg, blk, before>>

kfree_back(c) ==
  /\ Go(c, "back", "freed")
  /\ heap' = coalesce_back(heap, blk[c])
  /\ UNCHANGED <<magic, callers, owner, arg, blk, before>>

kfree_unlock(c) ==
  /\ Go(c, "freed", "idle")
  /\ spin_release
  /\ live' = [q \in DOMAIN live \ {arg[c]} |-> live[q]]
  /\ dangling' \in {dangling, arg[c]}
  /\ UNCHANGED <<heap, magic, halted, arg, blk, before>>

\* Both error paths unlock first and panic after.
error_unlock(c) ==
  /\ Go(c, "oom", "panic") \/ Go(c, "corrupt", "panic")
  /\ spin_release
  /\ UNCHANGED <<heap, magic, callers, arg, blk, before>>

neka_panic(c) ==
  /\ Go(c, "panic", "idle")
  /\ halted' = halted \cup {c}
  /\ UNCHANGED <<heap, magic, live, dangling, owner, arg, blk, before>>

LockedNext ==
  \E c \in CPUs :
    \/ \E n \in Requests : kmalloc_lock(c, n)
    \/ \E p \in Pointers : kfree_lock(c, p)
    \/ kmalloc_find(c) \/ kmalloc_split(c) \/ kmalloc_take(c) \/ kmalloc_unlock(c)
    \/ kfree_check(c) \/ kfree_mark(c) \/ kfree_forward(c) \/ kfree_back(c)
    \/ kfree_unlock(c) \/ error_unlock(c) \/ neka_panic(c)

LockedSpec == LockedInit /\ [][LockedNext]_lockedVars
-----------------------------------------------------------------------------
\* Whatever the CPUs interleave, the calls of heap.c take effect one at a time,
\* at their NKern_Unlock: the heap others can see is the one found by the
\* owner's NKern_Lock, and a CPU past the unlock of an error path has stopped
\* as far as the heap is concerned.  src/README.md:218 claims less, that the lock
\* protects only against preemption on one CPU; NKern_Lock does spin on a word
\* that all CPUs share (nkern_lock.c:60-61).
H == INSTANCE Heap WITH
  heap <- IF owner = None THEN heap ELSE before.heap,
  magic <- IF owner = None THEN magic ELSE before.magic,
  halted <- halted \cup {c \in CPUs : step[c] = "panic"}
AtomicCalls == H!Spec
-----------------------------------------------------------------------------
(* The inductive invariant behind AtomicCalls.                             *)
Steps == {"idle", "find", "oom", "split", "take", "given", "check", "corrupt",
          "mark", "forward", "back", "freed", "panic"}

\* How far the call of CPU c has come from the heap that its NKern_Lock found.
Begun(c) ==
  LET h == before.heap
      m == before.magic
      b == blk[c]
      n == needed(arg[c])
  IN
  /\ step[c] \in {"find", "oom", "split", "take", "given"} => arg[c] \in Requests
  /\ step[c] \in {"check", "corrupt", "mark", "forward", "back", "freed"} => arg[c] \in Pointers
  /\ step[c] \in {"find", "oom", "split", "check", "corrupt", "mark"} => heap = h /\ magic = m
  /\ step[c] = "oom" => Fits(h, n) = {}
  /\ step[c] \in {"split", "take", "given"} => Fits(h, n) # {} /\ b = find_free_block(h, n)
  /\ step[c] = "take" => heap = split_block(h, b, n) /\ magic = m
  /\ step[c] = "given" => heap = mark_used(split_block(h, b, n), b) /\ magic = m \cup {b + HDR}
  /\ step[c] = "corrupt" => arg[c] - MAGIC_SIZE \notin m
  /\ step[c] \in {"mark", "forward", "back", "freed"} =>
       arg[c] - MAGIC_SIZE \in m /\ b = arg[c] - MAGIC_SIZE - HDR
  /\ step[c] \in {"forward", "back", "freed"} => magic = m \ {arg[c] - MAGIC_SIZE}
  /\ step[c] = "forward" => heap = mark_free(h, b)
  /\ step[c] = "back" => heap = coalesce_forward(mark_free(h, b), b)
  /\ step[c] = "freed" => heap = coalesce_back(coalesce_forward(mark_free(h, b), b), b)

CallInv ==
  /\ owner \in CPUs \cup {None}
  /\ step \in [CPUs -> Steps]
  /\ arg = [c \in CPUs |-> arg[c]] /\ blk = [c \in CPUs |-> blk[c]]
  /\ \A c \in CPUs : step[c] \in {"idle", "panic"} <=> owner # c
  /\ \A c \in CPUs : step[c] # "idle" => c \notin halted
  /\ owner # None => Begun(owner)
=============================================================================
