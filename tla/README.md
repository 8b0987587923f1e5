# A TLA+ model of the NEKA kernel

This directory models the NEKA kernel (`src/`), its 64-bit build and the
scheduler of its 32-bit build, in TLA+, checks small instances with TLC and
proves every safety property of those instances in general with TLAPS.
`PROJECT.json` lists every component, run, finding, hazard and theorem, and maps
each definition to the source lines it translates.

## The system

| Part | State | Operations | Talks to | What is hard |
|---|---|---|---|---|
| Big kernel lock (`nkern_lock.c`) | `big_kernel_lock`, per-CPU count, pending flag, saved IF | Lock, Unlock, LockForSwitch, UnlockAfterSwitch | scheduler, heap | interrupts and switches inside its own functions |
| Scheduler (`sched64.c`, `context_switch64.s`) | thread table, rings, bitmap, `current[]`, cached CR3 | create, reschedule, context switch, tick | lock, timer, paging | preemption at any instruction, several CPUs on one ring |
| Interrupt path (`isr.s`, `idt.c`) | interrupt frames, IF | vectors 32, 33, 128, exceptions | scheduler, keyboard, console | nesting |
| Heap (`heap.c`) | block list, magic words | `kmalloc`, `kfree` | lock, panic | fragmentation, stale pointers, two CPUs |
| Frames (`memmap.c`, `paging64.c`) | region table, bump position, bootstrap pool | parse, activate, `alloc_frame` | firmware map | edges of regions, the jump over the image |
| Page tables (`paging64.c`) | tables, address spaces | map, create | frames, scheduler | snapshot of the kernel's entries |
| SMP bring-up (`smp.c`, `ap_trampoline.s`) | mailbox, `ap_ready[]`, index | start APs, `ap_entry64` | ACPI, heap, TSS | answers after the timeout |
| ACPI, APIC, GDT (`acpi.c`, `apic.c`, `gdt64.c`) | tables, bases, TSS per CPU | parse, enable, set up | SMP bring-up | numbering of CPUs |
| Keyboard (`keyboard.c`) | ring buffer, shift flag | handler, `kbd_buffer_pop` | interrupt path | producer and consumer interleaved |
| Console (`terminal64.c`, `panic.c`) | `print_lock`, cursor | `kprint`, panic | everyone | printing from handlers and exceptions |
| 32-bit build (`main.c`, `sched.c`, ...) | its own | cooperative scheduler | - | a separate, older program |

What makes each part correct:

* lock: one owner; counters return to zero; no CPU waits for its own lock;
* scheduler: a frame is loaded only when nobody runs on it; a thread runs in its
  own address space with interrupts on; rings stay rings and turn in order; no
  thread of the top priority starves;
* heap: blocks tile the arena, a pointer to no allocation is refused, memory is
  recovered, callers never overlap, and calls look atomic;
* frames: never twice, never the image, none lost but to the reserved
  range and a full region table, the search ends;
* page tables: kernel mappings visible in every address space, private pages not;
* bring-up: one stack per CPU, an exact count, an end;
* ring 3: an interrupt finds a kernel stack on whichever CPU the thread is;
* 32-bit scheduler: stacks stay with their threads, the top priority takes turns;
* keyboard: first in, first out;
* console: strings do not mix, the lock is freed, handlers stay masked.

## Modules

* **NKernLock** has every function of `nkern_lock.c`, one action per stretch of
  code that an interrupt or another CPU can split. `pc`, `rs` and `irq` are a
  CPU's control state: its code, a reschedule above it, and the timer handlers
  on its stack. **BigLock** is what the lock promises.
* **Sched64** adds threads, rings, dispatch, ticks and boot. A saved stack is
  `frame[t]`; `exec[c]` is the stack a CPU really runs on. When a CPU loads the
  frame of a thread some CPU is running, `stale` is set **and the model stops**,
  because two CPUs on one stack can do anything. So every multiprocessor result
  below holds up to that event and says nothing of what follows it. Until then
  one CPU runs all the threads (`OneRunner`).
* **RoundRobin** is what both schedulers promise: a queue of threads for each
  priority, the highest served in turn. **Rings** reads such a queue off the
  circular lists of pointers that both schedulers keep, by following `next` from
  the head; **Sched64Turns** maps Sched64 to RoundRobin with it.
* **Sched32** is the cooperative scheduler of the 32-bit kernel. `esp[t]` is the
  stack that the saved pointer of `t` points into, `exec` the one the CPU is on.
* **Heap** has `kmalloc` and `kfree` as atomic actions over the byte layout of
  the arena; **HeapLocked** takes them apart on several CPUs, under the word that
  `spin_acquire` tests and sets; **Allocator** is what callers are promised: an
  allocation stays until somebody frees its address.
* **FrameAlloc** has the two map parsers, activation, the bootstrap pool and the
  search loop, one action per branch of the loop.
* **Paging** is the client of FrameAlloc: `Boot` lists the calls of
  `kernel_main64` that touch memory in their order, each takes its frames, builds
  tables in `mem` and touches addresses through the page walk `Walk`. APs enable
  their APIC and interrupts end theirs in any address space. A table has
  `ENTRIES` entries, so the address space shrinks with it.
* **Acpi** has the RSDP search, the choice of root table and what is read from
  the MADT, as functions of the firmware. Paging and SmpBoot both use it.
* **SmpBoot** has the boot processor and each AP as processes that share one
  mailbox and `g_ap_index_starting`. `missed` records APs that came up only
  after their timeout. **Ring3** composes it with a ring 3 thread that moves over
  the CPUs that are up and enters the kernel through their TSS.
* **Keyboard** interleaves handler and reader access by access; **KeyQueue** is
  the bounded queue it implements. No code calls `kbd_buffer_pop` yet, so the
  reader is modelled from the function itself.
* **Console** has `kprint` with a stack of activities per CPU: code, handlers
  and exceptions.
* **MC...** modules hold the instances.
* **Sched64Proofs** is about lock and scheduler. **RingProofs** has the facts about
  Rings that both schedulers use; **Sched64TurnsProofs** draws the refinement of
  RoundRobin from these two. **HeapProofs** is about Heap and HeapLocked,
  **Ring3Proofs** about SmpBoot and Ring3, **ConsoleProofs** about Console, Keyboard
  and Sched32 (that is why the specifications of the last two have names of their
  own, `KbdSpec` and `Spec32`). **PagingTables** is about FrameAlloc and about what
  the operators on page tables do, and states the invariant of the boot;
  **PagingProofs** carries it through the calls of the boot and draws what follows
  from it.

Definitions named `Mut_...` are deliberate mistakes, used to confirm that each
checked property can fail.

## Runs

| Run | Instance | Properties | States | What it shows |
|---|---|---|---|---|
| `up` | 1 CPU, 3 threads, 2 priorities, nesting 2, slice 2 | `TypeOK` `NoSelfDeadlock` `NoStaleDispatch` `OwnAddressSpace` `TakesTurns` `EveryTopThreadRuns` `LockReleased` | 27,699 | a single CPU implements RoundRobin, with address spaces right; no thread of the top priority starves |
| `smp` | 3 CPUs, 2 threads, APs symmetric, slice 2, up to 2 ticks in a first unlock | `MutualExclusion` `CountersBalanced` `InterruptsOn` `OneOwner` | 148,830 | lock, counters and IF over several CPUs, deferred reschedules included |
| `heap` | 250 bytes, requests of 1, 17, 60 | `Tiling` `MagicExact` `Coalesced` `Recovered` `Promise` | 24,877 | the block list stays sound, and `kfree` accepts exactly the addresses now allocated |
| `heap_locked` | 2 CPUs, 200 bytes, requests of 1, 50 | `AtomicCalls` | 97,995 | every interleaving looks like atomic calls |
| `paging` | firmware maps and ACPI tables of every kind, pages of 4 units, 8 entries in a table | `UsableFrames` `NothingLost` `OneUse` `KernelVisible` `UserReach` `MappedBeforeUse` `OnlyBspAllocates` `SearchEnds` | 18,441 | the boot from its first frame to running threads: each frame is usable and has one use, address spaces see the kernel and nothing of each other, what is touched is mapped |
| `sched32` | 5 threads, 3 priorities | `RunsCurrent` `TakesTurns` `TopThreadsRun` | 1,420 | the 32-bit scheduler implements RoundRobin and keeps stacks apart |
| `keyboard` | ring of 4; two letters, a silent key, two shifts | `Fifo` | 79,360 | the ring is a FIFO |
| `console` | 2 CPUs, 2 x 2 screen, depth 3 | `TypeOK` `Unmixed` `NoSelfDeadlock` `HandlersMasked` `LockFreed` | 151,792 | output does not mix and the lock is freed, if no exception hits the locked part |
| `smpboot` | 7 machines, any AP dead or late, a ring 3 thread | `OwnStack` `CountExact` `Ring3Stack` `BringUpEnds` | 25,918 | bring-up ends; stacks and count are right if no AP is late; ring 3 finds a kernel stack wherever CPUs have a TSS of their own |
| `double` | 2 CPUs, 2 threads | `NoStaleDispatch` | - | fails, see below |
| `console_fault` | as `console`, exceptions anywhere | `NoSelfDeadlock` | - | fails, see below |
| `smpboot_late` | 3 CPUs | `ConfirmedAlive` | - | fails, see below |

The bounds are small but reach the interesting cases: a slice of 2 has a tick
that counts and one that ends it; three threads tell the successor from any
other; two nested handlers tell the outermost return from an inner one; a
250-byte arena holds up to four blocks, so a free can have neighbours on both sides;
a ring of 4 wraps, fills and empties; five threads of three priorities make rings
of one to five. The firmware maps move the edges of regions over the page grid,
around legacy memory, the image and the end of the identity map, and a few are
large enough for the boot to finish; the ACPI tables put devices in the GB that
holds the defaults, in another, and at offsets in a large page. `MAX_LOCK`,
`MAX_IRQ`, `MAX_WINDOW` and `MAX_DEPTH` bound what the code leaves unbounded.
`MAX_WINDOW` is the number of ticks during a new thread's first
`NKern_UnlockAfterSwitch`, which runs with IF set. In `up` it is below the slice,
as it is on a machine whose slice is 50 ms; in `smp` it is as large as the slice,
so that the slice also ends there: while the count is 1, and the reschedule is put
off to the thread's next `NKern_Unlock`, or after the decrement, and the CPU spins
for ever on its own lock (`SpinsForEver`).
Deadlock checking is off where the system may stop: in a panic, at the end of
bring-up, or with CPUs halted.

### Disagreements between code and comments

Three runs are expected to fail; each shows a place where the code does not do
what a comment says (quoted in `PROJECT.json`).

* `double`: the head of a ring is the thread a CPU is running, and
  `sched64_reschedule` does not look at its state, so a second CPU loads the
  same thread from its old frame.
* `console_fault`: `cli` does not mask exceptions, so one inside the locked part
  of `kprint` waits for its own lock.
* `smpboot_late`: after a timeout the next AP gets the same index, so a late
  answer confirms the wrong AP.

Met while modelling, and written into the properties as exceptions: a region
ending inside a page yields a frame reaching past it (`memmap.c:165`); frames
above 1 GB fault when zeroed (`paging64.c:61`); a local APIC that is not at its
default address is mapped by `apic.c` but not where `smp.c:30` looks for it; a
device that is not at the start of its large page may fault; a CPU with APIC id 4
or more has no TSS (`gdt64.c:63`), and ids of 16 or more, or a boot processor whose
id is not 0, share one; a late AP may take the stack meant for the next one. Under UEFI the available
memory between 1 MB and the image is lost, for the reserved range takes it in
(`main64.c:224`), and so are the map entries past the region table
(`memmap.c:25`). Behaviour that no comment excludes and no property is about: the
two shift keys share one flag, so releasing one clears it while the other is held
(`keyboard.c:83-84`).

More comments are off. `main64.c:111-119` says the timer keeps ticking
inside the critical section of `thread_a` and the reschedule is deferred, but
`NKern_Lock` masks interrupts, so a tick is deferred only in a new thread's first
unlock. `memmap.c:154` says the reserved range is (0,0) under UEFI, but
`main64.c:224` passes the one from 1 MB to `kernel_end` on both paths.
`main64.c:201-203` says `uefi_main` has found the RSDP, but `acpi_set_rsdp` has no
caller, so that a UEFI machine without an RSDP in BIOS memory starts no AP.
`heap.c:157` says that a repeated `kfree` of a pointer is caught; it is until the
address is handed out again, and then frees the new allocation. `README.md:218`
of the sources says that the lock around `kmalloc` protects only against
preemption on one processor; `NKern_Lock` spins on a word that all CPUs share
(`nkern_lock.c:60-61`), and `AtomicCalls` holds on several. `smp.c:105-109` says
that an AP has no TSS and runs no ring 3 code; `smp.c:87-92`, later, gives it one.

## Fairness

* A CPU goes on executing code it has begun (weak fairness of its steps); a
  thread need not ask for the lock.
* The local APIC keeps a tick pending until IF is set, and the timer is
  periodic: ticks are strongly fair.
* Critical sections are finite (`Leave`). Those in the source are: `kmalloc`,
  `kfree` and one counted loop of `thread_a`. Without this a thread could nest
  locks for ever, and TLC refutes `LockReleased`.
* A timer handler is short beside a slice of 50 ms (`Unwind`), so a thread is
  not for ever preempted inside its outermost handler. This is an assumption on
  timing, not something the code enforces; without it, or without
  `Leave`, TLC refutes `EveryTopThreadRuns`.
* The loops of `memmap_alloc_frame`, `kprint` and `smp_start_aps` keep running,
  and so do APs that have come up. The boot is straight-line code.
* Every turn of a 32-bit thread's loop ends with `sched_yield`.

## Proofs

All theorems hold for every value of the constants under the named assumptions
of the modules:

* `CpuAssumption`, `SchedAssumption`, `Sched32Assumption`, `SmpAssumption`,
  `KeyAssumption`: types, nonzero sizes, the boot processor is a CPU, the shift
  keys are no letters. `NoneAssumption`: no CPU is called `None`.
* `HeapAssumption`: the arena is larger than a header, and no request is for 0
  bytes, which `kmalloc` turns away.
* `FrameAssumption`: sizes, and sound firmware maps (`SoundMap`).
* `PagingAssumption`: a table has a multiple of four entries, the identity map is
  the first GB. `DeviceAssumption`: no device is in the second GB, which the PC
  leaves to memory and this kernel to private pages.
* `FirmwareAssumption`: ACPI tables are lists and a MADT lists each local APIC
  once.
* `ConsoleAssumption`: strings are finite, screen and nesting are not empty.

**Scheduler and lock.** The inductive invariant is `IInv`: types, the counter
and IF at each control point (`CtlInv`), mutual exclusion, who runs what
(`ExecInv`) and what saved frames hold (`FrameInv`). No part is inductive alone:
exclusion needs exact counters, counters need sound frames when a thread is
resumed, and frames need exclusion because only the holder saves and loads one.
From it follow `TypeCorrect`, `LockExcludes`, `FramesOwned`, `CountersReturn`
and, with the exactness of the CR3 cache (`AddrInv`), `RunsInOwnSpace`, all of them
up to the first stale dispatch, where the model stops.
`UniprocessorDispatch` assumes one CPU; the run `double` shows it fails on two.
`NoTickDeadlock` assumes fewer ticks than a slice (`MAX_WINDOW < SLICE`) while a
new thread runs its first `NKern_UnlockAfterSwitch`; the assumption is needed,
for with `MAX_WINDOW = SLICE` TLC finds the CPU waiting for its own lock.
`ImplementsBigLock` is the safety refinement of BigLock. `InterruptsKept` takes
another invariant on top of `IInv`: `IfAt` gives IF, and the IF saved for later,
at every control point, since what `popfq` or `iretq` restores was saved many
steps, perhaps many switches, earlier.

**Turns.** `RingsOK` says that following `next` from the head of a priority
visits each of its threads once and comes back. Joining a thread behind the tail
appends it to the sequence so visited, and moving the head on rotates it
(`RingAppend`, `RingRotate` in RingProofs); so `RingsWhole` holds on any number of
CPUs, and `TurnsTaken64` (one CPU) and `TurnsTaken32` are refinements of
RoundRobin. Rings defines the sequence by a recursive function; that it is the one
expected is proved through the least index where it is not, because induction
theorems cannot be instantiated here.

**Heap.** The invariant `HInv` adds `Roomy` (each block holds its request and
the magic word) to types, tiling, magic words and coalescing. Splitting and
coalescing are lemmas about the block list. From it follow `ArenaTiled`,
`MagicTold`, `NoFreeNeighbours`, `FullRecovery` and `KeepsPromise`. `CallsAtomic`
is about HeapLocked: `CallInv` says how far the call of the owner of the lock has
come from the heap that it found (`Begun`), so that its last step maps to the
atomic call of Heap and all others to none.

**Frames.** `FramesUsable` and `FramesNotLost` are about PagingSpec, the whole
boot. Each of its steps is a step of FrameAlloc or leaves its variables alone
(`BootStep`), so that the argument is made there once, for every
page size and every set of maps that meets `SoundMap` (what boot loaders
guarantee). The invariant `FInv` says that the regions are available entries
and apart from each other (`RegionsRight`), that the cursor is in step with the phase of
the boot (`PhaseRight`), that all frames handed out lie behind the cursor
(`HandedRight`) and that every usable page behind it has been handed out
(`AllHanded`). The last two need each other's cursor arithmetic: the jump over the
image lands on a page, past nothing that could be used. `FramesFresh` follows,
for the next address is never behind the cursor. `FramesNotLost` speaks of the
firmware's entries, not of the table made from them, and needs a second invariant
(`AllListed`): the parsers come to every entry and, while the table has room, put
each available one into it.

**Page tables.** The invariant of the boot is `PInv`, kept by each of its calls:

* `Layout` (in `Laid`) describes the tables: the kernel's PML4, PDPT and tables of
  large pages, and for every address space the list of its own frames, which are
  apart from those of the kernel and of all other spaces, with the entries they
  hold; there is nothing else in `mem`;
* `Fresh`: the frames that the running call has taken are in use nowhere;
* `Entered`: what has been mapped by now, before the calls that touch it;
* `Placed`: address spaces are made and CPUs started only after all mapping.

`Layout` turns the page walk into a calculation: `KernelInAll`, `Ring3Reaches` and
`FramesOneUse` need no step of the boot any more. They need the strong form. That
ring 3 reaches two pages only depends on every entry with the user bit, and that a
frame has one use depends on which tables the entries of all spaces are in.
`DevicesMapped` is part of `PInv`, and `OneAllocator` follows from `Placed`.
`PInv` rests on `FInv` for one thing: the frame it gets is not one it has.

**Bring-up and ring 3.** `Inv3` is `SInv` for the boot processor and the APs and
`R3Inv` for the ring 3 thread. `ListInv` says where `smp_start_aps` is in the list
of CPUs, `ApInv` which CPUs can have come up, `TssInv` what each TSS slot holds. As
long as no AP has missed its timeout, `OrderInv` holds: at most the AP waited for
is under way, on the newest stack, and `ap_ready` at the index speaks of it alone.
`StacksApart` and `ApsCounted` rest on it, `Ring3FindsStack` does not and holds with
late APs too.

**Console.** `CInv` says that interrupts are on only in code that no handler has
interrupted and that is outside `kprint` (`MaskInv`), and that `print_lock` is set
exactly while one activity prints (`LockInv`). `ConsoleTypes`, `StringsUnmixed` and
`HandlersStayMasked` follow. `NoWaitOnSelf` assumes that no exception comes inside
the locked part (`"print" \notin FaultPoints`), for the run `console_fault` shows
that it fails otherwise; then nothing is interrupted while it prints (`OuterOut`).

**Keyboard.** `KInv` says what both sides still know past their tests: the handler
that the ring is not full, the reader that it is not empty, and each that the
other has not touched its slot. `RingIsQueue` maps the slots from tail to head to
the queue of KeyQueue, for every size of the buffer.

**32-bit scheduler.** `Inv32` says that `next` stays within the threads of one
priority and reaches each of them, that the bitmap tells which queues are not
empty (`RingInv`), and that the running thread has the highest priority
(`RunInv`). `StacksKept` needs the first to know that the thread chosen has been
made, and so has a stack; `OnlyTopRuns` is the safety half of `TopThreadsRun`.

TLC has checked these invariants on the instances above, `FInv` with addresses up
to the end of the maps.

**Only model-checked:** liveness (`EveryTopThreadRuns`, `LockReleased`,
`SearchEnds`, `LockFreed`, `BringUpEnds` and the second half of
`TopThreadsRun`), which the prover does not reach: fairness needs ENABLED.
Of the runs that are expected to fail nothing is proved, as there is nothing to
prove.

## Abstractions

Callers' data never looks like `BLOCK_MAGIC`. `get_cpu_index` is one to one in
Sched64, which is so for APIC ids below 16. Memory is sequentially consistent;
the locks use `__sync` built-ins. ACPI tables are records: lengths are taken as
right. The page tables and the thread table of the boot are two models, Paging and
Sched64, that share only what an address space is: in Sched64 a name, in Paging
its tables. Requests to `kmalloc` are far below 2^64, so the wrap of `align16` and
of the added magic word (`heap.c:41`, `heap.c:105`) does not come up. HeapLocked
has the outermost `NKern_Lock` of a call only: no heap call is made inside
another. `fill_mailbox` of SmpBoot is one step for the writes of `smp.c:168-192`;
only an AP that is already late could see them one by one.

## Not modelled

* Device programming and formatting: the values written to APIC, PIC, PIT, serial
  and VGA registers, timer calibration, `terminal.c`, `timer.c`, `timer64.c`,
  hexadecimal output. No state of the kernel depends on it.
* Straight-line set-up before other code runs: `boot.s`, `boot64.s`, descriptor and
  gate encoding, `fpu.c`, the mode switches of the trampoline.
* The system call of vector 128, which only prints, and `heap_self_test`, a client
  whose claim is `Recovered`.
* Firmware calls: `GetMemoryMap`, `ExitBootServices`. They are in `SoundMap`.
* What two CPUs do on one stack, after `double`.

What could follow: Sched64 with two CPUs that share an index, and one thread table
for Sched64 and Paging.
