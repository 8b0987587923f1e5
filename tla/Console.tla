------------------------------ MODULE Console ------------------------------
(***************************************************************************)
(* kprint of terminal64.c: every CPU prints through one spinlock, with     *)
(* interrupts masked from before the acquire to after the release, and the *)
(* cursor of the VGA text screen moves with each character.                *)
(*                                                                         *)
(* A string is a sequence of "x" (a printing character) and "nl".  A CPU   *)
(* prints from its own code, from an interrupt handler, which needs its IF *)
(* set, and from interrupt_dispatch for an exception, which IF does not    *)
(* mask and which never returns: the CPU then halts.  ctx[c] is the stack  *)
(* of these activities, the running one first:                             *)
(*   at    "run", "spin" (print_lock_acquire), "print", "sti" (the lock is *)
(*         released, IF not yet restored), "halt";                         *)
(*   rest  what the call of kprint has still to print;                     *)
(*   flags the IF that kprint saved;                                       *)
(*   back  the IF of the interrupted code, restored by iretq;              *)
(*   fatal whether this is the handler of an exception.                    *)
(***************************************************************************)
EXTENDS Naturals, Sequences, FiniteSets

CONSTANTS CPUs, Strings,
          ROWS, COLS,       \* 25 and 80
          MAX_DEPTH,        \* bound on the activities of one CPU
          FaultPoints       \* the points at which an exception may strike

ASSUME ConsoleAssumption ==
  /\ ROWS \in Nat \ {0} /\ COLS \in Nat \ {0} /\ MAX_DEPTH \in Nat \ {0}
  /\ Strings \subseteq Seq({"x", "nl"})

VARIABLES print_lock, term_row, term_col, intr, ctx

text == <<term_row, term_col>>
vars == <<print_lock, text, intr, ctx>>

Points == {"run", "spin", "print", "sti", "halt"}

\* Every variable keeps to the values its C type and its use allow.  Each
\* character is stored inside the text buffer: the cursor wraps at the end of
\* a line and of the screen, also when strings come in between
\* (terminal64.c:49-54).
TypeOK ==
  /\ print_lock \in {0, 1}
  /\ term_row \in 0 .. ROWS - 1 /\ term_col \in 0 .. COLS - 1
  /\ intr \in [CPUs -> BOOLEAN]
  /\ \A c \in CPUs :
       /\ Len(ctx[c]) \in 1 .. MAX_DEPTH
       /\ \A i \in DOMAIN ctx[c] :
            /\ ctx[c][i].at \in Points
            /\ {ctx[c][i].flags, ctx[c][i].back, ctx[c][i].fatal} \subseteq BOOLEAN

Activity(back, fatal) ==
  [at |-> "run", rest |-> << >>, flags |-> FALSE, back |-> back, fatal |-> fatal]

\* terminal64_init; the boot code of each CPU runs with interrupts masked.
Init ==
  /\ print_lock = 0 /\ term_row = 0 /\ term_col = 0
  /\ intr = [c \in CPUs |-> FALSE]
  /\ ctx = [c \in CPUs |-> <<Activity(FALSE, FALSE)>>]

top(c) == ctx[c][1]
Set(c, r) == ctx' = [ctx EXCEPT ![c][1] = r]
-----------------------------------------------------------------------------
\* pushfq; cli
Mut_masked(c) == intr
masked(c) == [intr EXCEPT ![c] = FALSE]
kprint_cli(c, s) ==
  /\ top(c).at = "run"
  /\ intr' = masked(c)
  /\ Set(c, [top(c) EXCEPT !.at = "spin", !.rest = s, !.flags = intr[c]])
  /\ UNCHANGED <<print_lock, text>>

Mut_print_lock_acquire(c) ==
  /\ top(c).at = "spin"
  /\ print_lock' = 1
  /\ Set(c, [top(c) EXCEPT !.at = "print"])
  /\ UNCHANGED <<text, intr>>
print_lock_acquire(c) ==
  /\ top(c).at = "spin"
  /\ print_lock = 0
  /\ print_lock' = 1
  /\ Set(c, [top(c) EXCEPT !.at = "print"])
  /\ UNCHANGED <<text, intr>>

Mut_down(row) == row + 1
down(row) == IF row + 1 >= ROWS THEN 0 ELSE row + 1

\* The cursor after a character: it is stored at row * COLS + col first.
putc_vga(ch) ==
  IF ch = "nl" \/ term_col + 1 >= COLS
    THEN term_col' = 0 /\ term_row' = down(term_row)
    ELSE term_col' = term_col + 1 /\ UNCHANGED term_row

kprint_putc(c) ==
  /\ top(c).at = "print" /\ top(c).rest # << >>
  /\ putc_vga(Head(top(c).rest))
  /\ Set(c, [top(c) EXCEPT !.rest = Tail(@)])
  /\ UNCHANGED <<print_lock, intr>>

Mut_print_lock_release(c) ==
  /\ top(c).at = "print" /\ top(c).rest = << >>
  /\ Set(c, [top(c) EXCEPT !.at = IF top(c).fatal THEN "halt" ELSE "sti"])
  /\ print_lock' = IF top(c).fatal THEN 1 ELSE 0
  /\ UNCHANGED <<text, intr>>
print_lock_release(c) ==
  /\ top(c).at = "print" /\ top(c).rest = << >>
  /\ print_lock' = 0
  /\ Set(c, [top(c) EXCEPT !.at = "sti"])
  /\ UNCHANGED <<text, intr>>

\* if (flags & IF) sti
Mut_restored(c) == TRUE
restored(c) == intr[c] \/ top(c).flags
kprint_sti(c) ==
  /\ top(c).at = "sti"
  /\ intr' = [intr EXCEPT ![c] = restored(c)]
  /\ Set(c, [top(c) EXCEPT !.at = "run"])
  /\ UNCHANGED <<print_lock, text>>
-----------------------------------------------------------------------------
\* The sti that ends the boot code of a CPU.
sti(c) ==
  /\ Len(ctx[c]) = 1 /\ top(c).at = "run" /\ ~intr[c]
  /\ intr' = [intr EXCEPT ![c] = TRUE]
  /\ UNCHANGED <<print_lock, text, ctx>>

\* An interrupt is taken; its handler (the keyboard's) calls kprint.
interrupt(c) ==
  /\ intr[c] /\ Len(ctx[c]) < MAX_DEPTH
  /\ ctx' = [ctx EXCEPT ![c] = <<Activity(TRUE, FALSE)>> \o @]
  /\ intr' = [intr EXCEPT ![c] = FALSE]
  /\ UNCHANGED <<print_lock, text>>

iretq(c) ==
  /\ Len(ctx[c]) > 1 /\ top(c).at = "run" /\ ~top(c).fatal
  /\ intr' = [intr EXCEPT ![c] = top(c).back]
  /\ ctx' = [ctx EXCEPT ![c] = Tail(@)]
  /\ UNCHANGED <<print_lock, text>>

\* An exception: interrupt_dispatch prints its report and stops the CPU.
exception(c) ==
  /\ top(c).at \in FaultPoints /\ ~top(c).fatal /\ Len(ctx[c]) < MAX_DEPTH
  /\ ctx' = [ctx EXCEPT ![c] = <<Activity(intr[c], TRUE)>> \o @]
  /\ intr' = [intr EXCEPT ![c] = FALSE]
  /\ UNCHANGED <<print_lock, text>>

\* cli; hlt, at the end of the report or of neka_panic.
halt(c) ==
  /\ top(c).at = "run"
  /\ Set(c, [top(c) EXCEPT !.at = "halt"])
  /\ intr' = [intr EXCEPT ![c] = FALSE]
  /\ UNCHANGED <<print_lock, text>>

kprintStep(c) == print_lock_acquire(c) \/ kprint_putc(c)
                 \/ print_lock_release(c) \/ kprint_sti(c)
Next == \E c \in CPUs :
          \/ \E s \in Strings : kprint_cli(c, s)
          \/ kprintStep(c)
          \/ sti(c) \/ interrupt(c) \/ iretq(c) \/ exception(c) \/ halt(c)
Spec == Init /\ [][Next]_vars
\* A CPU inside kprint goes on executing it.
FairSpec == Spec /\ \A c \in CPUs : WF_vars(kprintStep(c))
-----------------------------------------------------------------------------
\* The activities in the middle of a string.
Printing == {p \in CPUs \X (1 .. MAX_DEPTH) :
               p[2] <= Len(ctx[p[1]]) /\ ctx[p[1]][p[2]].at = "print"}

\* The characters of two strings never mix, whichever CPUs and handlers print
\* them (terminal64.c:25-34), and the lock is taken exactly while one does.
Unmixed == Cardinality(Printing) = print_lock

\* A handler never waits for a print_lock that the code under it holds.
NoSelfDeadlock ==
  \A c \in CPUs : top(c).at = "spin" =>
    \A i \in 2 .. Len(ctx[c]) : ctx[c][i].at # "print"

\* kprint gives the caller its own IF back: interrupt and exception handlers
\* run masked to their end, however many strings they print.
HandlersMasked ==
  \A c \in CPUs : Len(ctx[c]) > 1 => ~intr[c]

\* A string that has been started is finished, and the lock is free again, even
\* when other CPUs stop in between: a CPU that halts never holds print_lock.
LockFreed == print_lock = 1 ~> print_lock = 0
=============================================================================
