------------------------------ MODULE Keyboard ------------------------------
(***************************************************************************)
(* The PS/2 keyboard driver of keyboard.c.  The interrupt handler (vector  *)
(* 33, sent to the boot processor only, interrupts masked) is the single   *)
(* producer of the ring; one reader calls kbd_buffer_pop, on the same CPU  *)
(* or on another, so the two are interleaved access by access.             *)
(*                                                                         *)
(* A scancode is a key and whether it is a release.  Keys are the two      *)
(* shifts, keys with a character and keys without one; a character is the  *)
(* key and whether it is shifted (the two tables of the driver).           *)
(***************************************************************************)
EXTENDS Naturals, Sequences

CONSTANTS Letters,       \* keys with a character
          Silent,        \* keys without one
          LSHIFT, RSHIFT,
          KBD_BUF_SIZE

ASSUME KeyAssumption ==
  /\ KBD_BUF_SIZE \in Nat \ {0}
  /\ {LSHIFT, RSHIFT} \intersect (Letters \union Silent) = {}

Keys == Letters \union Silent \union {LSHIFT, RSHIFT}
Chars == Letters \X BOOLEAN
Slots == 0 .. KBD_BUF_SIZE - 1

VARIABLES kbd_buffer, kbd_head, kbd_tail, shift_held,
          push,        \* handler: "idle", "check", "store", "advance"
          ch,          \* handler: the character being pushed
          pop,         \* reader: "idle", "load", "advance"
          out,         \* reader: the character loaded
          read         \* the last character kbd_buffer_pop returned

ring == <<kbd_buffer, kbd_head, kbd_tail>>
kbdVars == <<ring, shift_held, push, ch, pop, out, read>>

\* Every variable keeps to its type: the indices stay inside kbd_buffer.
KbdTypeOK ==
  /\ kbd_buffer \in [Slots -> Chars]
  /\ kbd_head \in Slots /\ kbd_tail \in Slots
  /\ shift_held \in BOOLEAN
  /\ push \in {"idle", "check", "store", "advance"} /\ ch \in Chars
  /\ pop \in {"idle", "load", "advance"} /\ {out, read} \subseteq Chars

\* The contents of the empty buffer, of ch, out and read do not matter.
KbdInit ==
  /\ \E x \in Chars : kbd_buffer = [s \in Slots |-> x] /\ ch = x /\ out = x /\ read = x
  /\ kbd_head = 0 /\ kbd_tail = 0 /\ shift_held = FALSE
  /\ push = "idle" /\ pop = "idle"
-----------------------------------------------------------------------------
next_slot(i) == (i + 1) % KBD_BUF_SIZE

\* The early returns of keyboard_handle_irq before the lookup.  The two shifts
\* share the flag: the release of one clears it while the other is held.
shift_after(k, release) == IF k \in {LSHIFT, RSHIFT} THEN ~release ELSE shift_held

\* One scancode, of any key in any order: keys repeat, and a release may have
\* been lost.  Only the press of a key with a character goes on to push.
keyboard_handle_irq(k, release) ==
  /\ push = "idle"
  /\ shift_held' = shift_after(k, release)
  /\ IF k \in Letters /\ ~release
       THEN ch' = <<k, shift_held>> /\ push' = "check"
       ELSE UNCHANGED <<ch, push>>
  /\ UNCHANGED <<ring, pop, out, read>>

\* kbd_buffer_push: read kbd_tail, store the character, publish kbd_head.
Mut_full == FALSE
full == next_slot(kbd_head) = kbd_tail
kbd_buffer_push_check ==
  /\ push = "check"
  /\ push' = IF full THEN "idle" ELSE "store"
  /\ UNCHANGED <<ring, shift_held, ch, pop, out, read>>

kbd_buffer_push_store ==
  /\ push = "store"
  /\ kbd_buffer' = [kbd_buffer EXCEPT ![kbd_head] = ch]
  /\ push' = "advance"
  /\ UNCHANGED <<kbd_head, kbd_tail, shift_held, ch, pop, out, read>>

kbd_buffer_push_advance ==
  /\ push = "advance"
  /\ kbd_head' = next_slot(kbd_head)
  /\ push' = "idle"
  /\ UNCHANGED <<kbd_buffer, kbd_tail, shift_held, ch, pop, out, read>>

\* kbd_buffer_pop: test for empty, load the character, free the slot.
kbd_buffer_pop_check ==
  /\ pop = "idle" /\ kbd_tail # kbd_head
  /\ pop' = "load"
  /\ UNCHANGED <<ring, shift_held, push, ch, out, read>>

kbd_buffer_pop_load ==
  /\ pop = "load"
  /\ out' = kbd_buffer[kbd_tail]
  /\ pop' = "advance"
  /\ UNCHANGED <<ring, shift_held, push, ch, read>>

kbd_buffer_pop_advance ==
  /\ pop = "advance"
  /\ kbd_tail' = next_slot(kbd_tail)
  /\ read' = out
  /\ pop' = "idle"
  /\ UNCHANGED <<kbd_buffer, kbd_head, shift_held, push, ch, out>>

KbdNext ==
  \/ \E k \in Keys, release \in BOOLEAN : keyboard_handle_irq(k, release)
  \/ kbd_buffer_push_check \/ kbd_buffer_push_store \/ kbd_buffer_push_advance
  \/ kbd_buffer_pop_check \/ kbd_buffer_pop_load \/ kbd_buffer_pop_advance
KbdSpec == KbdInit /\ [][KbdNext]_kbdVars
-----------------------------------------------------------------------------
\* The characters between kbd_tail and kbd_head.
count == (kbd_head + KBD_BUF_SIZE - kbd_tail) % KBD_BUF_SIZE
contents == [i \in 1 .. count |-> kbd_buffer[(kbd_tail + i - 1) % KBD_BUF_SIZE]]
Q == INSTANCE KeyQueue WITH Capacity <- KBD_BUF_SIZE - 1, queue <- contents,
       got <- read

\* With the interrupt at any point of kbd_buffer_pop and the reader at any
\* point of kbd_buffer_push, the ring behaves as a FIFO of KBD_BUF_SIZE - 1
\* places: what the reader gets is what was typed, in order, once each.
Fifo == Q!QSpec
=============================================================================
