------------------------------ MODULE KeyQueue ------------------------------
(***************************************************************************)
(* What the keyboard buffer promises: a bounded first-in first-out queue   *)
(* of characters that drops a new character when it is full.               *)
(***************************************************************************)
EXTENDS Naturals, Sequences

CONSTANTS Chars, Capacity

VARIABLES queue,   \* characters typed and not yet read
          got      \* the last character read

QInit == queue = << >> /\ got \in Chars

Put(c) ==
  /\ Len(queue) < Capacity
  /\ queue' = Append(queue, c)
  /\ UNCHANGED got

Get ==
  /\ queue # << >>
  /\ got' = Head(queue)
  /\ queue' = Tail(queue)

QNext == Get \/ \E c \in Chars : Put(c)
QSpec == QInit /\ [][QNext]_<<queue, got>>
=============================================================================
