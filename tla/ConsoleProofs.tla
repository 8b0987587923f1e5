---------------------------- MODULE ConsoleProofs ----------------------------
(***************************************************************************)
(* The console, output and input, and the scheduler of the 32-bit kernel.  *)
(*                                                                         *)
(* Printing is safe on any number of CPUs, for any strings, any size of    *)
(* the screen and any nesting of handlers.  The invariant has three parts: *)
(* the activities of a CPU have their form (StackType), interrupts are on  *)
(* only in code that no handler has interrupted and that is outside kprint *)
(* (MaskInv), and print_lock is set exactly while one activity prints      *)
(* (LockInv).                                                              *)
(*                                                                         *)
(* The keyboard's ring is a queue, for any size of the buffer and any      *)
(* keys.  KInv says what the two sides still know at each of their points: *)
(* the producer, past its test, that the ring is not full, the reader,     *)
(* past its own, that it is not empty, and each that the other has not     *)
(* touched the slot in between.                                            *)
(*                                                                         *)
(* The cooperative scheduler never mixes up two stacks and runs only the   *)
(* highest priority, in turns, for any number of threads and priorities.   *)
(***************************************************************************)
EXTENDS Console, Keyboard, Sched32, RingProofs

Activities == [at : Points, rest : Seq({"x", "nl"}), flags : BOOLEAN, back : BOOLEAN,
               fatal : BOOLEAN]

StackType ==
  /\ print_lock \in {0, 1}
  /\ term_row \in 0 .. ROWS - 1 /\ term_col \in 0 .. COLS - 1
  /\ intr \in [CPUs -> BOOLEAN]
  /\ ctx \in [CPUs -> Seq(Activities)]
  /\ \A c \in CPUs : Len(ctx[c]) \in 1 .. MAX_DEPTH

\* Only the bottom activity has ever run with interrupts on; the handler above
\* it gives them back only if it was outside kprint.
MaskAt(c) ==
  /\ intr[c] => Len(ctx[c]) = 1 /\ ctx[c][1].at = "run"
  /\ \A i \in 1 .. Len(ctx[c]) - 1 :
       /\ ~ctx[c][i].flags
       /\ ctx[c][i].back => i = Len(ctx[c]) - 1 /\ ctx[c][i + 1].at = "run"
MaskInv == \A c \in CPUs : MaskAt(c)

Prints(c, i) == c \in CPUs /\ i \in 1 .. Len(ctx[c]) /\ ctx[c][i].at = "print"
LockInv ==
  /\ \A c, d \in CPUs, i, j \in 1 .. MAX_DEPTH : Prints(c, i) /\ Prints(d, j) => c = d /\ i = j
  /\ print_lock = 1 <=> \E c \in CPUs, i \in 1 .. MAX_DEPTH : Prints(c, i)

CInv == StackType /\ MaskInv /\ LockInv

\* No activity is interrupted in the middle of a string.
OuterOut == \A c \in CPUs : \A i \in 2 .. Len(ctx[c]) : ctx[c][i].at # "print"
-----------------------------------------------------------------------------
(* A new activity on top of a stack.                                       *)
LEMMA PushSeq ==
  ASSUME NEW S, NEW s \in Seq(S), NEW a \in S
  PROVE  /\ <<a>> \o s \in Seq(S) /\ Len(<<a>> \o s) = Len(s) + 1
         /\ (<<a>> \o s)[1] = a
         /\ \A i \in 1 .. Len(s) : (<<a>> \o s)[i + 1] = s[i]
OBVIOUS

(* The top activity taken off a stack.                                     *)
LEMMA PopSeq ==
  ASSUME NEW S, NEW s \in Seq(S), Len(s) > 1
  PROVE  /\ Tail(s) \in Seq(S) /\ Len(Tail(s)) = Len(s) - 1
         /\ \A i \in 1 .. Len(s) - 1 : Tail(s)[i] = s[i + 1]
OBVIOUS

(* The top activity replaced.                                              *)
LEMMA SetSeq ==
  ASSUME NEW S, NEW s \in Seq(S), Len(s) >= 1, NEW a \in S
  PROVE  /\ [s EXCEPT ![1] = a] \in Seq(S) /\ Len([s EXCEPT ![1] = a]) = Len(s)
         /\ [s EXCEPT ![1] = a][1] = a
         /\ \A i \in 2 .. Len(s) : [s EXCEPT ![1] = a][i] = s[i]
OBVIOUS
-----------------------------------------------------------------------------
(* What a step that changes the running activity of c does to the stacks.  *)
LEMMA SetStacks ==
  ASSUME StackType, NEW c \in CPUs, NEW a \in Activities, Set(c, a)
  PROVE  /\ ctx' \in [CPUs -> Seq(Activities)]
         /\ \A d \in CPUs : Len(ctx'[d]) = Len(ctx[d])
         /\ ctx'[c][1] = a
         /\ \A d \in CPUs : \A i \in 1 .. Len(ctx[d]) :
              d # c \/ i # 1 => ctx'[d][i] = ctx[d][i]
<1>1. ctx \in [CPUs -> Seq(Activities)] /\ Len(ctx[c]) >= 1 /\ ctx[c] \in Seq(Activities)
  BY DEF StackType
<1>2. ctx' = [ctx EXCEPT ![c] = [ctx[c] EXCEPT ![1] = a]]
  BY Zenon DEF Set
<1> DEFINE s == [ctx[c] EXCEPT ![1] = a]
<1>3. /\ s \in Seq(Activities) /\ Len(s) = Len(ctx[c]) /\ s[1] = a
      /\ \A i \in 2 .. Len(ctx[c]) : s[i] = ctx[c][i]
  BY <1>1, SetSeq
<1> HIDE DEF s
<1>4. /\ ctx' \in [CPUs -> Seq(Activities)] /\ ctx'[c] = s
      /\ \A d \in CPUs \ {c} : ctx'[d] = ctx[d]
  BY <1>1, <1>2, <1>3, Zenon DEF s
<1>5. \A i \in 1 .. Len(ctx[c]) : i # 1 => i \in 2 .. Len(ctx[c])
  BY <1>1
<1>6. QED
  BY <1>3, <1>4, <1>5, Zenon

(* Interrupts stay off in kprint and in handlers.                          *)
LEMMA SetKeepsMask ==
  ASSUME StackType, MaskInv, NEW c \in CPUs, NEW a \in Activities, Set(c, a),
         \A d \in CPUs \ {c} : intr'[d] = intr[d],
         intr'[c] => Len(ctx[c]) = 1 /\ a.at = "run",
         a.back = top(c).back, Len(ctx[c]) > 1 => ~a.flags
  PROVE  MaskInv'
<1>1. /\ \A d \in CPUs : Len(ctx'[d]) = Len(ctx[d]) /\ Len(ctx[d]) \in Nat \ {0}
      /\ ctx'[c][1] = a
      /\ \A d \in CPUs : \A i \in 1 .. Len(ctx[d]) :
           d # c \/ i # 1 => ctx'[d][i] = ctx[d][i]
  BY SetStacks, ConsoleAssumption DEF StackType
<1>2. ASSUME NEW d \in CPUs PROVE MaskAt(d)'
  <2>1. MaskAt(d)
    BY Zenon DEF MaskInv
  <2>2. intr'[d] => Len(ctx'[d]) = 1 /\ ctx'[d][1].at = "run"
    BY <1>1, <2>1 DEF MaskAt
  <2>3. ASSUME NEW i \in 1 .. Len(ctx'[d]) - 1
        PROVE  /\ ~ctx'[d][i].flags
               /\ ctx'[d][i].back => i = Len(ctx'[d]) - 1 /\ ctx'[d][i + 1].at = "run"
    <3>1. i \in 1 .. Len(ctx[d]) - 1 /\ i \in 1 .. Len(ctx[d]) /\ i + 1 \in 1 .. Len(ctx[d])
          /\ i + 1 # 1 /\ Len(ctx[d]) > 1
      BY <1>1
    <3>2. ctx'[d][i + 1] = ctx[d][i + 1]
      BY <1>1, <3>1, Zenon
    <3>3. /\ ~ctx[d][i].flags
          /\ ctx[d][i].back => i = Len(ctx[d]) - 1 /\ ctx[d][i + 1].at = "run"
      BY <2>1, <3>1, Zenon DEF MaskAt
    <3>4. CASE d = c /\ i = 1
      BY <1>1, <3>1, <3>2, <3>3, <3>4, Zenon DEF top
    <3>5. CASE ~(d = c /\ i = 1)
      BY <1>1, <3>1, <3>2, <3>3, <3>5, Zenon
    <3>6. QED
      BY <3>4, <3>5, Zenon
  <2>4. QED
    BY <2>2, <2>3, Zenon DEF MaskAt
<1>3. QED
  BY <1>2, Zenon DEF MaskInv

(* The lock follows the running activity into and out of its string.       *)
LEMMA SetKeepsLock ==
  ASSUME StackType, LockInv, NEW c \in CPUs, NEW a \in Activities, Set(c, a),
         \/ (top(c).at = "print" <=> a.at = "print") /\ print_lock' = print_lock
         \/ a.at = "print" /\ print_lock = 0 /\ print_lock' = 1
         \/ top(c).at = "print" /\ a.at # "print" /\ print_lock' = 0
  PROVE  LockInv'
<1>1. /\ \A d \in CPUs : Len(ctx'[d]) = Len(ctx[d]) /\ Len(ctx[d]) \in 1 .. MAX_DEPTH
      /\ ctx'[c][1] = a
      /\ \A d \in CPUs : \A i \in 1 .. Len(ctx[d]) :
           d # c \/ i # 1 => ctx'[d][i] = ctx[d][i]
  BY SetStacks, Zenon DEF StackType
<1>2. MAX_DEPTH \in Nat /\ 1 \in 1 .. MAX_DEPTH /\ 1 \in 1 .. Len(ctx[c])
  BY <1>1, ConsoleAssumption
<1>3. \A d \in CPUs, i \in 1 .. MAX_DEPTH : ~(d = c /\ i = 1) => (Prints(d, i)' <=> Prints(d, i))
  BY <1>1, Zenon DEF Prints
<1>4. (Prints(c, 1)' <=> a.at = "print") /\ (Prints(c, 1) <=> top(c).at = "print")
  BY <1>1, <1>2, Zenon DEF Prints, top
<1>5. print_lock \in {0, 1}
  BY Zenon DEF StackType
<1>6. CASE (top(c).at = "print" <=> a.at = "print") /\ print_lock' = print_lock
  <2>1. \A d \in CPUs, i \in 1 .. MAX_DEPTH : Prints(d, i)' <=> Prints(d, i)
    BY <1>3, <1>4, <1>6, Zenon
  <2>2. QED
    BY <1>6, <2>1, Zenon DEF LockInv
<1>7. CASE a.at = "print" /\ print_lock = 0 /\ print_lock' = 1
  <2>1. \A d \in CPUs, i \in 1 .. MAX_DEPTH : ~Prints(d, i)
    BY <1>7 DEF LockInv
  <2>2. \A d \in CPUs, i \in 1 .. MAX_DEPTH : Prints(d, i)' <=> d = c /\ i = 1
    BY <1>3, <1>4, <1>7, <2>1, Zenon
  <2>3. QED
    BY <1>2, <1>7, <2>2, Zenon DEF LockInv
<1>8. CASE top(c).at = "print" /\ a.at # "print" /\ print_lock' = 0
  <2>1. \A d \in CPUs, i \in 1 .. MAX_DEPTH : Prints(d, i) => d = c /\ i = 1
    BY <1>2, <1>4, <1>8, Zenon DEF LockInv
  <2>2. \A d \in CPUs, i \in 1 .. MAX_DEPTH : ~Prints(d, i)'
    BY <1>3, <1>4, <1>8, <2>1, Zenon
  <2>3. print_lock' # 1
    BY <1>8
  <2>4. QED
    BY <2>2, <2>3, Zenon DEF LockInv
<1>9. QED
  BY <1>6, <1>7, <1>8, Zenon

(* A handler is entered: its activity goes on top of the stack of c.       *)
LEMMA PushKeeps ==
  ASSUME CInv, NEW c \in CPUs, NEW fatal \in BOOLEAN, Len(ctx[c]) < MAX_DEPTH,
         ctx' = [ctx EXCEPT ![c] = <<Activity(intr[c], fatal)>> \o @],
         intr' = [intr EXCEPT ![c] = FALSE],
         UNCHANGED <<print_lock, text>>
  PROVE  CInv'
<1> DEFINE a == Activity(intr[c], fatal)
           s == <<a>> \o ctx[c]
<1>1. /\ ctx \in [CPUs -> Seq(Activities)] /\ intr \in [CPUs -> BOOLEAN] /\ print_lock \in {0, 1}
      /\ term_row \in 0 .. ROWS - 1 /\ term_col \in 0 .. COLS - 1 /\ MAX_DEPTH \in Nat
      /\ \A d \in CPUs : Len(ctx[d]) \in 1 .. MAX_DEPTH
  BY ConsoleAssumption, Zenon DEF CInv, StackType
<1>2. a \in Activities /\ a.at = "run" /\ ~a.flags /\ a.back = intr[c]
  BY <1>1 DEF Activities, Activity, Points
<1> HIDE DEF a
<1>3. /\ s \in Seq(Activities) /\ Len(s) = Len(ctx[c]) + 1 /\ s[1] = a
      /\ \A i \in 1 .. Len(ctx[c]) : s[i + 1] = ctx[c][i]
  BY <1>1, <1>2, PushSeq
<1> HIDE DEF s
<1>4. /\ ctx' \in [CPUs -> Seq(Activities)] /\ ctx'[c] = s
      /\ \A d \in CPUs \ {c} : ctx'[d] = ctx[d]
  BY <1>1, <1>3, Zenon DEF s, a
<1>5. ~intr'[c] /\ \A d \in CPUs \ {c} : intr'[d] = intr[d]
  BY <1>1, Zenon
<1>6. StackType'
  <2>1. \A d \in CPUs : Len(ctx'[d]) \in 1 .. MAX_DEPTH
    BY <1>1, <1>3, <1>4
  <2>2. intr' \in [CPUs -> BOOLEAN]
    BY <1>1, Zenon
  <2>3. QED
    BY <1>1, <1>4, <2>1, <2>2, Zenon DEF StackType, text
<1>7. MaskInv'
  <2> SUFFICES ASSUME NEW d \in CPUs PROVE MaskAt(d)'
    BY Zenon DEF MaskInv
  <2>1. MaskAt(d)
    BY Zenon DEF CInv, MaskInv
  <2>2. CASE d # c
    BY <1>4, <1>5, <2>1, <2>2, Zenon DEF MaskAt
  <2>3. CASE d = c
    <3>1. ASSUME NEW i \in 1 .. Len(s) - 1
          PROVE  ~s[i].flags /\ (s[i].back => i = Len(s) - 1 /\ s[i + 1].at = "run")
      <4>1. CASE i = 1
        <5>1. s[2] = ctx[c][1]
          BY <1>1, <1>3
        <5>2. intr[c] => Len(ctx[c]) = 1 /\ ctx[c][1].at = "run"
          BY <2>1, <2>3, Zenon DEF MaskAt
        <5>3. QED
          BY <1>1, <1>2, <1>3, <4>1, <5>1, <5>2
      <4>2. CASE i # 1
        <5>1. i - 1 \in 1 .. Len(ctx[c]) - 1 /\ i \in 1 .. Len(ctx[c]) /\ i - 1 \in 1 .. Len(ctx[c])
          BY <1>1, <1>3, <4>2
        <5>2. s[i] = ctx[c][i - 1] /\ s[i + 1] = ctx[c][i]
          BY <1>3, <5>1
        <5>3. /\ ~ctx[c][i - 1].flags
              /\ ctx[c][i - 1].back => i - 1 = Len(ctx[c]) - 1 /\ ctx[c][(i - 1) + 1].at = "run"
          BY <2>1, <2>3, <5>1 DEF MaskAt
        <5>4. (i - 1) + 1 = i /\ (i - 1 = Len(ctx[c]) - 1 => i = Len(s) - 1)
          BY <1>3, <5>1
        <5>5. QED
          BY <5>2, <5>3, <5>4, Zenon
      <4>3. QED
        BY <4>1, <4>2, Zenon
    <3>2. QED
      BY <1>4, <1>5, <2>3, <3>1, Zenon DEF MaskAt
  <2>4. QED
    BY <2>2, <2>3, Zenon
<1>8. LockInv'
  <2>1. \A d \in CPUs \ {c}, i \in 1 .. MAX_DEPTH : Prints(d, i)' <=> Prints(d, i)
    BY <1>4, Zenon DEF Prints
  <2>2. ~Prints(c, 1)'
    BY <1>2, <1>3, <1>4, Zenon DEF Prints
  <2>3. \A i \in 1 .. MAX_DEPTH : i # 1 => (Prints(c, i)' <=> Prints(c, i - 1)) /\ i - 1 \in 1 .. MAX_DEPTH
    <3> SUFFICES ASSUME NEW i \in 1 .. MAX_DEPTH, i # 1
                 PROVE  (Prints(c, i)' <=> Prints(c, i - 1)) /\ i - 1 \in 1 .. MAX_DEPTH
      BY Zenon
    <3>0. i \in Nat /\ Len(s) = Len(ctx[c]) + 1 /\ Len(ctx[c]) \in Nat
      BY <1>1, <1>3
    <3>1. i - 1 \in 1 .. MAX_DEPTH /\ (i \in 1 .. Len(s) <=> i - 1 \in 1 .. Len(ctx[c]))
      BY <1>1, <3>0
    <3>2. i \in 1 .. Len(s) => s[i] = ctx[c][i - 1]
      <4>1. \A k \in 1 .. Len(ctx[c]) : s[k + 1] = ctx[c][k]
        BY <1>3, Zenon
      <4>2. (i - 1) + 1 = i
        BY <3>0
      <4>3. QED
        BY <3>1, <4>1, <4>2, Zenon
    <3>3. QED
      BY <1>4, <3>1, <3>2, Zenon DEF Prints
  <2>4. \A i \in 1 .. MAX_DEPTH : Prints(c, i) => Prints(c, i + 1)' /\ i + 1 \in 1 .. MAX_DEPTH
    <3> SUFFICES ASSUME NEW i \in 1 .. MAX_DEPTH, Prints(c, i)
                 PROVE  Prints(c, i + 1)' /\ i + 1 \in 1 .. MAX_DEPTH
      BY Zenon
    <3>1. i \in 1 .. Len(ctx[c]) /\ ctx[c][i].at = "print"
      BY Zenon DEF Prints
    <3>2. i + 1 \in 1 .. Len(s) /\ s[i + 1] = ctx[c][i]
      BY <1>1, <1>3, <3>1
    <3>3. QED
      BY <1>1, <1>3, <1>4, <3>1, <3>2 DEF Prints
  <2>5. ASSUME NEW d \in CPUs, NEW e \in CPUs, NEW i \in 1 .. MAX_DEPTH,
               NEW j \in 1 .. MAX_DEPTH, Prints(d, i)', Prints(e, j)'
        PROVE  d = e /\ i = j
    <3>1. ASSUME NEW k \in CPUs, NEW m \in 1 .. MAX_DEPTH, Prints(k, m)'
          PROVE  \E n \in 1 .. MAX_DEPTH : Prints(k, n) /\ n = IF k = c THEN m - 1 ELSE m
      BY <2>1, <2>2, <2>3, <3>1
    <3>2. PICK n \in 1 .. MAX_DEPTH : Prints(d, n) /\ n = IF d = c THEN i - 1 ELSE i
      BY <2>5, <3>1, Zenon
    <3>3. PICK m \in 1 .. MAX_DEPTH : Prints(e, m) /\ m = IF e = c THEN j - 1 ELSE j
      BY <2>5, <3>1, Zenon
    <3>4. d = e /\ n = m
      BY <3>2, <3>3 DEF CInv, LockInv
    <3>5. QED
      BY <1>1, <3>2, <3>3, <3>4
  <2>6. (\E d \in CPUs, i \in 1 .. MAX_DEPTH : Prints(d, i)')
          <=> \E d \in CPUs, i \in 1 .. MAX_DEPTH : Prints(d, i)
    BY <2>1, <2>2, <2>3, <2>4, Zenon
  <2>7. print_lock' = print_lock
    BY Zenon
  <2>8. QED
    BY <2>5, <2>6, <2>7, Zenon DEF CInv, LockInv
<1>9. QED
  BY <1>6, <1>7, <1>8, Zenon DEF CInv

(* A handler returns to the activity below it.                             *)
LEMMA PopKeeps ==
  ASSUME CInv, NEW c \in CPUs, iretq(c)
  PROVE  CInv'
<1> DEFINE s == Tail(ctx[c])
<1>1. /\ ctx \in [CPUs -> Seq(Activities)] /\ intr \in [CPUs -> BOOLEAN] /\ print_lock \in {0, 1}
      /\ term_row \in 0 .. ROWS - 1 /\ term_col \in 0 .. COLS - 1 /\ MAX_DEPTH \in Nat
      /\ \A d \in CPUs : Len(ctx[d]) \in 1 .. MAX_DEPTH
      /\ ctx[c] \in Seq(Activities) /\ Len(ctx[c]) \in Nat /\ Len(ctx[c]) > 1
  BY ConsoleAssumption DEF CInv, StackType, iretq
<1>2. /\ ctx[c][1].at = "run" /\ ctx' = [ctx EXCEPT ![c] = s]
      /\ intr' = [intr EXCEPT ![c] = ctx[c][1].back] /\ UNCHANGED <<print_lock, text>>
  BY Zenon DEF iretq, top
<1>3. /\ s \in Seq(Activities) /\ Len(s) = Len(ctx[c]) - 1
      /\ \A i \in 1 .. Len(ctx[c]) - 1 : s[i] = ctx[c][i + 1]
  BY <1>1, PopSeq, Zenon
<1> HIDE DEF s
<1>4. /\ ctx' \in [CPUs -> Seq(Activities)] /\ ctx'[c] = s
      /\ \A d \in CPUs \ {c} : ctx'[d] = ctx[d]
  BY <1>1, <1>2, <1>3, Zenon
<1>5. ctx[c][1].back \in BOOLEAN
  <2>1. ctx[c][1] \in Activities
    BY <1>1
  <2>2. QED
    BY <2>1, Zenon DEF Activities
<1>6. intr'[c] = ctx[c][1].back /\ \A d \in CPUs \ {c} : intr'[d] = intr[d]
  BY <1>1, <1>2, Zenon
<1>7. StackType'
  <2>1. ASSUME NEW d \in CPUs PROVE Len(ctx'[d]) \in 1 .. MAX_DEPTH
    <3>1. Len(ctx[d]) \in 1 .. MAX_DEPTH /\ Len(ctx[c]) \in 1 .. MAX_DEPTH
      BY <1>1, Zenon
    <3>2. Len(s) \in 1 .. MAX_DEPTH
      BY <1>1, <1>3, <3>1
    <3>3. QED
      BY <1>4, <3>1, <3>2, Zenon
  <2>2. intr' \in [CPUs -> BOOLEAN]
    BY <1>1, <1>2, <1>5, Zenon
  <2>3. QED
    BY <1>1, <1>2, <1>4, <2>1, <2>2, Zenon DEF StackType, text
<1>8. MaskInv'
  <2> SUFFICES ASSUME NEW d \in CPUs PROVE MaskAt(d)'
    BY Zenon DEF MaskInv
  <2>1. MaskAt(d)
    BY Zenon DEF CInv, MaskInv
  <2>2. CASE d # c
    BY <1>4, <1>6, <2>1, <2>2, Zenon DEF MaskAt
  <2>3. CASE d = c
    <3>1. /\ 1 \in 1 .. Len(ctx[c]) - 1 /\ s[1] = ctx[c][1 + 1]
          /\ ctx[c][1].back => 1 = Len(ctx[c]) - 1 /\ ctx[c][1 + 1].at = "run"
      <4>1. 1 \in 1 .. Len(ctx[c]) - 1
        BY <1>1
      <4>2. s[1] = ctx[c][1 + 1]
        BY <1>3, <4>1, Zenon
      <4>3. ctx[c][1].back => 1 = Len(ctx[c]) - 1 /\ ctx[c][1 + 1].at = "run"
        BY <2>1, <2>3, <4>1, Zenon DEF MaskAt
      <4>4. QED
        BY <4>1, <4>2, <4>3, Zenon
    <3>2. ctx[c][1].back => Len(s) = 1 /\ s[1].at = "run"
      BY <1>1, <1>3, <3>1, Zenon
    <3>3. ASSUME NEW i \in 1 .. Len(s) - 1
          PROVE  ~s[i].flags /\ (s[i].back => i = Len(s) - 1 /\ s[i + 1].at = "run")
      <4>1. i \in 1 .. Len(ctx[c]) - 1 /\ i + 1 \in 1 .. Len(ctx[c]) - 1
        BY <1>1, <1>3
      <4>2. s[i] = ctx[c][i + 1] /\ s[i + 1] = ctx[c][(i + 1) + 1]
        BY <1>3, <4>1, Zenon
      <4>3. /\ ~ctx[c][i + 1].flags
            /\ ctx[c][i + 1].back => i + 1 = Len(ctx[c]) - 1 /\ ctx[c][(i + 1) + 1].at = "run"
        BY <2>1, <2>3, <4>1, Zenon DEF MaskAt
      <4>4. QED
        BY <1>1, <1>3, <4>2, <4>3
    <3>4. QED
      BY <1>4, <1>6, <2>3, <3>2, <3>3, Zenon DEF MaskAt
  <2>4. QED
    BY <2>2, <2>3, Zenon
<1>9. LockInv'
  <2>1. \A d \in CPUs \ {c}, i \in 1 .. MAX_DEPTH : Prints(d, i)' <=> Prints(d, i)
    BY <1>4, Zenon DEF Prints
  <2>2. ASSUME NEW i \in 1 .. MAX_DEPTH, Prints(c, i)
        PROVE  Prints(c, i - 1)' /\ i - 1 \in 1 .. MAX_DEPTH
    <3>1. i \in 1 .. Len(ctx[c]) /\ i # 1 /\ ctx[c][i].at = "print"
      BY <1>2, <2>2, Zenon DEF Prints
    <3>2. i - 1 \in 1 .. Len(ctx[c]) - 1 /\ i - 1 \in 1 .. MAX_DEPTH /\ (i - 1) + 1 = i
      BY <1>1, <3>1
    <3>3. s[i - 1] = ctx[c][i]
      BY <1>3, <3>2, Zenon
    <3>4. QED
      BY <1>3, <1>4, <3>1, <3>2, <3>3, Zenon DEF Prints
  <2>3. ASSUME NEW i \in 1 .. MAX_DEPTH, Prints(c, i)'
        PROVE  Prints(c, i + 1) /\ i + 1 \in 1 .. MAX_DEPTH
    <3>1. i \in 1 .. Len(ctx[c]) - 1 /\ s[i].at = "print" /\ s[i] = ctx[c][i + 1]
      BY <1>3, <1>4, <2>3, Zenon DEF Prints
    <3>2. i + 1 \in 1 .. Len(ctx[c]) /\ i + 1 \in 1 .. MAX_DEPTH
      BY <1>1, <3>1
    <3>3. QED
      BY <3>1, <3>2, Zenon DEF Prints
  <2>4. ASSUME NEW d \in CPUs, NEW e \in CPUs, NEW i \in 1 .. MAX_DEPTH,
               NEW j \in 1 .. MAX_DEPTH, Prints(d, i)', Prints(e, j)'
        PROVE  d = e /\ i = j
    <3>1. ASSUME NEW k \in CPUs, NEW m \in 1 .. MAX_DEPTH, Prints(k, m)'
          PROVE  \E n \in 1 .. MAX_DEPTH : Prints(k, n) /\ n = IF k = c THEN m + 1 ELSE m
      BY <2>1, <2>3, <3>1, Zenon
    <3>2. PICK n \in 1 .. MAX_DEPTH : Prints(d, n) /\ n = IF d = c THEN i + 1 ELSE i
      BY <2>4, <3>1, Zenon
    <3>3. PICK m \in 1 .. MAX_DEPTH : Prints(e, m) /\ m = IF e = c THEN j + 1 ELSE j
      BY <2>4, <3>1, Zenon
    <3>4. d = e /\ n = m
      BY <3>2, <3>3 DEF CInv, LockInv
    <3>5. QED
      BY <1>1, <3>2, <3>3, <3>4
  <2>5. (\E d \in CPUs, i \in 1 .. MAX_DEPTH : Prints(d, i)')
          <=> \E d \in CPUs, i \in 1 .. MAX_DEPTH : Prints(d, i)
    BY <2>1, <2>2, <2>3, Zenon
  <2>6. print_lock' = print_lock
    BY <1>2, Zenon
  <2>7. QED
    BY <2>4, <2>5, <2>6, Zenon DEF CInv, LockInv
<1>10. QED
  BY <1>7, <1>8, <1>9, Zenon DEF CInv

(* A step of the running activity, with the facts it owes.                 *)
LEMMA SetKeeps ==
  ASSUME CInv, NEW c \in CPUs, NEW a \in Activities, Set(c, a),
         NEW f \in BOOLEAN, intr' = [intr EXCEPT ![c] = f],
         f => Len(ctx[c]) = 1 /\ a.at = "run",
         a.back = top(c).back, Len(ctx[c]) > 1 => ~a.flags,
         \/ (top(c).at = "print" <=> a.at = "print") /\ print_lock' = print_lock
         \/ a.at = "print" /\ print_lock = 0 /\ print_lock' = 1
         \/ top(c).at = "print" /\ a.at # "print" /\ print_lock' = 0,
         term_row' \in 0 .. ROWS - 1, term_col' \in 0 .. COLS - 1
  PROVE  CInv'
<1>1. /\ StackType /\ MaskInv /\ LockInv /\ intr \in [CPUs -> BOOLEAN] /\ print_lock \in {0, 1}
      /\ \A d \in CPUs : Len(ctx[d]) \in 1 .. MAX_DEPTH
  BY Zenon DEF CInv, StackType
<1>2. intr' \in [CPUs -> BOOLEAN] /\ intr'[c] = f /\ \A d \in CPUs \ {c} : intr'[d] = intr[d]
  BY <1>1, Zenon
<1>3. ctx' \in [CPUs -> Seq(Activities)] /\ \A d \in CPUs : Len(ctx'[d]) = Len(ctx[d])
  BY <1>1, SetStacks, Zenon
<1>4. StackType'
  <2>1. print_lock' \in {0, 1}
    BY <1>1, Zenon
  <2>2. QED
    BY <1>1, <1>2, <1>3, <2>1, Zenon DEF StackType
<1>5. MaskInv'
  BY <1>1, <1>2, SetKeepsMask, Zenon
<1>6. LockInv'
  BY <1>1, SetKeepsLock, Zenon
<1>7. QED
  BY <1>4, <1>5, <1>6, Zenon DEF CInv

(* The running activity and its CPU.                                       *)
LEMMA TopFacts ==
  ASSUME CInv, NEW c \in CPUs
  PROVE  /\ top(c) \in Activities /\ Len(ctx[c]) \in Nat \ {0}
         /\ intr[c] \in BOOLEAN /\ (intr[c] => Len(ctx[c]) = 1 /\ top(c).at = "run")
         /\ Len(ctx[c]) > 1 => ~top(c).flags
         /\ term_row \in 0 .. ROWS - 1 /\ term_col \in 0 .. COLS - 1 /\ print_lock \in {0, 1}
         /\ intr \in [CPUs -> BOOLEAN] /\ intr = [intr EXCEPT ![c] = intr[c]]
<1>1. /\ ctx[c] \in Seq(Activities) /\ Len(ctx[c]) \in Nat \ {0} /\ intr \in [CPUs -> BOOLEAN]
      /\ term_row \in 0 .. ROWS - 1 /\ term_col \in 0 .. COLS - 1 /\ print_lock \in {0, 1}
  BY ConsoleAssumption DEF CInv, StackType
<1>2. MaskAt(c)
  BY Zenon DEF CInv, MaskInv
<1>3. Len(ctx[c]) > 1 => 1 \in 1 .. Len(ctx[c]) - 1
  BY <1>1
<1>4. QED
  BY <1>1, <1>2, <1>3 DEF MaskAt, top

(* The cursor stays on the screen.                                         *)
LEMMA CursorKeeps ==
  ASSUME term_row \in 0 .. ROWS - 1, term_col \in 0 .. COLS - 1, NEW x, putc_vga(x)
  PROVE  term_row' \in 0 .. ROWS - 1 /\ term_col' \in 0 .. COLS - 1
BY ConsoleAssumption DEF putc_vga, down

(* The console starts with the cursor at the origin and the lock free.     *)
LEMMA InitC == Init => CInv
<1> SUFFICES ASSUME Init PROVE CInv
  BY Zenon
<1>1. Activity(FALSE, FALSE) \in Activities
  BY DEF Activity, Activities, Points
<1>2. \A c \in CPUs : ctx[c] = <<Activity(FALSE, FALSE)>> /\ ~intr[c]
  BY Zenon DEF Init
<1> DEFINE a == Activity(FALSE, FALSE)
<1>3. a.at = "run"
  BY Zenon DEF Activity
<1>4. StackType
  <2> HIDE DEF a
  <2>1. a \in Activities /\ ctx = [c \in CPUs |-> <<a>>]
    BY <1>1, Zenon DEF a, Init
  <2>2. <<a>> \in Seq(Activities) /\ Len(<<a>>) = 1
    BY <2>1
  <2>3. ctx \in [CPUs -> Seq(Activities)] /\ \A c \in CPUs : Len(ctx[c]) = 1
    BY <2>1, <2>2, Zenon
  <2>4. 0 \in 0 .. ROWS - 1 /\ 0 \in 0 .. COLS - 1 /\ 1 \in 1 .. MAX_DEPTH
    BY ConsoleAssumption
  <2>5. intr \in [CPUs -> BOOLEAN] /\ term_row = 0 /\ term_col = 0 /\ print_lock = 0
    BY Zenon DEF Init
  <2>6. QED
    BY <2>3, <2>4, <2>5, Zenon DEF StackType
<1>5. \A c \in CPUs : Len(ctx[c]) = 1 /\ ctx[c][1] = a
  <2>1. \A c \in CPUs : ctx[c] = <<a>>
    BY <1>2, Zenon
  <2> HIDE DEF a
  <2>2. QED
    BY <2>1
<1> HIDE DEF a
<1>6. MaskInv
  <2>1. \A c \in CPUs : ~intr[c]
    BY <1>2, Zenon
  <2>2. \A c \in CPUs : 1 .. Len(ctx[c]) - 1 = {}
    <3>1. 1 .. 1 - 1 = {}
      OBVIOUS
    <3>2. QED
      BY <1>5, <3>1, Zenon
  <2>3. QED
    BY <2>1, <2>2, Zenon DEF MaskInv, MaskAt
<1>7. \A c \in CPUs, i \in 1 .. MAX_DEPTH : ~Prints(c, i)
  BY <1>3, <1>5, ConsoleAssumption DEF Prints
<1>8. LockInv
  BY <1>7 DEF Init, LockInv
<1>9. QED
  BY <1>4, <1>6, <1>8, Zenon DEF CInv

(* Every step keeps the invariant.                                         *)
LEMMA NextC == CInv /\ [Next]_vars => CInv'
<1> SUFFICES ASSUME CInv, [Next]_vars PROVE CInv'
  BY Zenon
<1>1. ASSUME NEW c \in CPUs, NEW str \in Strings, kprint_cli(c, str) PROVE CInv'
  <2> DEFINE a == [top(c) EXCEPT !.at = "spin", !.rest = str, !.flags = intr[c]]
  <2>1. str \in Seq({"x", "nl"})
    BY ConsoleAssumption, Zenon
  <2>2. a \in Activities /\ a.at = "spin" /\ a.flags = intr[c] /\ a.back = top(c).back
    BY <2>1, TopFacts, Zenon DEF Activities, Points
  <2>3. Set(c, a) /\ intr' = [intr EXCEPT ![c] = FALSE] /\ top(c).at = "run"
        /\ UNCHANGED <<print_lock, term_row, term_col>>
    BY <1>1, Zenon DEF kprint_cli, masked, text
  <2> HIDE DEF a
  <2>4. Len(ctx[c]) > 1 => ~a.flags
    <3>1. Len(ctx[c]) > 1 => Len(ctx[c]) # 1
      <4>1. ~(1 > 1)
        OBVIOUS
      <4>2. QED
        BY <4>1, Zenon
    <3>2. intr[c] => Len(ctx[c]) = 1
      BY TopFacts, Zenon
    <3>3. QED
      BY <2>2, <3>1, <3>2, Zenon
  <2>5. /\ (top(c).at = "print" <=> a.at = "print") /\ print_lock' = print_lock
        /\ term_row' \in 0 .. ROWS - 1 /\ term_col' \in 0 .. COLS - 1
    BY <2>2, <2>3, TopFacts, Zenon
  <2>6. QED
    BY <2>2, <2>3, <2>4, <2>5, SetKeeps, Zenon
<1>2. ASSUME NEW c \in CPUs, print_lock_acquire(c) PROVE CInv'
  <2> DEFINE a == [top(c) EXCEPT !.at = "print"]
  <2>1. a \in Activities /\ a.at = "print" /\ a.flags = top(c).flags /\ a.back = top(c).back
    BY TopFacts, Zenon DEF Activities, Points
  <2>2. /\ Set(c, a) /\ intr' = [intr EXCEPT ![c] = intr[c]] /\ top(c).at = "spin"
        /\ print_lock = 0 /\ print_lock' = 1 /\ UNCHANGED <<term_row, term_col>>
    BY <1>2, TopFacts, Zenon DEF print_lock_acquire, text
  <2> HIDE DEF a
  <2>3. QED
    BY <2>1, <2>2, TopFacts, SetKeeps, Zenon
<1>3. ASSUME NEW c \in CPUs, kprint_putc(c) PROVE CInv'
  <2> DEFINE a == [top(c) EXCEPT !.rest = Tail(top(c).rest)]
  <2>1. a \in Activities /\ a.at = top(c).at /\ a.flags = top(c).flags /\ a.back = top(c).back
    <3>1. top(c) \in Activities /\ top(c).rest \in Seq({"x", "nl"}) /\ top(c).rest # << >>
      BY <1>3, TopFacts, Zenon DEF Activities, kprint_putc
    <3>2. Tail(top(c).rest) \in Seq({"x", "nl"})
      BY <3>1
    <3>3. QED
      BY <3>1, <3>2, Zenon DEF Activities
  <2>2. /\ Set(c, a) /\ intr' = [intr EXCEPT ![c] = intr[c]] /\ top(c).at = "print"
        /\ UNCHANGED print_lock /\ putc_vga(Head(top(c).rest))
    BY <1>3, TopFacts, Zenon DEF kprint_putc
  <2> HIDE DEF a
  <2>3. term_row' \in 0 .. ROWS - 1 /\ term_col' \in 0 .. COLS - 1
    BY <2>2, TopFacts, CursorKeeps, Zenon
  <2>4. QED
    BY <2>1, <2>2, <2>3, TopFacts, SetKeeps, Zenon
<1>4. ASSUME NEW c \in CPUs, print_lock_release(c) PROVE CInv'
  <2> DEFINE a == [top(c) EXCEPT !.at = "sti"]
  <2>1. a \in Activities /\ a.at = "sti" /\ a.flags = top(c).flags /\ a.back = top(c).back
    BY TopFacts, Zenon DEF Activities, Points
  <2>2. /\ Set(c, a) /\ intr' = [intr EXCEPT ![c] = intr[c]] /\ top(c).at = "print"
        /\ print_lock' = 0 /\ UNCHANGED <<term_row, term_col>>
    BY <1>4, TopFacts, Zenon DEF print_lock_release, text
  <2> HIDE DEF a
  <2>3. QED
    BY <2>1, <2>2, TopFacts, SetKeeps, Zenon
<1>5. ASSUME NEW c \in CPUs, kprint_sti(c) PROVE CInv'
  <2> DEFINE a == [top(c) EXCEPT !.at = "run"]
             f == intr[c] \/ top(c).flags
  <2>1. a \in Activities /\ a.at = "run" /\ a.flags = top(c).flags /\ a.back = top(c).back
    BY TopFacts, Zenon DEF Activities, Points
  <2>2. /\ Set(c, a) /\ intr' = [intr EXCEPT ![c] = f] /\ top(c).at = "sti"
        /\ UNCHANGED <<print_lock, term_row, term_col>>
    BY <1>5, Zenon DEF kprint_sti, restored, text
  <2>3. f \in BOOLEAN /\ (f => Len(ctx[c]) = 1)
    <3>1. top(c).flags \in BOOLEAN /\ intr[c] \in BOOLEAN /\ ~intr[c]
      BY <2>2, TopFacts, Zenon DEF Activities
    <3>2. Len(ctx[c]) > 1 => ~top(c).flags
      BY TopFacts, Zenon
    <3>3. Len(ctx[c]) \in Nat \ {0}
      BY TopFacts, Zenon
    <3>4. f \in BOOLEAN
      BY <3>1, Zenon
    <3>5. f => top(c).flags
      BY <3>1, Zenon
    <3>6. f => ~(Len(ctx[c]) > 1)
      BY <3>2, <3>5, Zenon
    <3>7. ~(Len(ctx[c]) > 1) => Len(ctx[c]) = 1
      <4>1. \A n \in Nat \ {0} : ~(n > 1) => n = 1
        OBVIOUS
      <4>2. QED
        BY <3>3, <4>1, Zenon
    <3>8. QED
      BY <3>4, <3>6, <3>7, Zenon
  <2> HIDE DEF a, f
  <2>4. QED
    BY <2>1, <2>2, <2>3, TopFacts, SetKeeps, Zenon
<1>6. ASSUME NEW c \in CPUs, sti(c) PROVE CInv'
  <2>1. /\ intr' = [intr EXCEPT ![c] = TRUE] /\ Len(ctx[c]) = 1 /\ top(c).at = "run"
        /\ UNCHANGED <<print_lock, term_row, term_col, ctx>>
    BY <1>6, Zenon DEF sti, text
  <2>2. intr' \in [CPUs -> BOOLEAN] /\ intr'[c] /\ \A d \in CPUs \ {c} : intr'[d] = intr[d]
    BY <2>1, TopFacts, Zenon
  <2>3. StackType'
    BY <2>1, <2>2, Zenon DEF CInv, StackType
  <2>4. MaskInv'
    BY <2>1, <2>2, Zenon DEF CInv, MaskInv, MaskAt, top
  <2>5. LockInv'
    BY <2>1 DEF CInv, LockInv, Prints
  <2>6. QED
    BY <2>3, <2>4, <2>5, Zenon DEF CInv
<1>7. ASSUME NEW c \in CPUs, interrupt(c) PROVE CInv'
  <2>1. intr[c] = TRUE
    BY <1>7, TopFacts, Zenon DEF interrupt
  <2>2. QED
    BY <1>7, <2>1, PushKeeps, Zenon DEF interrupt
<1>8. ASSUME NEW c \in CPUs, iretq(c) PROVE CInv'
  BY <1>8, PopKeeps, Zenon
<1>9. ASSUME NEW c \in CPUs, exception(c) PROVE CInv'
  BY <1>9, PushKeeps, Zenon DEF exception
<1>10. ASSUME NEW c \in CPUs, halt(c) PROVE CInv'
  <2> DEFINE a == [top(c) EXCEPT !.at = "halt"]
  <2>1. a \in Activities /\ a.at = "halt" /\ a.flags = top(c).flags /\ a.back = top(c).back
    BY TopFacts, Zenon DEF Activities, Points
  <2>2. /\ Set(c, a) /\ intr' = [intr EXCEPT ![c] = FALSE] /\ top(c).at = "run"
        /\ UNCHANGED <<print_lock, term_row, term_col>>
    BY <1>10, Zenon DEF halt, text
  <2> HIDE DEF a
  <2>3. QED
    BY <2>1, <2>2, TopFacts, SetKeeps, Zenon
<1>11. CASE UNCHANGED vars
  <2>1. UNCHANGED <<print_lock, term_row, term_col, intr, ctx>>
    BY <1>11, Zenon DEF vars, text
  <2>2. StackType' /\ MaskInv' /\ LockInv'
    BY <2>1 DEF CInv, StackType, MaskInv, MaskAt, LockInv, Prints
  <2>3. QED
    BY <2>2, Zenon DEF CInv
<1>12. QED
  BY <1>1, <1>2, <1>3, <1>4, <1>5, <1>6, <1>7, <1>8, <1>9, <1>10, <1>11, Zenon DEF Next, kprintStep

(* The invariant in every reachable state.                                 *)
LEMMA AlwaysC == Spec => []CInv
BY InitC, NextC, PTL DEF Spec
-----------------------------------------------------------------------------
(* The cursor and every other variable keep their types: each character is *)
(* stored inside the text buffer.                                          *)
THEOREM ConsoleTypes == Spec => []TypeOK
<1>1. CInv => TypeOK
  <2> SUFFICES ASSUME CInv PROVE TypeOK
    BY Zenon
  <2>1. ASSUME NEW c \in CPUs, NEW i \in DOMAIN ctx[c]
        PROVE  /\ ctx[c][i].at \in Points
               /\ {ctx[c][i].flags, ctx[c][i].back, ctx[c][i].fatal} \subseteq BOOLEAN
    <3>1. ctx[c] \in Seq(Activities)
      BY Zenon DEF CInv, StackType
    <3>2. ctx[c][i] \in Activities
      BY <3>1
    <3>3. QED
      BY <3>2, Zenon DEF Activities
  <2>2. QED
    BY <2>1, Zenon DEF CInv, StackType, TypeOK
<1>2. QED
  BY <1>1, AlwaysC, PTL

(* The characters of two strings never mix, and print_lock is set exactly  *)
(* while one is being printed, whatever faults happen where.               *)
THEOREM StringsUnmixed == Spec => []Unmixed
<1>1. CInv => Unmixed
  <2> SUFFICES ASSUME CInv PROVE Unmixed
    BY Zenon
  <2>1. \A p \in CPUs \X (1 .. MAX_DEPTH) : p \in Printing <=> Prints(p[1], p[2])
    <3> SUFFICES ASSUME NEW p \in CPUs \X (1 .. MAX_DEPTH)
                 PROVE  p \in Printing <=> Prints(p[1], p[2])
      BY Zenon
    <3>1. p[1] \in CPUs /\ p[2] \in 1 .. MAX_DEPTH /\ Len(ctx[p[1]]) \in Nat
      BY DEF CInv, StackType
    <3>2. p[2] <= Len(ctx[p[1]]) <=> p[2] \in 1 .. Len(ctx[p[1]])
      BY <3>1, ConsoleAssumption
    <3>3. QED
      BY <3>1, <3>2, Zenon DEF Printing, Prints
  <2>2. CASE print_lock = 1
    <3>1. PICK c \in CPUs, i \in 1 .. MAX_DEPTH : Prints(c, i)
      BY <2>2, Zenon DEF CInv, LockInv
    <3>2. ASSUME NEW p \in Printing PROVE p = <<c, i>>
      <4>1. p \in CPUs \X (1 .. MAX_DEPTH)
        BY Zenon DEF Printing
      <4>2. p[1] = c /\ p[2] = i
        BY <2>1, <3>1, <4>1 DEF CInv, LockInv
      <4>3. QED
        BY <4>1, <4>2
    <3>3. <<c, i>> \in Printing
      BY <2>1, <3>1, Zenon
    <3>4. Printing = {<<c, i>>}
      BY <3>2, <3>3, Zenon
    <3>5. QED
      BY <2>2, <3>4, FS_Singleton, Zenon DEF Unmixed
  <2>3. CASE print_lock = 0
    <3>1. \A c \in CPUs, i \in 1 .. MAX_DEPTH : ~Prints(c, i)
      BY <2>3 DEF CInv, LockInv
    <3>2. \A p \in Printing : p \in CPUs \X (1 .. MAX_DEPTH)
      BY Zenon DEF Printing
    <3>3. Printing = {}
      BY <2>1, <3>1, <3>2, Zenon
    <3>4. QED
      BY <2>3, <3>3, FS_EmptySet, Zenon DEF Unmixed
  <2>4. QED
    BY <2>2, <2>3, Zenon DEF CInv, StackType
<1>2. QED
  BY <1>1, AlwaysC, PTL

(* Interrupt and exception handlers run masked to their end, however many  *)
(* strings they print.                                                     *)
THEOREM HandlersStayMasked == Spec => []HandlersMasked
<1>1. CInv => HandlersMasked
  <2> SUFFICES ASSUME CInv, NEW c \in CPUs, Len(ctx[c]) > 1 PROVE ~intr[c]
    BY Zenon DEF HandlersMasked
  <2>1. intr[c] => Len(ctx[c]) = 1
    BY Zenon DEF CInv, MaskInv, MaskAt
  <2>2. Len(ctx[c]) # 1
    <3>1. ~(1 > 1)
      OBVIOUS
    <3>2. QED
      BY <3>1, Zenon
  <2>3. QED
    BY <2>1, <2>2, Zenon
<1>2. QED
  BY <1>1, AlwaysC, PTL

(* A step that changes only the running activity interrupts nothing.       *)
LEMMA SetOuter ==
  ASSUME CInv, OuterOut, NEW c \in CPUs, NEW a \in Activities, Set(c, a)
  PROVE  OuterOut'
<1> SUFFICES ASSUME NEW d \in CPUs, NEW i \in 2 .. Len(ctx'[d]) PROVE ctx'[d][i].at # "print"
  BY Zenon DEF OuterOut
<1>1. Len(ctx'[d]) = Len(ctx[d]) /\ Len(ctx[d]) \in Nat
  BY SetStacks DEF CInv, StackType
<1>2. i \in 2 .. Len(ctx[d]) /\ i \in 1 .. Len(ctx[d]) /\ i # 1
  BY <1>1
<1>3. ctx'[d][i] = ctx[d][i]
  BY <1>2, SetStacks, Zenon DEF CInv
<1>4. QED
  BY <1>2, <1>3, Zenon DEF OuterOut

(* Interrupting an activity that is not printing keeps OuterOut.           *)
LEMMA PushOuter ==
  ASSUME CInv, OuterOut, NEW c \in CPUs, NEW fatal \in BOOLEAN, top(c).at # "print",
         ctx' = [ctx EXCEPT ![c] = <<Activity(intr[c], fatal)>> \o @]
  PROVE  OuterOut'
<1> DEFINE a == Activity(intr[c], fatal)
           s == <<a>> \o ctx[c]
<1>1. /\ ctx \in [CPUs -> Seq(Activities)] /\ ctx[c] \in Seq(Activities) /\ intr[c] \in BOOLEAN
      /\ Len(ctx[c]) \in Nat
  BY DEF CInv, StackType
<1>2. a \in Activities
  BY <1>1 DEF Activities, Activity, Points
<1> HIDE DEF a
<1>3. /\ s \in Seq(Activities) /\ Len(s) = Len(ctx[c]) + 1
      /\ \A i \in 1 .. Len(ctx[c]) : s[i + 1] = ctx[c][i]
  BY <1>1, <1>2, PushSeq
<1> HIDE DEF s
<1>4. ctx'[c] = s /\ \A d \in CPUs \ {c} : ctx'[d] = ctx[d]
  BY <1>1, Zenon DEF s, a
<1>5. ASSUME NEW i \in 2 .. Len(s) PROVE s[i].at # "print"
  <2>1. i - 1 \in 1 .. Len(ctx[c]) /\ (i - 1) + 1 = i /\ (i # 2 => i - 1 \in 2 .. Len(ctx[c]))
    BY <1>1, <1>3
  <2>2. s[i] = ctx[c][i - 1]
    BY <1>3, <2>1, Zenon
  <2>3. CASE i = 2
    BY <2>2, <2>3 DEF top
  <2>4. CASE i # 2
    BY <2>1, <2>2, <2>4, Zenon DEF OuterOut
  <2>5. QED
    BY <2>3, <2>4, Zenon
<1>6. QED
  BY <1>4, <1>5, Zenon DEF OuterOut

(* Returning from a handler keeps OuterOut.                                *)
LEMMA PopOuter ==
  ASSUME CInv, OuterOut, NEW c \in CPUs, iretq(c)
  PROVE  OuterOut'
<1> DEFINE s == Tail(ctx[c])
<1>1. /\ ctx \in [CPUs -> Seq(Activities)] /\ ctx[c] \in Seq(Activities) /\ Len(ctx[c]) \in Nat
      /\ Len(ctx[c]) > 1
  BY DEF CInv, StackType, iretq
<1>2. /\ s \in Seq(Activities) /\ Len(s) = Len(ctx[c]) - 1
      /\ \A i \in 1 .. Len(ctx[c]) - 1 : s[i] = ctx[c][i + 1]
  BY <1>1, PopSeq, Zenon
<1>3. ctx'[c] = s /\ \A d \in CPUs \ {c} : ctx'[d] = ctx[d]
  BY <1>1, Zenon DEF iretq
<1> HIDE DEF s
<1>4. ASSUME NEW i \in 2 .. Len(s) PROVE s[i].at # "print"
  <2>1. i \in 1 .. Len(ctx[c]) - 1 /\ i + 1 \in 2 .. Len(ctx[c])
    BY <1>1, <1>2
  <2>2. s[i] = ctx[c][i + 1]
    BY <1>2, <2>1, Zenon
  <2>3. QED
    BY <2>1, <2>2, Zenon DEF OuterOut
<1>5. QED
  BY <1>3, <1>4, Zenon DEF OuterOut

(* Provided no exception is raised in the middle of a string (kprint       *)
(* touches only its argument and the text buffer), a handler never waits   *)
(* for a print_lock that the code under it holds.  The proviso is needed:  *)
(* an exception there leaves the CPU spinning on its own lock.             *)
THEOREM NoWaitOnSelf ==
  ASSUME "print" \notin FaultPoints
  PROVE  Spec => []NoSelfDeadlock
<1>1. Init => OuterOut
  <2> SUFFICES ASSUME Init, NEW c \in CPUs, NEW i \in 2 .. Len(ctx[c]) PROVE FALSE
    BY Zenon DEF OuterOut
  <2> DEFINE a == Activity(FALSE, FALSE)
  <2>1. ctx[c] = <<a>>
    BY Zenon DEF Init
  <2> HIDE DEF a
  <2>2. Len(<<a>>) = 1
    BY Zenon
  <2>3. i \in 2 .. 1
    BY <2>1, <2>2, Zenon
  <2>4. QED
    BY <2>3
<1>2. CInv /\ OuterOut /\ [Next]_vars => OuterOut'
  <2> SUFFICES ASSUME CInv, OuterOut, [Next]_vars PROVE OuterOut'
    BY Zenon
  <2>1. ASSUME NEW c \in CPUs, NEW str \in Strings, kprint_cli(c, str) PROVE OuterOut'
    <3>1. str \in Seq({"x", "nl"})
      BY ConsoleAssumption, Zenon
    <3>2. [top(c) EXCEPT !.at = "spin", !.rest = str, !.flags = intr[c]] \in Activities
      BY <3>1, TopFacts, Zenon DEF Activities, Points
    <3>3. QED
      BY <2>1, <3>2, SetOuter, Zenon DEF kprint_cli
  <2>2. ASSUME NEW c \in CPUs, NEW p \in Points, Set(c, [top(c) EXCEPT !.at = p]) PROVE OuterOut'
    <3>1. [top(c) EXCEPT !.at = p] \in Activities
      BY TopFacts, Zenon DEF Activities
    <3>2. QED
      BY <2>2, <3>1, SetOuter, Zenon
  <2>3. ASSUME NEW c \in CPUs, kprint_putc(c) PROVE OuterOut'
    <3>1. top(c) \in Activities /\ top(c).rest \in Seq({"x", "nl"}) /\ top(c).rest # << >>
      BY <2>3, TopFacts, Zenon DEF Activities, kprint_putc
    <3>2. Tail(top(c).rest) \in Seq({"x", "nl"})
      BY <3>1
    <3>3. [top(c) EXCEPT !.rest = Tail(top(c).rest)] \in Activities
      BY <3>1, <3>2, Zenon DEF Activities
    <3>4. Set(c, [top(c) EXCEPT !.rest = Tail(top(c).rest)])
      BY <2>3, Zenon DEF kprint_putc
    <3>5. QED
      BY <3>3, <3>4, SetOuter, Zenon
  <2>4. ASSUME NEW c \in CPUs, print_lock_acquire(c) \/ print_lock_release(c) \/ kprint_sti(c) \/ halt(c)
        PROVE  OuterOut'
    BY <2>2, <2>4, Zenon DEF print_lock_acquire, print_lock_release, kprint_sti, halt, Points
  <2>5. ASSUME NEW c \in CPUs, interrupt(c) PROVE OuterOut'
    <3>1. intr[c] = TRUE /\ top(c).at = "run"
      BY <2>5, TopFacts, Zenon DEF interrupt
    <3>2. QED
      BY <2>5, <3>1, PushOuter, Zenon DEF interrupt
  <2>6. ASSUME NEW c \in CPUs, exception(c) PROVE OuterOut'
    <3>1. top(c).at # "print"
      BY <2>6, Zenon DEF exception
    <3>2. QED
      BY <2>6, <3>1, PushOuter, Zenon DEF exception
  <2>7. ASSUME NEW c \in CPUs, iretq(c) PROVE OuterOut'
    BY <2>7, PopOuter, Zenon
  <2>8. CASE UNCHANGED ctx
    BY <2>8, Zenon DEF OuterOut
  <2>9. QED
    BY <2>1, <2>3, <2>4, <2>5, <2>6, <2>7, <2>8, Zenon DEF Next, kprintStep, sti, vars
<1>3. OuterOut => NoSelfDeadlock
  BY Zenon DEF OuterOut, NoSelfDeadlock
<1>4. QED
  BY <1>1, <1>2, <1>3, AlwaysC, PTL DEF Spec
-----------------------------------------------------------------------------
KInv ==
  /\ KbdTypeOK
  /\ push \in {"store", "advance"} => ~full
  /\ push = "advance" => kbd_buffer[kbd_head] = ch
  /\ pop \in {"load", "advance"} => kbd_tail # kbd_head
  /\ pop = "advance" => out = kbd_buffer[kbd_tail]
-----------------------------------------------------------------------------
(* Remainders of numbers below twice the size of the buffer.               *)
LEMMA ModSmall ==
  ASSUME NEW n \in Nat \ {0}, NEW x \in 0 .. 2 * n - 1
  PROVE  x % n = IF x < n THEN x ELSE x - n
OBVIOUS

(* The slot after slot j.                                                  *)
LEMMA NextSlot ==
  ASSUME NEW j \in Slots
  PROVE  /\ next_slot(j) = IF j = KBD_BUF_SIZE - 1 THEN 0 ELSE j + 1
         /\ next_slot(j) \in Slots
<1>1. KBD_BUF_SIZE \in Nat \ {0}
  BY KeyAssumption, Zenon
<1> DEFINE x == j + 1
<1>2. x \in 0 .. 2 * KBD_BUF_SIZE - 1 /\ next_slot(j) = x % KBD_BUF_SIZE
  BY <1>1 DEF Slots, next_slot
<1> HIDE DEF x
<1>3. next_slot(j) = IF x < KBD_BUF_SIZE THEN x ELSE x - KBD_BUF_SIZE
  BY <1>1, <1>2, ModSmall, Zenon
<1>4. QED
  BY <1>1, <1>3 DEF Slots, x

\* count and contents as functions of the ring, and the slot of the k-th
\* character.
Count(h, t) == (h + KBD_BUF_SIZE - t) % KBD_BUF_SIZE
Place(t, k) == IF t + k - 1 < KBD_BUF_SIZE THEN t + k - 1 ELSE t + k - 1 - KBD_BUF_SIZE
Contents(b, h, t) == [k \in 1 .. Count(h, t) |-> b[(t + k - 1) % KBD_BUF_SIZE]]

(* The number of characters in the ring.                                   *)
LEMMA CountIs ==
  ASSUME NEW h \in Slots, NEW t \in Slots
  PROVE  /\ Count(h, t) = IF t <= h THEN h - t ELSE h + KBD_BUF_SIZE - t
         /\ Count(h, t) \in Slots
<1>1. KBD_BUF_SIZE \in Nat \ {0}
  BY KeyAssumption, Zenon
<1> DEFINE x == h + KBD_BUF_SIZE - t
<1>2. x \in 0 .. 2 * KBD_BUF_SIZE - 1 /\ Count(h, t) = x % KBD_BUF_SIZE
  BY <1>1 DEF Slots, Count
<1> HIDE DEF x
<1>3. Count(h, t) = IF x < KBD_BUF_SIZE THEN x ELSE x - KBD_BUF_SIZE
  BY <1>1, <1>2, ModSmall, Zenon
<1>4. QED
  BY <1>1, <1>3 DEF Slots, x

(* Where the characters of the ring are: not in the slot of its head.      *)
LEMMA ContentsAre ==
  ASSUME NEW b \in [Slots -> Chars], NEW h \in Slots, NEW t \in Slots
  PROVE  /\ Contents(b, h, t) = [k \in 1 .. Count(h, t) |-> b[Place(t, k)]]
         /\ \A k \in 1 .. Count(h, t) : Place(t, k) \in Slots /\ Place(t, k) # h
         /\ Contents(b, h, t) \in Seq(Chars) /\ Len(Contents(b, h, t)) = Count(h, t)
<1>1. KBD_BUF_SIZE \in Nat \ {0} /\ Count(h, t) \in Slots
  BY CountIs, KeyAssumption, Zenon
<1>2. ASSUME NEW k \in 1 .. Count(h, t)
      PROVE  /\ (t + k - 1) % KBD_BUF_SIZE = Place(t, k)
             /\ Place(t, k) \in Slots /\ Place(t, k) # h
  <2> DEFINE x == t + k - 1
  <2>1. x \in 0 .. 2 * KBD_BUF_SIZE - 1
    BY <1>1 DEF Slots
  <2>2. x % KBD_BUF_SIZE = Place(t, k)
    <3>1. Place(t, k) = IF x < KBD_BUF_SIZE THEN x ELSE x - KBD_BUF_SIZE
      BY <1>1 DEF Place, Slots
    <3> HIDE DEF x
    <3>2. QED
      BY <1>1, <2>1, <3>1, ModSmall, Zenon
  <2>3. Place(t, k) \in Slots
    BY <1>1 DEF Place, Slots
  <2>4. Place(t, k) # h
    <3>1. Count(h, t) = IF t <= h THEN h - t ELSE h + KBD_BUF_SIZE - t
      BY CountIs, Zenon
    <3>2. CASE t <= h
      BY <1>1, <3>1, <3>2 DEF Place, Slots
    <3>3. CASE ~(t <= h)
      BY <1>1, <3>1, <3>3 DEF Place, Slots
    <3>4. QED
      BY <3>2, <3>3, Zenon
  <2>5. QED
    BY <2>2, <2>3, <2>4, Zenon
<1>3. Contents(b, h, t) = [k \in 1 .. Count(h, t) |-> b[Place(t, k)]]
  BY <1>2, Zenon DEF Contents
<1>4. \A k \in 1 .. Count(h, t) : b[Place(t, k)] \in Chars
  BY <1>2, Zenon
<1>5. Count(h, t) \in Nat
  BY <1>1 DEF Slots
<1>6. Contents(b, h, t) \in Seq(Chars) /\ Len(Contents(b, h, t)) = Count(h, t)
  BY <1>3, <1>4, <1>5
<1>7. QED
  BY <1>2, <1>3, <1>6, Zenon

(* The producer's store is outside what the reader may read.               *)
LEMMA StoreUnseen ==
  ASSUME NEW b \in [Slots -> Chars], NEW h \in Slots, NEW t \in Slots, NEW x \in Chars
  PROVE  Contents([b EXCEPT ![h] = x], h, t) = Contents(b, h, t)
<1> DEFINE b2 == [b EXCEPT ![h] = x]
<1>1. b2 \in [Slots -> Chars]
  BY Zenon
<1>2. \A k \in 1 .. Count(h, t) : b2[Place(t, k)] = b[Place(t, k)]
  BY ContentsAre, Zenon
<1> HIDE DEF b2
<1>3. Contents(b2, h, t) = [k \in 1 .. Count(h, t) |-> b2[Place(t, k)]]
  BY <1>1, ContentsAre, Zenon
<1>4. Contents(b, h, t) = [k \in 1 .. Count(h, t) |-> b[Place(t, k)]]
  BY ContentsAre, Zenon
<1>5. Contents(b2, h, t) = Contents(b, h, t)
  BY <1>2, <1>3, <1>4, Zenon
<1>6. QED
  BY <1>5, Zenon DEF b2

(* Publishing the head of a ring that is not full appends one character.   *)
LEMMA AdvanceHead ==
  ASSUME NEW b \in [Slots -> Chars], NEW h \in Slots, NEW t \in Slots, next_slot(h) # t
  PROVE  /\ Contents(b, next_slot(h), t) = Append(Contents(b, h, t), b[h])
         /\ Len(Contents(b, h, t)) < KBD_BUF_SIZE - 1
<1>1. KBD_BUF_SIZE \in Nat \ {0} /\ Count(h, t) \in Slots /\ next_slot(h) \in Slots
  BY CountIs, NextSlot, KeyAssumption, Zenon
<1> DEFINE n == Count(h, t)
           C == Contents(b, h, t)
           D == Contents(b, next_slot(h), t)
<1>2. Count(next_slot(h), t) = n + 1 /\ n < KBD_BUF_SIZE - 1 /\ n \in Nat
  <2>1. next_slot(h) = IF h = KBD_BUF_SIZE - 1 THEN 0 ELSE h + 1
    BY NextSlot, Zenon
  <2>2. Count(next_slot(h), t) = IF t <= next_slot(h) THEN next_slot(h) - t ELSE next_slot(h) + KBD_BUF_SIZE - t
    BY <1>1, CountIs, Zenon
  <2>3. n = IF t <= h THEN h - t ELSE h + KBD_BUF_SIZE - t
    BY CountIs, Zenon
  <2> HIDE DEF n
  <2>4. QED
    BY <1>1, <2>1, <2>2, <2>3 DEF Slots
<1>3. Place(t, n + 1) = h
  <2>1. n = IF t <= h THEN h - t ELSE h + KBD_BUF_SIZE - t
    BY CountIs, Zenon
  <2> HIDE DEF n
  <2>2. QED
    BY <1>1, <2>1 DEF Place, Slots
<1>4. D = [k \in 1 .. n + 1 |-> b[Place(t, k)]] /\ D \in Seq(Chars) /\ Len(D) = n + 1
  <2>1. /\ D = [k \in 1 .. Count(next_slot(h), t) |-> b[Place(t, k)]]
        /\ D \in Seq(Chars) /\ Len(D) = Count(next_slot(h), t)
    BY <1>1, ContentsAre
  <2>2. QED
    BY <1>2, <2>1, Zenon
<1>5. C = [k \in 1 .. n |-> b[Place(t, k)]] /\ C \in Seq(Chars) /\ Len(C) = n
  BY ContentsAre, Zenon
<1> HIDE DEF n, C, D
<1>6. \A k \in 1 .. n + 1 : D[k] = Append(C, b[h])[k]
  BY <1>2, <1>3, <1>4, <1>5
<1>7. b[h] \in Chars
  BY Zenon
<1>8. D = Append(C, b[h])
  BY <1>2, <1>4, <1>5, <1>6, <1>7
<1>9. QED
  BY <1>2, <1>5, <1>8, Zenon DEF C, D

(* Moving the tail of a ring that is not empty takes its first character.  *)
LEMMA AdvanceTail ==
  ASSUME NEW b \in [Slots -> Chars], NEW h \in Slots, NEW t \in Slots, t # h
  PROVE  /\ Contents(b, h, t) # << >> /\ Head(Contents(b, h, t)) = b[t]
         /\ Contents(b, h, next_slot(t)) = Tail(Contents(b, h, t))
<1>1. KBD_BUF_SIZE \in Nat \ {0} /\ Count(h, t) \in Slots /\ next_slot(t) \in Slots
  BY CountIs, NextSlot, KeyAssumption, Zenon
<1> DEFINE n == Count(h, t)
           C == Contents(b, h, t)
           D == Contents(b, h, next_slot(t))
<1>2. next_slot(t) = IF t = KBD_BUF_SIZE - 1 THEN 0 ELSE t + 1
  BY NextSlot, Zenon
<1>3. Count(h, next_slot(t)) = n - 1 /\ n \in Nat \ {0} /\ n < KBD_BUF_SIZE
  <2>1. Count(h, next_slot(t)) = IF next_slot(t) <= h THEN h - next_slot(t) ELSE h + KBD_BUF_SIZE - next_slot(t)
    BY <1>1, CountIs, Zenon
  <2>2. n = IF t <= h THEN h - t ELSE h + KBD_BUF_SIZE - t
    BY CountIs, Zenon
  <2> HIDE DEF n
  <2>3. QED
    BY <1>1, <1>2, <2>1, <2>2 DEF Slots
<1>4. D = [k \in 1 .. n - 1 |-> b[Place(next_slot(t), k)]] /\ D \in Seq(Chars) /\ Len(D) = n - 1
  <2>1. /\ D = [k \in 1 .. Count(h, next_slot(t)) |-> b[Place(next_slot(t), k)]]
        /\ D \in Seq(Chars) /\ Len(D) = Count(h, next_slot(t))
    BY <1>1, ContentsAre, Zenon
  <2>2. QED
    BY <1>3, <2>1, Zenon
<1>5. C = [k \in 1 .. n |-> b[Place(t, k)]] /\ C \in Seq(Chars) /\ Len(C) = n
  BY ContentsAre, Zenon
<1> HIDE DEF n, C, D
<1>6. Place(t, 1) = t
  BY <1>1 DEF Place, Slots
<1>7. \A k \in 1 .. n - 1 : Place(next_slot(t), k) = Place(t, k + 1)
  BY <1>1, <1>2, <1>3 DEF Place, Slots
<1>8. C # << >> /\ Head(C) = b[t]
  BY <1>3, <1>5, <1>6
<1>9. \A k \in 1 .. n - 1 : D[k] = C[k + 1]
  BY <1>3, <1>4, <1>5, <1>7
<1>10. D = Tail(C)
  BY <1>3, <1>4, <1>5, <1>8, <1>9
<1>11. QED
  BY <1>8, <1>10, Zenon DEF C, D
-----------------------------------------------------------------------------
(* The ring starts empty.                                                  *)
LEMMA InitK == KbdInit => KInv
<1> SUFFICES ASSUME KbdInit PROVE KInv
  BY Zenon
<1>1. PICK x \in Chars : kbd_buffer = [s \in Slots |-> x] /\ ch = x /\ out = x /\ read = x
  BY Zenon DEF KbdInit
<1>2. kbd_head = 0 /\ kbd_tail = 0 /\ 0 \in Slots
  BY KeyAssumption DEF KbdInit, Slots
<1>3. shift_held \in BOOLEAN /\ push = "idle" /\ pop = "idle"
  BY Zenon DEF KbdInit
<1>4. QED
  BY <1>1, <1>2, <1>3, Zenon DEF KInv, KbdTypeOK

(* Every step of the handler and of the reader keeps KInv.                 *)
LEMMA NextK == KInv /\ [KbdNext]_kbdVars => KInv'
<1> SUFFICES ASSUME KInv, [KbdNext]_kbdVars PROVE KInv'
  BY Zenon
<1> USE DEF KInv, KbdTypeOK
<1>1. ASSUME NEW k \in Keys, NEW release \in BOOLEAN, keyboard_handle_irq(k, release) PROVE KInv'
  <2>1. shift_held' \in BOOLEAN
    BY <1>1, Zenon DEF keyboard_handle_irq, shift_after
  <2>2. ch' \in Chars /\ push' \in {"idle", "check"}
    <3>1. CASE k \in Letters /\ ~release
      BY <1>1, <3>1 DEF keyboard_handle_irq, Chars
    <3>2. CASE ~(k \in Letters /\ ~release)
      BY <1>1, <3>2, Zenon DEF keyboard_handle_irq
    <3>3. QED
      BY <3>1, <3>2, Zenon
  <2>3. UNCHANGED <<kbd_buffer, kbd_head, kbd_tail, pop, out, read>>
    BY <1>1, Zenon DEF keyboard_handle_irq, ring
  <2>4. QED
    BY <2>1, <2>2, <2>3, Zenon
<1>2. CASE kbd_buffer_push_check
  BY <1>2, Zenon DEF kbd_buffer_push_check, ring, full
<1>3. CASE kbd_buffer_push_store
  BY <1>3, Zenon DEF kbd_buffer_push_store, full
<1>4. CASE kbd_buffer_push_advance
  <2>1. kbd_head' = next_slot(kbd_head) /\ kbd_head' \in Slots /\ kbd_head' # kbd_tail
    BY <1>4, NextSlot, Zenon DEF kbd_buffer_push_advance, full
  <2>2. QED
    BY <1>4, <2>1, Zenon DEF kbd_buffer_push_advance
<1>5. CASE kbd_buffer_pop_check
  BY <1>5, Zenon DEF kbd_buffer_pop_check, ring, full
<1>6. CASE kbd_buffer_pop_load
  BY <1>6, Zenon DEF kbd_buffer_pop_load, ring, full
<1>7. CASE kbd_buffer_pop_advance
  <2>1. kbd_tail' = next_slot(kbd_tail) /\ kbd_tail' \in Slots
    BY <1>7, NextSlot, Zenon DEF kbd_buffer_pop_advance
  <2>2. next_slot(kbd_head) # next_slot(kbd_tail)
    <3>1. kbd_head \in Slots /\ kbd_tail \in Slots /\ kbd_tail # kbd_head
      BY <1>7, Zenon DEF kbd_buffer_pop_advance
    <3>2. /\ next_slot(kbd_head) = IF kbd_head = KBD_BUF_SIZE - 1 THEN 0 ELSE kbd_head + 1
          /\ next_slot(kbd_tail) = IF kbd_tail = KBD_BUF_SIZE - 1 THEN 0 ELSE kbd_tail + 1
      BY <3>1, NextSlot, Zenon
    <3>3. QED
      BY <3>1, <3>2, KeyAssumption DEF Slots
  <2>3. QED
    BY <1>7, <2>1, <2>2, Zenon DEF kbd_buffer_pop_advance, full
<1>8. CASE UNCHANGED kbdVars
  BY <1>8, Zenon DEF kbdVars, ring, full
<1>9. QED
  BY <1>1, <1>2, <1>3, <1>4, <1>5, <1>6, <1>7, <1>8, Zenon DEF KbdNext

(* The invariant in every reachable state.                                 *)
LEMMA AlwaysK == KbdSpec => []KInv
BY InitK, NextK, PTL DEF KbdSpec

(* The indices stay inside kbd_buffer, for any size of it.                 *)
THEOREM KeyboardTypes == KbdSpec => []KbdTypeOK
<1>1. KInv => KbdTypeOK
  BY Zenon DEF KInv
<1>2. QED
  BY <1>1, AlwaysK, PTL

(* Every step is a step of the queue, or none.                             *)
LEMMA QueueStep == KInv /\ [KbdNext]_kbdVars => [Q!QNext]_<<contents, read>>
<1> SUFFICES ASSUME KInv, [KbdNext]_kbdVars PROVE [Q!QNext]_<<contents, read>>
  BY Zenon
<1>1. kbd_buffer \in [Slots -> Chars] /\ kbd_head \in Slots /\ kbd_tail \in Slots /\ ch \in Chars
  BY Zenon DEF KInv, KbdTypeOK
<1>2. /\ contents = Contents(kbd_buffer, kbd_head, kbd_tail)
      /\ contents' = Contents(kbd_buffer', kbd_head', kbd_tail')
  BY Zenon DEF contents, count, Contents, Count
<1>3. CASE kbd_buffer_push_store
  BY <1>1, <1>2, <1>3, StoreUnseen, Zenon DEF kbd_buffer_push_store
<1>4. CASE kbd_buffer_push_advance
  <2>1. next_slot(kbd_head) # kbd_tail /\ kbd_buffer[kbd_head] = ch
    BY <1>4, Zenon DEF kbd_buffer_push_advance, KInv, full
  <2>2. /\ contents' = Contents(kbd_buffer, next_slot(kbd_head), kbd_tail) /\ read' = read
    BY <1>2, <1>4, Zenon DEF kbd_buffer_push_advance
  <2>3. contents' = Append(contents, ch) /\ Len(contents) < KBD_BUF_SIZE - 1
    BY <1>1, <1>2, <2>1, <2>2, AdvanceHead, Zenon
  <2>4. QED
    BY <1>1, <2>2, <2>3, Zenon DEF Q!QNext, Q!Put
<1>5. CASE kbd_buffer_pop_advance
  <2>1. kbd_tail # kbd_head /\ out = kbd_buffer[kbd_tail]
    BY <1>5, Zenon DEF kbd_buffer_pop_advance, KInv
  <2>2. /\ contents' = Contents(kbd_buffer, kbd_head, next_slot(kbd_tail)) /\ read' = out
    BY <1>2, <1>5, Zenon DEF kbd_buffer_pop_advance
  <2>3. contents # << >> /\ out = Head(contents) /\ contents' = Tail(contents)
    BY <1>1, <1>2, <2>1, <2>2, AdvanceTail, Zenon
  <2>4. QED
    BY <2>2, <2>3, Zenon DEF Q!QNext, Q!Get
<1>6. CASE UNCHANGED <<ring, read>>
  BY <1>2, <1>6, Zenon DEF ring
<1>7. QED
  BY <1>3, <1>4, <1>5, <1>6, Zenon DEF KbdNext, kbdVars, keyboard_handle_irq, kbd_buffer_push_check,
     kbd_buffer_pop_check, kbd_buffer_pop_load

(* With the interrupt at any point of kbd_buffer_pop and the reader at any *)
(* point of kbd_buffer_push, the ring is a FIFO of KBD_BUF_SIZE - 1        *)
(* places: the reader gets what was typed, in order, once each.            *)
THEOREM RingIsQueue == KbdSpec => Fifo
<1>1. KbdInit => Q!QInit
  <2> SUFFICES ASSUME KbdInit PROVE Q!QInit
    BY Zenon
  <2>1. KInv
    BY InitK, Zenon
  <2>2. kbd_buffer \in [Slots -> Chars] /\ 0 \in Slots /\ read \in Chars
    BY <2>1, KeyAssumption DEF KInv, KbdTypeOK, Slots
  <2>3. contents = Contents(kbd_buffer, 0, 0)
    BY Zenon DEF contents, count, Contents, Count, KbdInit
  <2>4. Count(0, 0) = 0
    BY <2>2, CountIs
  <2>5. contents \in Seq(Chars) /\ Len(contents) = 0
    BY <2>2, <2>3, <2>4, ContentsAre
  <2>6. QED
    BY <2>2, <2>5 DEF Q!QInit
<1>2. QED
  BY <1>1, QueueStep, AlwaysK, PTL DEF KbdSpec, Fifo, Q!QSpec

(***************************************************************************)
(* The cooperative scheduler of the 32-bit kernel.                         *)
(***************************************************************************)

Made == 1 .. thread_count

\* The queues are rings of threads of one priority: next leads from each to
\* another one of them, and every thread is reached.
RingInv ==
  /\ \A p \in Prio : p \in ready_bitmap <=> ready_queue[p] # 0
  /\ \A p \in ready_bitmap : ready_queue[p] \in Made /\ priority[ready_queue[p]] = p
  /\ \A t \in Made : priority[t] \in ready_bitmap /\ next[t] \in Made /\ priority[next[t]] = priority[t]
  /\ \A t \in Made : \E u \in Made : next[u] = t /\ priority[u] = priority[t]

\* Threads are made before the first reschedule.
RunInv ==
  /\ main = "create" => current = 0
  /\ current # 0 => current \in Made /\ \A u \in Made : priority[u] <= priority[current]

Inv32 == TypeOK32 /\ RingInv /\ RunInv /\ RunsCurrent

(* find_highest_bit has an answer.                                         *)
LEMMA HighestBit ==
  ASSUME NEW B \in SUBSET Prio, B # {}
  PROVE  /\ find_highest_bit(B) \in B
         /\ \A q \in B : q <= find_highest_bit(B)
<1> DEFINE S == {NUM_PRIORITIES - p : p \in B}
<1>1. NUM_PRIORITIES \in Nat \ {0} /\ \A p \in B : p \in Nat /\ NUM_PRIORITIES - p \in Nat
  BY Sched32Assumption DEF Prio
<1>2. S \in SUBSET Nat /\ S # {}
  BY <1>1, Zenon
<1>3. \A P, U, V : IsWellFoundedOn(P, U) /\ V \in SUBSET U /\ V # {}
                   => \E x \in V : \A y \in V : <<y, x>> \notin P
  BY WFMin, Zenon
<1>4. PICK x \in S : \A y \in S : <<y, x>> \notin OpToRel(<, Nat)
  <2> HIDE DEF S
  <2>1. QED
    BY <1>2, <1>3, NatLessThanWellFounded, Zenon
<1>5. \A y \in S : ~(y < x)
  <2> HIDE DEF S
  <2>1. QED
    BY <1>2, <1>4, Zenon DEF OpToRel
<1>6. PICK p \in B : x = NUM_PRIORITIES - p
  BY Zenon
<1>7. \A q \in B : q <= p
  <2> TAKE q \in B
  <2>1. ~(NUM_PRIORITIES - q < x)
    BY <1>5, Zenon
  <2>2. QED
    BY <1>1, <1>6, <2>1
<1>8. QED
  BY <1>7, Zenon DEF find_highest_bit

(* Before any thread is made the queues are empty.                         *)
LEMMA InitInv32 == Init32 => Inv32
<1> SUFFICES ASSUME Init32 PROVE Inv32
  BY Zenon
<1>1. MAX_THREADS \in Nat \ {0} /\ NUM_PRIORITIES \in Nat \ {0}
  BY Sched32Assumption, Zenon
<1>2. /\ 0 \in 0 .. MAX_THREADS /\ 0 \in Prio
      /\ "UNUSED" \in {"UNUSED", "READY", "RUNNING"} /\ "create" \in {"create", "loop", "hlt"}
  BY <1>1 DEF Prio
<1>3. TypeOK32
  BY <1>2, Zenon DEF Init32, TypeOK32
<1>4. Made = {}
  BY DEF Init32, Made
<1>5. RingInv /\ RunInv
  BY <1>4, Zenon DEF Init32, RingInv, RunInv
<1>6. RunsCurrent
  BY <1>4, Zenon DEF Init32, RunsCurrent, Made
<1>7. QED
  BY <1>3, <1>5, <1>6, Zenon DEF Inv32

(* A new thread goes into the ring of its priority, behind its tail.       *)
LEMMA CreateKeeps ==
  ASSUME Inv32, NEW p \in 0 .. NUM_PRIORITIES, sched_create_thread(p)
  PROVE  Inv32'
<1> DEFINE t == thread_count + 1
           head == ready_queue[p]
<1>1. /\ thread_count \in 0 .. MAX_THREADS /\ MAX_THREADS \in Nat \ {0}
      /\ NUM_PRIORITIES \in Nat \ {0}
  BY Sched32Assumption, Zenon DEF Inv32, TypeOK32
<1>2. /\ p \in Prio /\ t \in Threads /\ t \in Nat \ {0} /\ t \in 0 .. MAX_THREADS
      /\ t \notin Made /\ Made \subseteq Threads /\ thread_count' = t
      /\ Made' = Made \union {t}
  BY <1>1 DEF sched_create_thread, Prio, Threads, Made
<1>3. /\ priority' = [priority EXCEPT ![t] = p] /\ state' = [state EXCEPT ![t] = "READY"]
      /\ esp' = [esp EXCEPT ![t] = t] /\ ready_bitmap' = ready_bitmap \union {p}
      /\ current' = current /\ exec' = exec /\ main' = main /\ main = "create"
  BY Zenon DEF sched_create_thread
<1>4. \/ /\ head = 0
         /\ next' = [next EXCEPT ![t] = t]
         /\ ready_queue' = [ready_queue EXCEPT ![p] = t]
      \/ /\ head # 0
         /\ next' = [next EXCEPT ![tail(p)] = t, ![t] = head]
         /\ ready_queue' = ready_queue
  BY Zenon DEF sched_create_thread
<1>5. /\ priority \in [Threads -> Prio] /\ state \in [Threads -> {"UNUSED", "READY", "RUNNING"}]
      /\ next \in [Threads -> 0 .. MAX_THREADS] /\ esp \in [Threads -> 0 .. MAX_THREADS]
      /\ ready_bitmap \in SUBSET Prio /\ ready_queue \in [Prio -> 0 .. MAX_THREADS]
  BY Zenon DEF Inv32, TypeOK32
<1>6. current = 0 /\ exec = 0
  BY <1>3, Zenon DEF Inv32, RunInv, RunsCurrent
<1> HIDE DEF t
<1>7. /\ priority'[t] = p /\ esp'[t] = t /\ state'[t] = "READY"
      /\ \A u \in Made : /\ u # t /\ priority'[u] = priority[u] /\ esp'[u] = esp[u]
      /\ \A u \in Threads \ {t} : state'[u] = state[u]
  BY <1>2, <1>3, <1>5, Zenon
<1>8. RunInv' /\ RunsCurrent'
  <2>1. RunInv'
    BY <1>3, <1>6, Zenon DEF RunInv
  <2>2. \A u \in Threads : state'[u] # "RUNNING"
    BY <1>6, <1>7, Zenon DEF Inv32, RunsCurrent
  <2>3. \A u \in Made' : esp'[u] = u
    BY <1>2, <1>7, Zenon DEF Inv32, RunsCurrent, Made
  <2>4. QED
    BY <1>3, <1>6, <2>1, <2>2, <2>3, Zenon DEF RunsCurrent, Made
<1>9. ASSUME head # 0
      PROVE  /\ tail(p) \in Made /\ priority[tail(p)] = p /\ next[tail(p)] = head
             /\ head \in Made /\ priority[head] = p
  <2>1. head \in Made /\ priority[head] = p
    BY <1>2, <1>9, Zenon DEF Inv32, RingInv
  <2>2. \E u \in Made : priority[u] = p /\ next[u] = head
    BY <2>1 DEF Inv32, RingInv
  <2>3. tail(p) \in Made /\ priority[tail(p)] = p /\ next[tail(p)] = head
    BY <2>2, Zenon DEF tail, Made
  <2>4. QED
    BY <2>1, <2>3, Zenon
<1>10. TypeOK32'
  <2>1. next' \in [Threads -> 0 .. MAX_THREADS] /\ ready_queue' \in [Prio -> 0 .. MAX_THREADS]
    <3> HIDE DEF head
    <3>1. head \in 0 .. MAX_THREADS
      BY <1>2, <1>5, Zenon DEF head
    <3>2. CASE head = 0
      BY <1>2, <1>4, <1>5, <3>2
    <3>3. CASE head # 0
      BY <1>2, <1>4, <1>5, <1>9, <3>1, <3>3
    <3>4. QED
      BY <3>2, <3>3, Zenon
  <2>2. /\ priority' \in [Threads -> Prio] /\ esp' \in [Threads -> 0 .. MAX_THREADS]
        /\ state' \in [Threads -> {"UNUSED", "READY", "RUNNING"}]
    BY <1>2, <1>3, <1>5, Zenon
  <2>3. ready_bitmap' \in SUBSET Prio /\ thread_count' \in 0 .. MAX_THREADS
    BY <1>2, <1>3, <1>5, Zenon
  <2>4. QED
    BY <1>3, <2>1, <2>2, <2>3, Zenon DEF TypeOK32, Inv32
<1>11. RingInv'
  <2>1. CASE head = 0
    <3>1. p \notin ready_bitmap
      BY <1>2, <2>1, Zenon DEF Inv32, RingInv
    <3>2. /\ next'[t] = t /\ \A u \in Made : next'[u] = next[u]
          /\ ready_queue'[p] = t /\ \A q \in Prio \ {p} : ready_queue'[q] = ready_queue[q]
      BY <1>2, <1>4, <1>5, <2>1, Zenon
    <3>3. \A q \in Prio : q \in ready_bitmap' <=> ready_queue'[q] # 0
      BY <1>2, <1>3, <3>1, <3>2, Zenon DEF Inv32, RingInv
    <3>4. \A q \in ready_bitmap' : ready_queue'[q] \in Made' /\ priority'[ready_queue'[q]] = q
      BY <1>2, <1>3, <1>5, <1>7, <3>1, <3>2 DEF Inv32, RingInv
    <3>5. \A u \in Made' : /\ priority'[u] \in ready_bitmap' /\ next'[u] \in Made'
                           /\ priority'[next'[u]] = priority'[u]
      BY <1>2, <1>3, <1>7, <3>2 DEF Inv32, RingInv
    <3>6. \A u \in Made' : \E v \in Made' : next'[v] = u /\ priority'[v] = priority'[u]
      BY <1>2, <1>7, <3>2 DEF Inv32, RingInv
    <3>7. QED
      BY <3>3, <3>4, <3>5, <3>6, Zenon DEF RingInv
  <2>2. CASE head # 0
    <3> DEFINE w == tail(p)
    <3>1. w \in Made /\ priority[w] = p /\ next[w] = head /\ head \in Made /\ priority[head] = p
      BY <1>9, <2>2, Zenon
    <3>2. p \in ready_bitmap /\ ready_bitmap' = ready_bitmap /\ ready_queue' = ready_queue
      BY <1>2, <1>3, <1>4, <2>2 DEF Inv32, RingInv
    <3> HIDE DEF w
    <3>3. next' = [next EXCEPT ![w] = t, ![t] = head]
      BY <1>4, <2>2, Zenon DEF w
    <3>4. next'[t] = head /\ next'[w] = t /\ \A u \in Made \ {w} : next'[u] = next[u]
      BY <1>2, <1>5, <1>7, <3>1, <3>3, Zenon
    <3>5. \A q \in Prio : q \in ready_bitmap' <=> ready_queue'[q] # 0
      BY <3>2, Zenon DEF Inv32, RingInv
    <3>6. \A q \in ready_bitmap' : ready_queue'[q] \in Made' /\ priority'[ready_queue'[q]] = q
      BY <1>2, <1>7, <3>2, Zenon DEF Inv32, RingInv
    <3> HIDE DEF head
    <3>7. \A u \in Made' : /\ priority'[u] \in ready_bitmap' /\ next'[u] \in Made'
                           /\ priority'[next'[u]] = priority'[u]
      <4> TAKE u \in Made'
      <4>1. CASE u = t
        BY <1>2, <1>7, <3>1, <3>2, <3>4, <4>1, Zenon
      <4>2. CASE u = w
        <5>1. priority'[u] = p /\ next'[u] = t /\ t \in Made' /\ priority'[t] = p
          BY <1>2, <1>7, <3>1, <3>4, <4>2, Zenon
        <5>2. QED
          BY <3>2, <5>1, Zenon
      <4>3. CASE u \in Made /\ u # w
        <5>1. priority[u] \in ready_bitmap /\ next[u] \in Made /\ priority[next[u]] = priority[u]
          BY <4>3, Zenon DEF Inv32, RingInv
        <5>2. QED
          BY <1>2, <1>7, <3>2, <3>4, <4>3, <5>1, Zenon
      <4>4. QED
        BY <1>2, <4>1, <4>2, <4>3, Zenon
    <3>8. \A u \in Made' : \E v \in Made' : next'[v] = u /\ priority'[v] = priority'[u]
      <4> TAKE u \in Made'
      <4>1. CASE u = t
        BY <1>2, <1>7, <3>1, <3>4, <4>1, Zenon
      <4>2. CASE u = head
        BY <1>2, <1>7, <3>1, <3>4, <4>2, Zenon
      <4>3. CASE u \in Made /\ u # head
        <5>1. PICK v \in Made : next[v] = u /\ priority[v] = priority[u]
          BY <4>3, Zenon DEF Inv32, RingInv
        <5>2. v # w
          BY <3>1, <4>3, <5>1, Zenon
        <5>3. QED
          BY <1>2, <1>7, <3>4, <4>3, <5>1, <5>2, Zenon
      <4>4. QED
        BY <1>2, <4>1, <4>2, <4>3, Zenon
    <3>9. QED
      BY <3>5, <3>6, <3>7, <3>8, Zenon DEF RingInv
  <2>3. QED
    BY <2>1, <2>2, Zenon
<1>12. QED
  BY <1>8, <1>10, <1>11, Zenon DEF Inv32

(* The thread chosen is one of the highest priority.                       *)
LEMMA ChoiceRight ==
  ASSUME Inv32, ready_bitmap # {}
  PROVE  /\ find_highest_bit(ready_bitmap) \in Prio
         /\ find_highest_bit(ready_bitmap) \in ready_bitmap
         /\ choice \in Made /\ priority[choice] = find_highest_bit(ready_bitmap)
         /\ \A u \in Made : priority[u] <= priority[choice]
<1> DEFINE hi == find_highest_bit(ready_bitmap)
<1>1. ready_bitmap \in SUBSET Prio
  BY Zenon DEF Inv32, TypeOK32
<1>2. hi \in Prio /\ hi \in ready_bitmap /\ \A q \in ready_bitmap : q <= hi
  BY <1>1, HighestBit, Zenon
<1>3. head_of_top \in Made /\ priority[head_of_top] = hi
  BY <1>2, Zenon DEF Inv32, RingInv, head_of_top
<1>4. next[head_of_top] \in Made /\ priority[next[head_of_top]] = hi
  BY <1>3, Zenon DEF Inv32, RingInv
<1>5. choice \in Made /\ priority[choice] = hi
  BY <1>3, <1>4, Zenon DEF choice
<1>6. \A u \in Made : priority[u] <= hi
  BY <1>2, Zenon DEF Inv32, RingInv
<1>7. QED
  BY <1>2, <1>5, <1>6, Zenon

(* A switch keeps every saved stack with its thread.                       *)
LEMMA RescheduleKeeps ==
  ASSUME Inv32, sched_reschedule, main # "create" PROVE Inv32'
<1> DEFINE hi == find_highest_bit(ready_bitmap)
<1>1. /\ ready_bitmap # {} /\ choice # current
      /\ ready_queue' = [ready_queue EXCEPT ![hi] = choice] /\ current' = choice
      /\ state' = [t \in Threads |-> IF t = current THEN "READY"
                                     ELSE IF t = choice THEN "RUNNING" ELSE state[t]]
      /\ esp' = [t \in Threads |-> IF t = current THEN exec ELSE esp[t]] /\ exec' = esp[choice]
      /\ UNCHANGED <<thread_count, priority, next, ready_bitmap, main>>
  BY Zenon DEF sched_reschedule, saved
<1>2. /\ hi \in Prio /\ hi \in ready_bitmap /\ choice \in Made /\ priority[choice] = hi
      /\ \A u \in Made : priority[u] <= priority[choice]
  BY <1>1, ChoiceRight, Zenon
<1>3. /\ Made' = Made /\ Made \subseteq Threads /\ 0 \notin Made /\ 0 \notin Threads
      /\ Made \subseteq 0 .. MAX_THREADS /\ \A t \in Made : esp[t] = t
      /\ exec = current /\ exec \in 0 .. MAX_THREADS
  BY <1>1, Sched32Assumption DEF Inv32, TypeOK32, Made, Threads, RunsCurrent
<1> HIDE DEF hi
<1>4. exec' = choice
  BY <1>1, <1>2, <1>3, Zenon
<1>5. TypeOK32'
  <2>1. ready_queue' \in [Prio -> 0 .. MAX_THREADS]
    BY <1>1, <1>2, <1>3, Zenon DEF Inv32, TypeOK32
  <2>2. esp' \in [Threads -> 0 .. MAX_THREADS]
    BY <1>1, <1>3, Zenon DEF Inv32, TypeOK32
  <2>3. state' \in [Threads -> {"UNUSED", "READY", "RUNNING"}]
    BY <1>1, Zenon DEF Inv32, TypeOK32
  <2>4. current' \in 0 .. MAX_THREADS /\ exec' \in 0 .. MAX_THREADS
    BY <1>1, <1>2, <1>3, <1>4, Zenon
  <2>5. QED
    BY <1>1, <2>1, <2>2, <2>3, <2>4, Zenon DEF Inv32, TypeOK32
<1>6. RingInv'
  <2>1. ready_queue'[hi] = choice /\ \A q \in Prio \ {hi} : ready_queue'[q] = ready_queue[q]
    BY <1>1, <1>2, Zenon DEF Inv32, TypeOK32
  <2>2. \A p \in Prio : p \in ready_bitmap <=> ready_queue'[p] # 0
    BY <1>2, <1>3, <2>1, Zenon DEF Inv32, RingInv
  <2>3. \A p \in ready_bitmap : ready_queue'[p] \in Made /\ priority[ready_queue'[p]] = p
    BY <1>2, <2>1 DEF Inv32, RingInv, TypeOK32
  <2>4. priority' = priority /\ next' = next /\ ready_bitmap' = ready_bitmap
    BY <1>1, Zenon
  <2>5. /\ \A t \in Made : /\ priority[t] \in ready_bitmap /\ next[t] \in Made
                          /\ priority[next[t]] = priority[t]
        /\ \A t \in Made : \E u \in Made : next[u] = t /\ priority[u] = priority[t]
    BY Zenon DEF Inv32, RingInv
  <2>6. QED
    BY <1>3, <2>2, <2>3, <2>4, <2>5, Zenon DEF RingInv
<1>7. RunInv'
  BY <1>1, <1>2, <1>3, Zenon DEF RunInv
<1>8. RunsCurrent'
  <2>1. \A t \in Threads : state'[t] = "RUNNING" <=> t = choice
    BY <1>1, <1>2, <1>3, Zenon DEF Inv32, RunsCurrent
  <2>2. \A t \in Made : esp'[t] = t
    BY <1>1, <1>3, Zenon
  <2>3. choice # 0
    BY <1>2, <1>3, Zenon
  <2>4. QED
    BY <1>1, <1>3, <1>4, <2>1, <2>2, <2>3, Zenon DEF RunsCurrent, Made
<1>9. QED
  BY <1>5, <1>6, <1>7, <1>8, Zenon DEF Inv32

(* Every step of the kernel keeps the invariant.                           *)
LEMMA NextInv32 == Inv32 /\ [Next32]_vars32 => Inv32'
<1> SUFFICES ASSUME Inv32, [Next32]_vars32 PROVE Inv32'
  BY Zenon
<1>1. ASSUME NEW p \in 0 .. NUM_PRIORITIES, sched_create_thread(p) PROVE Inv32'
  BY <1>1, CreateKeeps, Zenon
<1>2. ASSUME UNCHANGED <<thread_count, priority, state, next, esp, ready_bitmap, ready_queue,
                         current, exec>>,
             main' = main \/ main' \in {"loop", "hlt"}
      PROVE  Inv32'
  <2>1. TypeOK32'
    <3>1. main' \in {"create", "loop", "hlt"}
      BY <1>2, Zenon DEF Inv32, TypeOK32
    <3>2. QED
      BY <1>2, <3>1, Zenon DEF Inv32, TypeOK32
  <2>2. Made' = Made
    BY <1>2, Zenon DEF Made
  <2>3. RingInv'
    BY <1>2, <2>2, Zenon DEF Inv32, RingInv
  <2>4. RunInv'
    <3>1. main' = "create" => current' = 0
      BY <1>2, Zenon DEF Inv32, RunInv
    <3>2. QED
      BY <1>2, <2>2, <3>1, Zenon DEF Inv32, RunInv
  <2>5. RunsCurrent'
    BY <1>2, Zenon DEF Inv32, RunsCurrent
  <2>6. QED
    BY <2>1, <2>3, <2>4, <2>5, Zenon DEF Inv32
<1>3. ASSUME NEW p, create_refused(p) PROVE Inv32'
  BY <1>2, <1>3, Zenon DEF create_refused, vars32
<1>4. CASE creation_done
  BY <1>2, <1>4, Zenon DEF creation_done
<1>5. CASE kernel_main
  <2>1. CASE sched_reschedule
    BY <1>5, <2>1, RescheduleKeeps, Zenon DEF kernel_main
  <2>2. CASE ~sched_reschedule
    BY <1>2, <1>5, <2>2, Zenon DEF kernel_main
  <2>3. QED
    BY <2>1, <2>2, Zenon
<1>6. CASE sched_yield
  <2>1. main # "create"
    BY <1>6, Zenon DEF sched_yield, Inv32, RunInv, RunsCurrent
  <2>2. QED
    BY <1>6, <2>1, RescheduleKeeps, Zenon DEF sched_yield
<1>7. CASE UNCHANGED vars32
  BY <1>2, <1>7, Zenon DEF vars32
<1>8. QED
  BY <1>1, <1>3, <1>4, <1>5, <1>6, <1>7, Zenon DEF Next32
-----------------------------------------------------------------------------
(* Every variable of the 32-bit scheduler keeps to its type.               *)
THEOREM TypeCorrect32 == Spec32 => []TypeOK32
<1>1. Inv32 => TypeOK32
  BY Zenon DEF Inv32
<1>2. QED
  BY <1>1, InitInv32, NextInv32, PTL DEF Spec32

(* context_switch never mixes two threads up: the CPU is on the stack of   *)
(* the current thread, every other stack is saved with its own thread.     *)
THEOREM StacksKept == Spec32 => []RunsCurrent
<1>1. Inv32 => RunsCurrent
  BY Zenon DEF Inv32
<1>2. QED
  BY <1>1, InitInv32, NextInv32, PTL DEF Spec32

(* Only threads of the highest priority ever run.                          *)
THEOREM OnlyTopRuns == Spec32 => []OnlyTop
<1>1. Inv32 => OnlyTop
  <2> SUFFICES ASSUME Inv32, NEW t \in Threads, exec = t PROVE Top(t)
    BY Zenon DEF OnlyTop
  <2>1. current = t /\ t # 0
    BY DEF Inv32, RunsCurrent, Threads
  <2>2. t \in Made /\ \A u \in Made : priority[u] <= priority[t]
    BY <2>1, Zenon DEF Inv32, RunInv
  <2>3. t <= thread_count
    BY <2>2 DEF Made, Inv32, TypeOK32
  <2>4. QED
    BY <2>2, <2>3, Zenon DEF Top, Made
<1>2. QED
  BY <1>1, InitInv32, NextInv32, PTL DEF Spec32

-----------------------------------------------------------------------------
Rings32 == RingsOK(Prio, thread_count, priority, next, ready_queue, ready_bitmap)
queues == Queues(Prio, thread_count, priority, next, ready_queue)

(* A step of the 32-bit scheduler is a step of RoundRobin, or none, and    *)
(* leaves the rings whole.                                                 *)
LEMMA TurnStep32 == Inv32 /\ Rings32 /\ [Next32]_vars32 => Rings32' /\ [R!TurnNext]_(R!TurnVars)
<1> SUFFICES ASSUME Inv32, Rings32, [Next32]_vars32 PROVE Rings32' /\ [R!TurnNext]_(R!TurnVars)
  BY Zenon
<1>1. /\ RingTypes(Prio, MAX_THREADS, thread_count, priority, next, ready_queue)
      /\ thread_count \in Nat /\ MAX_THREADS \in Nat /\ ready_bitmap \in SUBSET Prio
  BY Sched32Assumption DEF Inv32, TypeOK32, Threads, RingTypes
<1>2. \A p \in Prio : /\ queues[p] # << >> <=> p \in ready_bitmap
                      /\ \A k \in DOMAIN queues[p] : queues[p][k] \in 1 .. thread_count
  BY RingsHold, Zenon DEF Rings32, queues
<1>3. ASSUME NEW p \in 0 .. NUM_PRIORITIES, sched_create_thread(p)
      PROVE  Rings32' /\ R!TurnNext
  <2> DEFINE t == thread_count + 1
  <2>1. p \in Prio /\ thread_count < MAX_THREADS /\ t \in 1 .. MAX_THREADS /\ t \notin 1 .. thread_count
    BY <1>1, <1>3, Sched32Assumption DEF sched_create_thread, Prio
  <2>2. /\ thread_count' = t /\ ready_bitmap' = ready_bitmap \union {p} /\ current' = current
        /\ Linked(MAX_THREADS, thread_count, t, priority, next, ready_queue, p,
                  priority', next', ready_queue')
    BY <1>3, <2>1, Zenon DEF sched_create_thread, tail, Linked
  <2>3. /\ RingsOK(Prio, t, priority', next', ready_queue', ready_bitmap \union {p})
        /\ Queues(Prio, t, priority', next', ready_queue') = [queues EXCEPT ![p] = Append(@, t)]
    <3>1. /\ RingTypes(Prio, MAX_THREADS, thread_count, priority, next, ready_queue)
          /\ RingsOK(Prio, thread_count, priority, next, ready_queue, ready_bitmap)
          /\ p \in Prio
          /\ Linked(MAX_THREADS, thread_count, t, priority, next, ready_queue, p,
                  priority', next', ready_queue')
      BY <1>1, <2>1, <2>2, Zenon DEF Rings32
    <3> HIDE DEF t
    <3>2. RingsOK(Prio, t, priority', next', ready_queue', ready_bitmap \union {p})
      BY <3>1, RingsCreate, Zenon
    <3>3. Joined(queues, p, t, Queues(Prio, t, priority', next', ready_queue'))
      BY <3>1, RingsCreate, Zenon DEF queues
    <3>4. QED
      BY <3>2, <3>3, Zenon DEF Joined
  <2>4. Rings32' /\ queues' = [queues EXCEPT ![p] = Append(@, t)]
    BY <2>2, <2>3, Zenon DEF Rings32, queues
  <2>5. t \notin R!Queued
    <3>1. \A q \in Prio : \A k \in DOMAIN queues[q] : queues[q][k] # t
      BY <1>2, <2>1, Zenon
    <3>2. QED
      BY <3>1, Zenon DEF R!Queued, queues
  <2>6. R!Create(t, p)
    BY <2>2, <2>4, <2>5, Zenon DEF R!Create, queues
  <2>7. QED
    BY <2>1, <2>4, <2>6, Zenon DEF R!TurnNext
<1>4. ASSUME sched_reschedule PROVE Rings32' /\ R!TurnNext
  <2> DEFINE hi == find_highest_bit(ready_bitmap)
  <2>1. hi \in Prio /\ hi \in ready_bitmap /\ \A q \in ready_bitmap : q <= hi
    BY <1>1, <1>4, HighestBit, Zenon DEF sched_reschedule
  <2>2. /\ Moved(next, ready_queue, hi, current, choice, ready_queue') /\ current' = choice
        /\ UNCHANGED <<thread_count, priority, next, ready_bitmap>>
    BY <1>4, Zenon DEF sched_reschedule, choice, head_of_top, Moved
  <2>3. /\ RingsOK(Prio, thread_count, priority, next, ready_queue', ready_bitmap)
        /\ Queues(Prio, thread_count, priority, next, ready_queue')
             = [queues EXCEPT ![hi] = Turned(@, current)]
        /\ choice = Head(Turned(queues[hi], current))
    <3> HIDE DEF hi
    <3>1. QED
      BY <1>1, <2>1, <2>2, RingsServe DEF Rings32, queues
  <2>4. /\ Rings32' /\ queues' = [queues EXCEPT ![hi] = Turned(queues[hi], current)]
        /\ current' = Head(Turned(queues[hi], current))
    BY <2>2, <2>3, Zenon DEF Rings32, queues
  <2>5. R!Waiting = ready_bitmap
    BY <1>1, <1>2, Zenon DEF R!Waiting, queues
  <2>6. R!Turn
    BY <2>1, <2>4, <2>5, Zenon DEF R!Turn, queues, Turned
  <2>7. QED
    BY <2>4, <2>6, Zenon DEF R!TurnNext
<1>5. ASSUME UNCHANGED <<thread_count, priority, next, ready_queue, ready_bitmap, current>>
      PROVE  Rings32' /\ UNCHANGED R!TurnVars
  BY <1>5, Zenon DEF Rings32, R!TurnVars
<1>6. QED
  BY <1>3, <1>4, <1>5, Zenon DEF Next32, create_refused, creation_done, kernel_main, sched_yield, vars32

(* The ring of next pointers and the heads in ready_queue are, for any     *)
(* number of threads and priorities, the queues of RoundRobin: new threads *)
(* go to the end of theirs, and sched_reschedule serves the next in turn   *)
(* of the highest priority.                                                *)
THEOREM TurnsTaken32 == Spec32 => TakesTurns
<1>1. Init32 => Rings32 /\ R!TurnInit
  BY RingsInit DEF Init32, Rings32, R!TurnInit
<1>2. QED
  BY <1>1, InitInv32, NextInv32, TurnStep32, PTL DEF Spec32, TakesTurns, R!TurnSpec
=============================================================================
