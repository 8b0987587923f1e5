------------------------------- MODULE Rings -------------------------------
(***************************************************************************)
(* The rings of threads in which both schedulers keep the threads of a     *)
(* priority, read as the queues of RoundRobin.                             *)
(***************************************************************************)
EXTENDS Integers, Sequences, FiniteSets

\* The threads of priority p among the n made.
Members(n, prio, p) == {t \in 1 .. n : prio[t] = p}

\* The ring of the threads in S, from its head on along the next pointers.
Ring(nx, head, S) ==
  LET n == Cardinality(S)
      nth[k \in 1 .. n] == IF k = 1 THEN head ELSE nx[nth[k - 1]]
  IN  [k \in 1 .. n |-> nth[k]]

Queues(Ps, n, prio, nx, heads) ==
  [p \in Ps |-> Ring(nx, heads[p], Members(n, prio, p))]

\* s goes once round the ring: every thread of S is on it exactly once, and the
\* last leads back to the head.
IsRing(nx, head, S, s) ==
  /\ s \in Seq(S)
  /\ \A i, j \in 1 .. Len(s) : s[i] = s[j] => i = j
  /\ \A x \in S : \E i \in 1 .. Len(s) : s[i] = x
  /\ \A i \in 1 .. Len(s) - 1 : nx[s[i]] = s[i + 1]
  /\ s # << >> => head = s[1] /\ nx[s[Len(s)]] = s[1]

\* Each priority has its ring, and the bitmap and the null pointers say which
\* rings are empty.
RingsOK(Ps, n, prio, nx, heads, bitmap) ==
  \A p \in Ps :
    LET S == Members(n, prio, p) IN
    /\ IsRing(nx, heads[p], S, Ring(nx, heads[p], S))
    /\ p \in bitmap <=> S # {}
    /\ heads[p] = 0 <=> S = {}
=============================================================================
