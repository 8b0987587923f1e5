----------------------------- MODULE RingProofs -----------------------------
(***************************************************************************)
(* What creating a thread and taking a turn do to the rings, for any       *)
(* threads and priorities; both schedulers' proofs rest on it.             *)
(***************************************************************************)
EXTENDS Rings, FiniteSetTheorems, WellFoundedInduction, TLAPS

RingTypes(Ps, M, n, prio, nx, heads) ==
  /\ M \in Nat /\ n \in 0 .. M
  /\ prio \in [1 .. M -> Ps] /\ nx \in [1 .. M -> 0 .. M] /\ heads \in [Ps -> 0 .. M]

\* What creating thread t, the next one, with priority p does to the pointers.
Linked(M, n, t, prio, nx, heads, p, prio2, nx2, heads2) ==
  /\ n < M /\ t = n + 1 /\ prio2 = [prio EXCEPT ![t] = p]
  /\ IF heads[p] = 0
       THEN nx2 = [nx EXCEPT ![t] = t] /\ heads2 = [heads EXCEPT ![p] = t]
       ELSE /\ nx2 = [nx EXCEPT ![CHOOSE u \in 1 .. n : prio[u] = p /\ nx[u] = heads[p]] = t,
                                ![t] = heads[p]]
            /\ heads2 = heads

\* The queues q with t at the end of the one of priority p are q2.
Joined(q, p, t, q2) == q2 = [q EXCEPT ![p] = Append(@, t)]

\* What a reschedule of priority top that switches from cur to new does.
Moved(nx, heads, top, cur, new, heads2) ==
  /\ new = IF heads[top] = cur /\ nx[heads[top]] # heads[top] THEN nx[heads[top]] ELSE heads[top]
  /\ new # cur
  /\ heads2 = [heads EXCEPT ![top] = new]

\* The queue q once the thread cur, if it is the first, has had its turn.
Turned(q, cur) == IF Head(q) = cur THEN Append(Tail(q), cur) ELSE q

(* A set of numbers that is not empty has a least one.                     *)
LEMMA LeastNat ==
  ASSUME NEW V \in SUBSET Nat, V # {}
  PROVE  \E m \in V : \A v \in V : m <= v
<1>1. \A Q, U, W : IsWellFoundedOn(Q, U) /\ W \in SUBSET U /\ W # {}
                   => \E x \in W : \A y \in W : <<y, x>> \notin Q
  BY WFMin, Zenon
<1>2. PICK m \in V : \A y \in V : <<y, m>> \notin OpToRel(<, Nat)
  BY <1>1, NatLessThanWellFounded, Zenon
<1>3. \A y \in V : ~(y < m)
  BY <1>2, Zenon DEF OpToRel
<1>4. QED
  BY <1>3

(* A ring has as many threads as its sequence.                             *)
LEMMA RingSize ==
  ASSUME NEW nx, NEW head, NEW S, NEW s, IsRing(nx, head, S, s)
  PROVE  Cardinality(S) = Len(s) /\ Len(s) \in Nat
<1>1. /\ s \in Seq(S) /\ Len(s) \in Nat /\ s \in [1 .. Len(s) -> S]
      /\ \A i, j \in 1 .. Len(s) : s[i] = s[j] => i = j
      /\ \A x \in S : \E i \in 1 .. Len(s) : s[i] = x
  BY DEF IsRing
<1>2. s \in Bijection(1 .. Len(s), S)
  BY <1>1, Zenon DEF Bijection, Injection, Surjection, IsInjective
<1>3. QED
  BY <1>1, <1>2, FS_CountingElements, Zenon DEF ExistsBijection

(* The sequence that goes round the ring is what Ring computes.            *)
LEMMA RingFound ==
  ASSUME NEW nx, NEW head, NEW S, NEW s, IsRing(nx, head, S, s)
  PROVE  Ring(nx, head, S) = s
<1> DEFINE n == Cardinality(S)
           Rec(f) == f = [k \in 1 .. n |-> IF k = 1 THEN head ELSE nx[f[k - 1]]]
<1>1. n = Len(s) /\ n \in Nat
  BY RingSize, Zenon
<1>2. /\ s \in Seq(S) /\ \A i \in 1 .. n - 1 : nx[s[i]] = s[i + 1]
      /\ s # << >> => head = s[1]
  BY <1>1, Zenon DEF IsRing
<1> HIDE DEF n
<1>3. s = [k \in 1 .. n |-> s[k]]
  BY <1>1, <1>2
<1>4. \A k \in 1 .. n : s[k] = IF k = 1 THEN head ELSE nx[s[k - 1]]
  <2> TAKE k \in 1 .. n
  <2>1. CASE k = 1
    BY <1>1, <1>2, <2>1
  <2>2. CASE k # 1
    <3>1. k - 1 \in 1 .. n - 1 /\ (k - 1) + 1 = k
      BY <1>1, <2>2
    <3>2. QED
      BY <1>2, <2>2, <3>1, Zenon
  <2>3. QED
    BY <2>1, <2>2, Zenon
<1>5. Rec(s)
  BY <1>3, <1>4, Zenon
<1>6. ASSUME NEW f, Rec(f) PROVE f = s
  <2> DEFINE V == {k \in 1 .. n : f[k] # s[k]}
  <2>1. V = {}
    <3> SUFFICES ASSUME V # {} PROVE FALSE
      BY Zenon
    <3>1. V \in SUBSET Nat
      BY <1>1
    <3>2. PICK m \in V : \A v \in V : m <= v
      <4> HIDE DEF V
      <4>1. QED
        BY <3>1, LeastNat, Zenon
    <3>3. m \in 1 .. n /\ f[m] # s[m]
      BY Zenon
    <3>4. f[m] = IF m = 1 THEN head ELSE nx[f[m - 1]]
      BY <1>6, <3>3, Zenon
    <3>5. m # 1
      BY <1>4, <3>3, <3>4, Zenon
    <3>6. m - 1 \in 1 .. n /\ ~(m <= m - 1)
      BY <1>1, <3>3, <3>5
    <3>7. f[m - 1] = s[m - 1]
      BY <3>2, <3>6, Zenon
    <3>8. QED
      BY <1>4, <3>3, <3>4, <3>5, <3>7, Zenon
  <2>2. \A k \in 1 .. n : f[k] = s[k]
    BY <2>1, Zenon
  <2>3. f = [k \in 1 .. n |-> f[k]]
    BY <1>6, Zenon
  <2>4. QED
    BY <1>3, <2>2, <2>3, Zenon
<1> DEFINE g == CHOOSE f : Rec(f)
<1>7. g = s
  BY <1>5, <1>6, Zenon
<1>8. Ring(nx, head, S) = [k \in 1 .. n |-> g[k]]
  BY Zenon DEF Ring, n
<1>9. QED
  BY <1>3, <1>7, <1>8, Zenon

(* The one thread whose next is the head is the last of the ring.          *)
LEMMA RingEnd ==
  ASSUME NEW nx, NEW head, NEW S, NEW s, IsRing(nx, head, S, s), NEW u \in S
  PROVE  nx[u] = head <=> u = s[Len(s)]
<1>1. PICK i \in 1 .. Len(s) : s[i] = u
  BY Zenon DEF IsRing
<1>2. Len(s) \in Nat /\ s # << >> /\ head = s[1] /\ nx[s[Len(s)]] = s[1]
  BY <1>1 DEF IsRing
<1>3. ASSUME i # Len(s) PROVE nx[u] # head /\ u # s[Len(s)]
  <2>1. i \in 1 .. Len(s) - 1 /\ i + 1 \in 1 .. Len(s) /\ i + 1 # 1 /\ 1 \in 1 .. Len(s)
        /\ Len(s) \in 1 .. Len(s)
    BY <1>2, <1>3
  <2>2. nx[u] = s[i + 1]
    BY <1>1, <2>1, Zenon DEF IsRing
  <2>3. QED
    BY <1>1, <1>2, <1>3, <2>1, <2>2, Zenon DEF IsRing
<1>4. QED
  BY <1>1, <1>2, <1>3

(* A thread linked in behind the last one is the new last one.             *)
LEMMA RingAppend ==
  ASSUME NEW nx, NEW head, NEW S, NEW s, IsRing(nx, head, S, s),
         NEW t, t \notin S, NEW nx2, NEW head2,
         \A u \in S : u # s[Len(s)] => nx2[u] = nx[u],
         S = {} => nx2[t] = t /\ head2 = t,
         S # {} => nx2[s[Len(s)]] = t /\ nx2[t] = head /\ head2 = head
  PROVE  IsRing(nx2, head2, S \union {t}, Append(s, t))
<1> DEFINE n == Len(s)
           r == Append(s, t)
<1>1. /\ s \in Seq(S) /\ n \in Nat
      /\ \A i, j \in 1 .. n : s[i] = s[j] => i = j
      /\ \A x \in S : \E i \in 1 .. n : s[i] = x
      /\ \A i \in 1 .. n - 1 : nx[s[i]] = s[i + 1]
      /\ s # << >> => head = s[1] /\ nx[s[n]] = s[1]
  BY DEF IsRing
<1>2. \A i \in 1 .. n : s[i] \in S
  BY <1>1
<1>3. /\ r \in Seq(S \union {t}) /\ Len(r) = n + 1 /\ r # << >> /\ r[n + 1] = t
      /\ \A i \in 1 .. n : r[i] = s[i]
  <2>1. s \in Seq(S \union {t})
    BY <1>1, <1>2
  <2>2. r \in Seq(S \union {t}) /\ Len(r) = n + 1
    BY <2>1
  <2>3. r[n + 1] = t /\ \A i \in 1 .. n : r[i] = s[i]
    BY <1>1, <2>1
  <2> HIDE DEF r, n
  <2>4. r # << >>
    BY <1>1, <2>2
  <2>5. QED
    BY <2>2, <2>3, <2>4, Zenon
<1>4. S = {} <=> n = 0
  BY <1>1, <1>2
<1> HIDE DEF n, r
<1>5. \A i \in 1 .. n + 1 : i = n + 1 \/ i \in 1 .. n
  BY <1>1
<1>6. \A i, j \in 1 .. n + 1 : r[i] = r[j] => i = j
  BY <1>1, <1>2, <1>3, <1>5
<1>7. \A x \in S \union {t} : \E i \in 1 .. n + 1 : r[i] = x
  <2> TAKE x \in S \union {t}
  <2>1. CASE x = t
    BY <1>1, <1>3, <2>1
  <2>2. CASE x \in S
    <3>1. PICK i \in 1 .. n : s[i] = x
      BY <1>1, <2>2, Zenon
    <3>2. i \in 1 .. n + 1 /\ r[i] = x
      BY <1>1, <1>3, <3>1
    <3>3. QED
      BY <3>2, Zenon
  <2>3. QED
    BY <2>1, <2>2, Zenon
<1>8. \A i \in 1 .. n : nx2[r[i]] = r[i + 1]
  <2> TAKE i \in 1 .. n
  <2>1. CASE i = n
    BY <1>1, <1>3, <1>4, <2>1 DEF n
  <2>2. CASE i # n
    <3>1. i \in 1 .. n - 1 /\ i + 1 \in 1 .. n /\ n \in 1 .. n
      BY <1>1, <2>2
    <3>2. s[i] # s[n] /\ s[i] \in S
      BY <1>1, <1>2, <2>2, <3>1, Zenon
    <3>3. nx2[s[i]] = s[i + 1]
      BY <1>1, <3>1, <3>2, Zenon DEF n
    <3>4. QED
      BY <1>3, <3>1, <3>3, Zenon
  <2>3. QED
    BY <2>1, <2>2, Zenon
<1>9. head2 = r[1] /\ nx2[r[n + 1]] = r[1]
  <2>1. CASE n = 0
    BY <1>3, <1>4, <2>1
  <2>2. CASE n # 0
    <3>1. 1 \in 1 .. n /\ s # << >>
      BY <1>1, <2>2 DEF n
    <3>2. QED
      BY <1>1, <1>3, <1>4, <2>2, <3>1, Zenon
  <2>3. QED
    BY <2>1, <2>2, Zenon
<1>10. Len(r) - 1 = n
  BY <1>1, <1>3
<1>11. IsRing(nx2, head2, S \union {t}, r)
  BY <1>3, <1>6, <1>7, <1>8, <1>9, <1>10, ZenonT(30) DEF IsRing
<1>12. QED
  BY <1>11, Zenon DEF r

(* Moving the head on to its next leaves the first thread last.            *)
LEMMA RingRotate ==
  ASSUME NEW nx, NEW head, NEW S, NEW s, IsRing(nx, head, S, s), s # << >>
  PROVE  IsRing(nx, nx[head], S, Append(Tail(s), Head(s)))
<1> DEFINE n == Len(s)
           r == Append(Tail(s), Head(s))
<1>1. /\ s \in Seq(S) /\ n \in Nat \ {0}
      /\ \A i, j \in 1 .. n : s[i] = s[j] => i = j
      /\ \A x \in S : \E i \in 1 .. n : s[i] = x
      /\ \A i \in 1 .. n - 1 : nx[s[i]] = s[i + 1]
      /\ head = s[1] /\ nx[s[n]] = s[1]
  BY DEF IsRing
<1>2. /\ r \in Seq(S) /\ Len(r) = n /\ r # << >> /\ r[n] = s[1]
      /\ \A i \in 1 .. n - 1 : r[i] = s[i + 1]
  BY <1>1
<1> HIDE DEF n, r
<1>3. \A i \in 1 .. n : i = n \/ (i \in 1 .. n - 1 /\ i + 1 \in 1 .. n /\ i + 1 # 1)
  BY <1>1
<1>4. \A i, j \in 1 .. n : r[i] = r[j] => i = j
  <2> SUFFICES ASSUME NEW i \in 1 .. n, NEW j \in 1 .. n, r[i] = r[j] PROVE i = j
    BY Zenon
  <2>1. 1 \in 1 .. n
    BY <1>1
  <2>2. CASE i = n /\ j # n
    BY <1>1, <1>2, <1>3, <2>1, <2>2
  <2>3. CASE i # n /\ j = n
    BY <1>1, <1>2, <1>3, <2>1, <2>3
  <2>4. CASE i # n /\ j # n
    <3>1. s[i + 1] = s[j + 1] /\ i + 1 \in 1 .. n /\ j + 1 \in 1 .. n
      BY <1>2, <1>3, <2>4, Zenon
    <3>2. i + 1 = j + 1
      BY <1>1, <3>1
    <3>3. QED
      BY <3>2
  <2>5. QED
    BY <2>2, <2>3, <2>4, Zenon
<1>5. \A x \in S : \E i \in 1 .. n : r[i] = x
  <2> TAKE x \in S
  <2>1. PICK i \in 1 .. n : s[i] = x
    BY <1>1, Zenon
  <2>2. CASE i = 1
    BY <1>1, <1>2, <2>1, <2>2
  <2>3. CASE i # 1
    <3>1. i - 1 \in 1 .. n - 1 /\ i - 1 \in 1 .. n /\ (i - 1) + 1 = i
      BY <1>1, <2>3
    <3>2. r[i - 1] = x
      BY <1>2, <2>1, <3>1, Zenon
    <3>3. QED
      BY <3>1, <3>2, Zenon
  <2>4. QED
    BY <2>2, <2>3, Zenon
<1>6. \A i \in 1 .. n - 1 : nx[r[i]] = r[i + 1]
  <2> TAKE i \in 1 .. n - 1
  <2>1. r[i] = s[i + 1]
    BY <1>2, Zenon
  <2>2. CASE i = n - 1
    BY <1>1, <1>2, <2>1, <2>2
  <2>3. CASE i # n - 1
    <3>1. i + 1 \in 1 .. n - 1
      BY <1>1, <2>3
    <3>2. QED
      BY <1>1, <1>2, <2>1, <3>1, ZenonT(30)
  <2>4. QED
    BY <2>2, <2>3, Zenon
<1>7. nx[head] = r[1] /\ nx[r[n]] = r[1]
  <2>1. CASE n = 1
    BY <1>1, <1>2, <2>1, Zenon
  <2>2. CASE n # 1
    <3>1. 1 \in 1 .. n - 1
      BY <1>1, <2>2
    <3>2. QED
      BY <1>1, <1>2, <3>1
  <2>3. QED
    BY <2>1, <2>2, Zenon
<1>8. IsRing(nx, nx[head], S, r)
  BY <1>2, <1>4, <1>5, <1>6, <1>7, Zenon DEF IsRing
<1>9. QED
  BY <1>8, Zenon DEF r

(* A ring is what the next pointers of its own threads make it.            *)
LEMMA RingSame ==
  ASSUME NEW nx, NEW head, NEW S, NEW s, IsRing(nx, head, S, s),
         NEW nx2, \A u \in S : nx2[u] = nx[u]
  PROVE  IsRing(nx2, head, S, s)
<1>1. Len(s) \in Nat /\ \A i \in 1 .. Len(s) : s[i] \in S
  BY DEF IsRing
<1>2. \A i \in 1 .. Len(s) - 1 : i \in 1 .. Len(s)
  BY <1>1
<1>3. s # << >> => Len(s) \in 1 .. Len(s)
  BY <1>1 DEF IsRing
<1>4. QED
  BY <1>1, <1>2, <1>3, Zenon DEF IsRing

(* Without threads all queues are empty.                                   *)
LEMMA RingsInit ==
  ASSUME NEW Ps, NEW prio, NEW nx, NEW heads, heads = [p \in Ps |-> 0]
  PROVE  /\ RingsOK(Ps, 0, prio, nx, heads, {})
         /\ Queues(Ps, 0, prio, nx, heads) = [p \in Ps |-> << >>]
<1>1. \A p \in Ps : Members(0, prio, p) = {}
  BY DEF Members
<1>2. \A h : IsRing(nx, h, {}, << >>)
  BY DEF IsRing
<1>3. \A h : Ring(nx, h, {}) = << >>
  BY <1>2, RingFound, Zenon
<1>4. QED
  BY <1>1, <1>2, <1>3, Zenon DEF RingsOK, Queues

(* The two lemmas both schedulers use.  A new thread goes to the end of    *)
(* the queue of its priority and leaves the other queues alone.            *)
LEMMA RingsCreate ==
  ASSUME NEW Ps, NEW M, NEW n, NEW prio, NEW nx, NEW heads, NEW bitmap,
         RingTypes(Ps, M, n, prio, nx, heads), RingsOK(Ps, n, prio, nx, heads, bitmap),
         NEW p \in Ps, NEW t, NEW prio2, NEW nx2, NEW heads2,
         Linked(M, n, t, prio, nx, heads, p, prio2, nx2, heads2)
  PROVE  /\ RingsOK(Ps, t, prio2, nx2, heads2, bitmap \union {p})
         /\ Joined(Queues(Ps, n, prio, nx, heads), p, t, Queues(Ps, t, prio2, nx2, heads2))
<1> DEFINE S(q) == Members(n, prio, q)
           S2(q) == Members(t, prio2, q)
           r(q) == Ring(nx, heads[q], S(q))
           w == r(p)[Len(r(p))]
<1>0. /\ M \in Nat /\ n \in Nat /\ n < M /\ t = n + 1
      /\ prio \in [1 .. M -> Ps] /\ nx \in [1 .. M -> 0 .. M] /\ heads \in [Ps -> 0 .. M]
  BY DEF RingTypes, Linked
<1>1. t \in 1 .. M /\ t \notin 1 .. n /\ 1 .. t = 1 .. n \union {t} /\ 1 .. n \subseteq 1 .. M
  <2>1. t \in 1 .. M /\ t \notin 1 .. n /\ 1 .. n \subseteq 1 .. M
    BY <1>0
  <2>2. n \in Nat /\ t = n + 1
    BY <1>0, Zenon
  <2>3. 1 .. t = 1 .. n \union {t}
    BY <2>2
  <2>4. QED
    BY <2>1, <2>3, Zenon
<1>2. \A q \in Ps : /\ IsRing(nx, heads[q], S(q), r(q))
                    /\ q \in bitmap <=> S(q) # {}
                    /\ heads[q] = 0 <=> S(q) = {}
  BY Zenon DEF RingsOK
<1>3. prio2[t] = p /\ \A u \in 1 .. n : prio2[u] = prio[u]
  BY <1>0, <1>1, Zenon DEF Linked
<1>4. /\ S2(p) = S(p) \union {t} /\ \A q \in Ps : t \notin S(q)
      /\ \A q \in Ps : q # p => S2(q) = S(q)
  BY <1>1, <1>3, Zenon DEF Members
<1>5. ASSUME heads[p] # 0
      PROVE  /\ w \in S(p)
             /\ w = CHOOSE u \in 1 .. n : prio[u] = p /\ nx[u] = heads[p]
  <2>1. S(p) # {}
    BY <1>2, <1>5, Zenon
  <2>2. w \in S(p)
    <3> HIDE DEF r, S
    <3>1. r(p) \in Seq(S(p)) /\ \A x \in S(p) : \E i \in 1 .. Len(r(p)) : r(p)[i] = x
      BY <1>2, Zenon DEF IsRing
    <3>2. Len(r(p)) \in Nat \ {0}
      BY <2>1, <3>1
    <3>3. QED
      BY <3>1, <3>2
  <2>3. \A u \in S(p) : nx[u] = heads[p] <=> u = w
    <3> HIDE DEF r, S
    <3>1. IsRing(nx, heads[p], S(p), r(p))
      BY <1>2, Zenon
    <3>2. QED
      BY <3>1, RingEnd
  <2>4. \A u : u \in 1 .. n /\ prio[u] = p /\ nx[u] = heads[p] <=> u = w
    <3> HIDE DEF w
    <3>1. QED
      BY <2>2, <2>3, Zenon DEF Members
  <2>5. QED
    <3> HIDE DEF w
    <3>1. QED
      BY <2>2, <2>4, Zenon
<1> HIDE DEF w
<1>6. /\ heads[p] = 0 => heads2 = [heads EXCEPT ![p] = t] /\ nx2 = [nx EXCEPT ![t] = t]
      /\ heads[p] # 0 => heads2 = heads /\ nx2 = [nx EXCEPT ![w] = t, ![t] = heads[p]]
  BY <1>5, Zenon DEF Linked
<1>7. \A q \in Ps : S(q) \subseteq 1 .. n /\ \A u \in S(q) : prio[u] = q
  BY Zenon DEF Members
<1> HIDE DEF S, S2, r
<1>8. /\ \A q \in Ps : \A u \in S(q) : heads[p] = 0 \/ u # w => nx2[u] = nx[u]
      /\ heads[p] = 0 => nx2[t] = t /\ heads2[p] = t
      /\ heads[p] # 0 => nx2[w] = t /\ nx2[t] = heads[p] /\ heads2[p] = heads[p]
      /\ \A q \in Ps : q # p => heads2[q] = heads[q]
  <2>1. CASE heads[p] = 0
    <3>1. heads2 = [heads EXCEPT ![p] = t] /\ nx2 = [nx EXCEPT ![t] = t]
      BY <1>6, <2>1, Zenon
    <3>2. nx2[t] = t /\ \A u \in 1 .. n : nx2[u] = nx[u]
      BY <1>0, <1>1, <3>1
    <3>3. heads2[p] = t /\ \A q \in Ps : q # p => heads2[q] = heads[q]
      BY <1>0, <3>1, Zenon
    <3>4. \A q \in Ps : \A u \in S(q) : nx2[u] = nx[u]
      BY <1>7, <3>2, Zenon
    <3>5. QED
      BY <2>1, <3>2, <3>3, <3>4, Zenon
  <2>2. CASE heads[p] # 0
    <3>1. w \in S(p) /\ w \in 1 .. n /\ w \in 1 .. M /\ w # t
      BY <1>1, <1>5, <1>7, <2>2, Zenon
    <3>2. nx2[w] = t /\ nx2[t] = heads[p] /\ \A u \in 1 .. n : u # w => nx2[u] = nx[u]
      BY <1>0, <1>1, <1>6, <2>2, <3>1, Zenon
    <3>3. QED
      BY <1>6, <1>7, <2>2, <3>2, Zenon
  <2>3. QED
    BY <2>1, <2>2, Zenon
<1>9. IsRing(nx2, heads2[p], S2(p), Append(r(p), t))
  <2>1. \A u \in S(p) : u # r(p)[Len(r(p))] => nx2[u] = nx[u]
    BY <1>8, Zenon DEF w
  <2>2. S(p) = {} => nx2[t] = t /\ heads2[p] = t
    BY <1>2, <1>8, Zenon
  <2>3. S(p) # {} => nx2[r(p)[Len(r(p))]] = t /\ nx2[t] = heads[p] /\ heads2[p] = heads[p]
    BY <1>2, <1>8, Zenon DEF w
  <2>4. IsRing(nx, heads[p], S(p), r(p)) /\ t \notin S(p)
    BY <1>2, <1>4, Zenon
  <2>5. IsRing(nx2, heads2[p], S(p) \union {t}, Append(r(p), t))
    BY <2>1, <2>2, <2>3, <2>4, RingAppend
  <2>6. QED
    BY <1>4, <2>5, Zenon
<1>10. ASSUME NEW q \in Ps, q # p PROVE IsRing(nx2, heads2[q], S2(q), r(q))
  <2>1. \A u \in S(q) : nx2[u] = nx[u]
    <3>1. heads[p] # 0 => prio[w] = p
      BY <1>5, <1>7, Zenon
    <3>2. \A u \in S(q) : heads[p] = 0 \/ u # w
      BY <1>7, <1>10, <3>1, Zenon
    <3>3. QED
      BY <1>8, <3>2, Zenon
  <2>2. IsRing(nx, heads[q], S(q), r(q)) /\ heads2[q] = heads[q] /\ S2(q) = S(q)
    BY <1>2, <1>4, <1>8, <1>10, Zenon
  <2>3. IsRing(nx2, heads[q], S(q), r(q))
    BY <2>1, <2>2, RingSame, Zenon
  <2>4. QED
    BY <2>2, <2>3, Zenon
<1>11. /\ Ring(nx2, heads2[p], S2(p)) = Append(r(p), t)
       /\ \A q \in Ps : q # p => Ring(nx2, heads2[q], S2(q)) = r(q)
  BY <1>9, <1>10, RingFound, Zenon
<1>12. RingsOK(Ps, t, prio2, nx2, heads2, bitmap \union {p})
  <2>1. ASSUME NEW q \in Ps
        PROVE  /\ IsRing(nx2, heads2[q], S2(q), Ring(nx2, heads2[q], S2(q)))
               /\ q \in bitmap \union {p} <=> S2(q) # {}
               /\ heads2[q] = 0 <=> S2(q) = {}
    <3>1. IsRing(nx2, heads2[q], S2(q), Ring(nx2, heads2[q], S2(q)))
      BY <1>9, <1>10, <1>11, Zenon
    <3>2. t # 0
      BY <1>1
    <3>3. QED
      BY <1>2, <1>4, <1>8, <3>1, <3>2, Zenon
  <2>2. QED
    BY <2>1, Zenon DEF RingsOK, S2
<1>13. Queues(Ps, t, prio2, nx2, heads2) = [Queues(Ps, n, prio, nx, heads) EXCEPT ![p] = Append(@, t)]
  <2>1. Queues(Ps, t, prio2, nx2, heads2) = [q \in Ps |-> Ring(nx2, heads2[q], S2(q))]
    BY Zenon DEF Queues, S2
  <2>2. Queues(Ps, n, prio, nx, heads) = [q \in Ps |-> r(q)]
    BY Zenon DEF Queues, S, r
  <2>3. QED
    BY <1>11, <2>1, <2>2, Zenon
<1>14. QED
  BY <1>12, <1>13, Zenon DEF Joined

(* A turn of the highest priority puts the thread that runs at the end of  *)
(* its queue, if it is the first, and serves the first of what results.    *)
LEMMA RingsServe ==
  ASSUME NEW Ps, NEW M, NEW n, NEW prio, NEW nx, NEW heads, NEW bitmap,
         RingTypes(Ps, M, n, prio, nx, heads), RingsOK(Ps, n, prio, nx, heads, bitmap),
         NEW top \in Ps, top \in bitmap, NEW cur, NEW new, NEW heads2,
         Moved(nx, heads, top, cur, new, heads2)
  PROVE  /\ RingsOK(Ps, n, prio, nx, heads2, bitmap)
         /\ Queues(Ps, n, prio, nx, heads2) =
              [Queues(Ps, n, prio, nx, heads) EXCEPT ![top] = Turned(@, cur)]
         /\ new = Head(Turned(Queues(Ps, n, prio, nx, heads)[top], cur))
<1> DEFINE S(q) == Members(n, prio, q)
           r(q) == Ring(nx, heads[q], S(q))
           order == Turned(r(top), cur)
<1>0. /\ M \in Nat /\ n \in Nat
      /\ prio \in [1 .. M -> Ps] /\ nx \in [1 .. M -> 0 .. M] /\ heads \in [Ps -> 0 .. M]
  BY DEF RingTypes
<1>1. \A q \in Ps : /\ IsRing(nx, heads[q], S(q), r(q))
                    /\ q \in bitmap <=> S(q) # {}
                    /\ heads[q] = 0 <=> S(q) = {}
  BY Zenon DEF RingsOK
<1>2. \A x \in S(top) : x # 0
  BY DEF Members
<1> HIDE DEF S, r, order
<1>3. /\ r(top) \in Seq(S(top)) /\ r(top) # << >>
      /\ heads[top] = Head(r(top)) /\ heads[top] \in S(top)
  <2>1. r(top) \in Seq(S(top)) /\ \A x \in S(top) : \E i \in 1 .. Len(r(top)) : r(top)[i] = x
    BY <1>1, Zenon DEF IsRing
  <2>2. r(top) # << >>
    BY <1>1, <2>1
  <2>3. heads[top] = r(top)[1]
    BY <1>1, <2>2, Zenon DEF IsRing
  <2>4. QED
    BY <2>1, <2>2, <2>3
<1>4. IsRing(nx, new, S(top), order) /\ order # << >>
  <2>1. CASE heads[top] = cur
    <3>1. new = nx[heads[top]] /\ order = Append(Tail(r(top)), Head(r(top)))
      BY <1>3, <2>1, Zenon DEF order, Turned, Moved
    <3>2. IsRing(nx, nx[heads[top]], S(top), Append(Tail(r(top)), Head(r(top))))
      BY <1>1, <1>3, RingRotate, Zenon
    <3>3. Append(Tail(r(top)), Head(r(top))) # << >>
      <4>1. Len(Append(Tail(r(top)), Head(r(top)))) = Len(r(top)) /\ Len(r(top)) \in Nat \ {0}
        BY <1>3
      <4>2. QED
        BY <4>1, Zenon
    <3>4. QED
      BY <3>1, <3>2, <3>3, Zenon
  <2>2. CASE heads[top] # cur
    <3>1. new = heads[top] /\ order = r(top)
      BY <1>3, <2>2, Zenon DEF order, Turned, Moved
    <3>2. QED
      BY <1>1, <1>3, <3>1, Zenon
  <2>3. QED
    BY <2>1, <2>2, Zenon
<1>5. order \in Seq(S(top)) /\ new = Head(order) /\ new \in S(top) /\ new # 0
  <2>1. order \in Seq(S(top)) /\ new = order[1]
    BY <1>4, Zenon DEF IsRing
  <2>2. QED
    BY <1>2, <1>4, <2>1
<1>6. heads2[top] = new /\ \A q \in Ps : q # top => heads2[q] = heads[q]
  BY <1>0, Zenon DEF Moved
<1>7. /\ Ring(nx, heads2[top], S(top)) = order
      /\ \A q \in Ps : q # top => Ring(nx, heads2[q], S(q)) = r(q)
  <2>1. Ring(nx, new, S(top)) = order
    BY <1>4, RingFound, Zenon
  <2>2. QED
    BY <1>6, <2>1, Zenon DEF r
<1>8. RingsOK(Ps, n, prio, nx, heads2, bitmap)
  <2>1. ASSUME NEW q \in Ps
        PROVE  /\ IsRing(nx, heads2[q], S(q), Ring(nx, heads2[q], S(q)))
               /\ q \in bitmap <=> S(q) # {}
               /\ heads2[q] = 0 <=> S(q) = {}
    <3>1. CASE q = top
      BY <1>1, <1>4, <1>5, <1>6, <1>7, <3>1, Zenon
    <3>2. CASE q # top
      BY <1>1, <1>6, <1>7, <3>2, Zenon
    <3>3. QED
      BY <3>1, <3>2, Zenon
  <2>2. QED
    BY <2>1, Zenon DEF RingsOK, S
<1> DEFINE Q == Queues(Ps, n, prio, nx, heads)
<1>9. Q = [q \in Ps |-> r(q)] /\ Q[top] = r(top)
  BY Zenon DEF Queues, S, r
<1>10. Queues(Ps, n, prio, nx, heads2) = [q \in Ps |-> Ring(nx, heads2[q], S(q))]
  BY Zenon DEF Queues, S
<1>11. Queues(Ps, n, prio, nx, heads2) = [Q EXCEPT ![top] = Turned(@, cur)]
  <2> HIDE DEF Q
  <2>1. QED
    BY <1>7, <1>9, <1>10, Zenon DEF order
<1>12. order = Turned(Q[top], cur)
  BY <1>9, Zenon DEF order
<1> HIDE DEF Q
<1>13. QED
  BY <1>5, <1>8, <1>11, <1>12, Zenon DEF Q

(* What is in the queues: threads made, and none where the bitmap has 0.   *)
LEMMA RingsHold ==
  ASSUME NEW Ps, NEW n, NEW prio, NEW nx, NEW heads, NEW bitmap,
         RingsOK(Ps, n, prio, nx, heads, bitmap), NEW p \in Ps
  PROVE  /\ Queues(Ps, n, prio, nx, heads)[p] # << >> <=> p \in bitmap
         /\ \A k \in DOMAIN Queues(Ps, n, prio, nx, heads)[p] :
              Queues(Ps, n, prio, nx, heads)[p][k] \in 1 .. n
<1> DEFINE S == Members(n, prio, p)
           q == Ring(nx, heads[p], S)
<1>1. IsRing(nx, heads[p], S, q) /\ (p \in bitmap <=> S # {})
  BY Zenon DEF RingsOK
<1>2. S \subseteq 1 .. n
  BY Zenon DEF Members
<1>3. Queues(Ps, n, prio, nx, heads)[p] = q
  BY Zenon DEF Queues
<1> HIDE DEF S, q
<1>4. q \in Seq(S) /\ \A x \in S : \E i \in 1 .. Len(q) : q[i] = x
  BY <1>1, Zenon DEF IsRing
<1>5. q # << >> <=> S # {}
  BY <1>4
<1>6. \A k \in DOMAIN q : q[k] \in S
  BY <1>4
<1>7. QED
  BY <1>1, <1>2, <1>3, <1>5, <1>6, Zenon
=============================================================================
