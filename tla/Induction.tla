----------------------------- MODULE Induction -----------------------------
(***************************************************************************)
(* Facts about the natural numbers that the proofs about this project's    *)
(* algorithms share: the least number of a set, and with it induction over *)
(* a set of numbers and functions defined by recursion.  The library's     *)
(* induction theorems speak of an operator; these speak of sets and        *)
(* functions, so that a proof can cite them by name.                       *)
(***************************************************************************)
EXTENDS FiniteSetTheorems, WellFoundedInduction, TLAPS

\* Every set of natural numbers that is not empty has a least element.
LEMMA LeastExists ==
    ASSUME NEW T \in SUBSET Nat, T # {}
    PROVE  \E x \in T : \A y \in T : x <= y
<1> DEFINE R == StrictSubsetOrdering(Nat)
           F == FiniteSubsetsOf(Nat)
           D == {0..x : x \in T}
<1>1. D \subseteq F
  <2> SUFFICES ASSUME NEW x \in T PROVE 0..x \in F
    OBVIOUS
  <2>1. IsFiniteSet(0..x) BY FS_Interval
  <2> QED BY <2>1 DEF FiniteSubsetsOf
<1>2. D # {}
  OBVIOUS
<1>3. \E d \in D : \A e \in D : ~ (<<e, d>> \in R)
  <2>1. IsWellFoundedOn(R, F) BY FS_StrictSubsetOrderingWellFounded
  <2> HIDE DEF R, F, D
  <2> QED BY <1>1, <1>2, <2>1, WFMin
<1>4. PICK x \in T : \A y \in T : ~ (<<0..y, 0..x>> \in R)
  BY <1>3
<1>5. ASSUME NEW y \in T, y < x PROVE FALSE
  <2>1. 0..y \subseteq 0..x /\ x \in 0..x /\ x \notin 0..y
    BY <1>5
  <2>2. 0..y \in SUBSET Nat /\ 0..x \in SUBSET Nat /\ 0..y # 0..x
    BY <2>1
  <2>3. <<0..y, 0..x>> \in R
    BY <2>1, <2>2 DEF StrictSubsetOrdering
  <2> QED BY <1>4, <2>3
<1> QED BY <1>5

\* A set with 0 in it, and with n + 1 for every n of it, has every number in it.
LEMMA SetInduction ==
    ASSUME NEW S, 0 \in S, \A n \in Nat : n \in S => n + 1 \in S
    PROVE  Nat \subseteq S
<1> DEFINE T == {n \in Nat : n \notin S}
<1>1. ASSUME T # {} PROVE FALSE
  <2>1. PICK x \in T : \A y \in T : x <= y
    BY <1>1, LeastExists
  <2>2. x \in Nat /\ x # 0 /\ x \notin S
    BY <2>1
  <2>3. x - 1 \in Nat /\ x - 1 \notin T
    BY <2>1, <2>2
  <2>4. (x - 1) + 1 \in S
    BY <2>3
  <2> QED BY <2>2, <2>4
<1> QED BY <1>1

\* g recurs by step from base on, as far as n.
Recurs(g, base, step, n) == /\ g[0] = base
                             /\ \A i \in Nat : i < n => g[i + 1] = step[<<i, g[i]>>]

LEMMA RecursFurther ==
    ASSUME NEW V, NEW base \in V, NEW step \in [Nat \X V -> V],
           NEW n \in Nat, NEW g \in [Nat -> V], Recurs(g, base, step, n)
    PROVE  \E h \in [Nat -> V] : Recurs(h, base, step, n + 1)
<1> DEFINE h == [g EXCEPT ![n + 1] = step[<<n, g[n]>>]]
<1>1. step[<<n, g[n]>>] \in V
  OBVIOUS
<1>2. h \in [Nat -> V] /\ h[n + 1] = step[<<n, g[n]>>]
      /\ \A i \in Nat : i # n + 1 => h[i] = g[i]
  BY <1>1
<1> HIDE DEF h
<1>3. h[0] = base
  BY <1>2 DEF Recurs
<1>4. ASSUME NEW i \in Nat, i < n + 1 PROVE h[i + 1] = step[<<i, h[i]>>]
  <2>1. h[i] = g[i]
    BY <1>2, <1>4
  <2>2. CASE i = n
    BY <1>2, <2>1, <2>2
  <2>3. CASE i # n
    <3>1. h[i + 1] = g[i + 1] /\ i < n
      BY <1>2, <1>4, <2>3
    <3> QED BY <2>1, <3>1 DEF Recurs
  <2> QED BY <2>2, <2>3
<1> QED BY <1>2, <1>3, <1>4 DEF Recurs

LEMMA RecursionsAgree ==
    ASSUME NEW g, NEW h, NEW base, NEW step, NEW n \in Nat, NEW m \in Nat, n <= m,
           Recurs(g, base, step, n), Recurs(h, base, step, m)
    PROVE  g[n] = h[n]
<1> DEFINE E == {i \in Nat : i <= n => g[i] = h[i]}
<1>1. 0 \in E
  BY DEF Recurs
<1>2. ASSUME NEW i \in Nat, i \in E PROVE i + 1 \in E
  <2> SUFFICES ASSUME i + 1 <= n PROVE g[i + 1] = h[i + 1]
    OBVIOUS
  <2>1. g[i] = h[i] /\ i < n /\ i < m
    BY <1>2
  <2>2. g[i + 1] = step[<<i, g[i]>>] /\ h[i + 1] = step[<<i, h[i]>>]
    BY <2>1 DEF Recurs
  <2> QED BY <2>1, <2>2
<1> HIDE DEF E
<1>3. Nat \subseteq E
  BY <1>1, <1>2, SetInduction
<1> QED BY <1>3 DEF E

\* f starts with the value base and goes on by step, which is told the number too.
IsRecursion(f, V, base, step) ==
    /\ f \in [Nat -> V] /\ f[0] = base
    /\ \A n \in Nat : f[n + 1] = step[<<n, f[n]>>]

IsStep(V, step) == step \in [Nat \X V -> V]

\* There is such a function.
LEMMA Recursion ==
    ASSUME NEW V, NEW base \in V, NEW step, IsStep(V, step)
    PROVE  \E f : IsRecursion(f, V, base, step)
<1> USE DEF IsStep
<1> DEFINE S == {n \in Nat : \E g \in [Nat -> V] : Recurs(g, base, step, n)}
<1>1. 0 \in S
  <2>1. [i \in Nat |-> base] \in [Nat -> V] /\ Recurs([i \in Nat |-> base], base, step, 0)
    BY DEF Recurs
  <2> QED BY <2>1
<1>2. ASSUME NEW n \in Nat, n \in S PROVE n + 1 \in S
  <2>1. PICK g \in [Nat -> V] : Recurs(g, base, step, n)
    BY <1>2
  <2>2. PICK h \in [Nat -> V] : Recurs(h, base, step, n + 1)
    BY <2>1, RecursFurther
  <2> QED BY <2>2
<1> HIDE DEF S
<1>3. Nat \subseteq S
  BY <1>1, <1>2, SetInduction
<1>4. \A n \in Nat : \E g \in [Nat -> V] : Recurs(g, base, step, n)
  BY <1>3 DEF S
<1> DEFINE w(n) == CHOOSE g \in [Nat -> V] : Recurs(g, base, step, n)
           f == [n \in Nat |-> w(n)[n]]
<1>5. \A n \in Nat : w(n) \in [Nat -> V] /\ Recurs(w(n), base, step, n)
  BY <1>4
<1> HIDE DEF w
<1>6. f \in [Nat -> V]
  BY <1>5
<1>7. f[0] = base
  BY <1>5 DEF Recurs
<1>8. ASSUME NEW n \in Nat PROVE f[n + 1] = step[<<n, f[n]>>]
  <2>1. n + 1 \in Nat /\ n < n + 1 /\ n <= n + 1
    OBVIOUS
  <2>2. Recurs(w(n), base, step, n) /\ Recurs(w(n + 1), base, step, n + 1)
    BY <1>5, <2>1
  <2>3. w(n + 1)[n + 1] = step[<<n, w(n + 1)[n]>>]
    BY <2>1, <2>2 DEF Recurs
  <2>4. w(n)[n] = w(n + 1)[n]
    BY <2>1, <2>2, RecursionsAgree
  <2> QED BY <2>1, <2>3, <2>4
<1> QED BY <1>6, <1>7, <1>8 DEF IsRecursion
=============================================================================
