----------------------------- MODULE FoldFacts -----------------------------
(***************************************************************************)
(* What FoldLeft computes, for the proofs about operators that are folds.  *)
(* A module that wants to reason about FoldLeft(LAMBDA x, y : Op(c, x, y), *)
(* b, s) instantiates this one with its operator: the prover cannot        *)
(* instantiate an operator that a lemma quantifies over.  Induction is     *)
(* over a set of numbers for the same reason.                              *)
(***************************************************************************)
EXTENDS Integers, WellFoundedInduction, TLAPS

CONSTANTS Op(_, _, _),   \* of a context, what was folded so far, and an element
          Mx(_)          \* Max, as FoldLeft uses it

MxIsMax == \A u : Mx(u) = CHOOSE x \in u : \A y \in u : x >= y

\* Mathematical induction, over the set of numbers that have a property.
LEMMA SetInduction ==
    ASSUME NEW S, 0 \in S, \A n \in Nat : n \in S => n + 1 \in S
    PROVE  Nat \subseteq S
  <1> DEFINE T == Nat \ S
  <1> SUFFICES ASSUME T # {} PROVE FALSE
    OBVIOUS
  <1>1. PICK x \in T : \A y \in T : <<y, x>> \notin OpToRel(<, Nat)
    BY WFMin, NatLessThanWellFounded
  <1>2. x - 1 \in T /\ x - 1 < x
    OBVIOUS
  <1>3. QED
    BY <1>1, <1>2 DEF OpToRel

\* Quotient and remainder are determined by what they stand for.
LEMMA Division ==
    ASSUME NEW x, NEW q \in Nat, NEW d \in Nat, NEW rest \in Nat, rest < d, x = q * d + rest
    PROVE  x \div d = q /\ x % d = rest
  OBVIOUS

(* The powers of a number, by the recursion that PowersOf() is.            *)
IsPowers(base, f) == f = [n \in Nat |-> IF n = 0 THEN 1 ELSE f[n - 1] * base]
IsFirstPowers(base, m, f) == f = [n \in 0 .. m |-> IF n = 0 THEN 1 ELSE f[n - 1] * base]

\* Two tables of powers agree where both have an entry.
LEMMA FirstPowersAgree ==
    ASSUME NEW base, NEW f, NEW m \in Nat, IsFirstPowers(base, m, f),
           NEW g, NEW k \in Nat, IsFirstPowers(base, k, g), m <= k
    PROVE  \A n \in 0 .. m : f[n] = g[n]
  <1> DEFINE Q == {n \in Nat : n <= m => f[n] = g[n]}
  <1>1. 0 \in Q
    BY DEF IsFirstPowers
  <1>2. ASSUME NEW n \in Nat, n \in Q PROVE n + 1 \in Q
    <2> SUFFICES ASSUME n + 1 <= m PROVE f[n + 1] = g[n + 1]
      OBVIOUS
    <2>1. f[n] = g[n] /\ n + 1 \in 0 .. m /\ n + 1 \in 0 .. k
      BY <1>2
    <2>2. f[n + 1] = f[n] * base /\ g[n + 1] = g[n] * base
      BY <2>1 DEF IsFirstPowers
    <2>3. QED
      BY <2>1, <2>2
  <1>3. Nat \subseteq Q
    <2> HIDE DEF Q
    <2>1. QED
      BY <1>1, <1>2, SetInduction
  <1>4. QED
    BY <1>3

\* A table of any length exists.
LEMMA FirstPowersExist ==
    ASSUME NEW base
    PROVE  \A m \in Nat : \E f : IsFirstPowers(base, m, f)
  <1> DEFINE S == {m \in Nat : \E f : IsFirstPowers(base, m, f)}
  <1>1. 0 \in S
    <2>1. IsFirstPowers(base, 0, [n \in 0 .. 0 |-> 1])
      BY DEF IsFirstPowers
    <2>2. QED
      BY <2>1
  <1>2. ASSUME NEW m \in Nat, m \in S PROVE m + 1 \in S
    <2>1. PICK f : IsFirstPowers(base, m, f)
      BY <1>2
    <2> DEFINE h == [n \in 0 .. m + 1 |-> IF n = m + 1 THEN f[m] * base ELSE f[n]]
    <2> DEFINE e == [n \in 0 .. m + 1 |-> IF n = 0 THEN 1 ELSE h[n - 1] * base]
    <2>2. \A n \in 0 .. m + 1 : h[n] = e[n]
      BY <2>1 DEF IsFirstPowers
    <2>3. /\ DOMAIN h = 0 .. m + 1 /\ h = [n \in DOMAIN h |-> h[n]]
          /\ DOMAIN e = 0 .. m + 1 /\ e = [n \in DOMAIN e |-> e[n]]
      OBVIOUS
    <2>4. h = e
      <3> HIDE DEF h, e
      <3>1. QED
        BY <2>2, <2>3
    <2>5. IsFirstPowers(base, m + 1, h)
      <3> HIDE DEF h
      <3>1. QED
        BY <2>4 DEF IsFirstPowers
    <2> HIDE DEF h
    <2>6. QED
      BY <2>5
  <1>3. Nat \subseteq S
    <2> HIDE DEF S
    <2>1. QED
      BY <1>1, <1>2, SetInduction
  <1>4. QED
    BY <1>3

\* The recursion has a solution: the n-th entry of the n-th table.
LEMMA PowersExist ==
    ASSUME NEW base
    PROVE  \E f : IsPowers(base, f)
  <1> DEFINE At(m) == CHOOSE f : IsFirstPowers(base, m, f)
             F == [n \in Nat |-> At(n)[n]]
  <1>1. \A m \in Nat : IsFirstPowers(base, m, At(m))
    BY FirstPowersExist, Zenon
  <1>2. ASSUME NEW n \in Nat PROVE F[n] = IF n = 0 THEN 1 ELSE F[n - 1] * base
    <2>1. IsFirstPowers(base, n, At(n))
      BY <1>1
    <2>2. F[n] = At(n)[n]
      OBVIOUS
    <2>3. CASE n = 0
      <3> HIDE DEF F, At
      <3>1. At(n)[n] = 1
        BY <2>1, <2>3 DEF IsFirstPowers
      <3>2. QED
        BY <2>2, <2>3, <3>1
    <2>4. CASE n # 0
      <3>1. IsFirstPowers(base, n - 1, At(n - 1)) /\ n - 1 \in Nat
        <4> HIDE DEF At
        <4>1. QED
          BY <1>1, <2>4
      <3>2. F[n - 1] = At(n - 1)[n - 1]
        BY <3>1
      <3> HIDE DEF F, At
      <3>3. At(n - 1)[n - 1] = At(n)[n - 1]
        BY <2>1, <3>1, FirstPowersAgree
      <3>4. At(n)[n] = At(n)[n - 1] * base
        BY <2>1, <2>4 DEF IsFirstPowers
      <3>5. QED
        BY <2>2, <2>4, <3>2, <3>3, <3>4
    <2>5. QED
      BY <2>3, <2>4
  <1>3. F = [n \in Nat |-> F[n]]
    OBVIOUS
  <1> HIDE DEF F
  <1>4. IsPowers(base, F)
    BY <1>2, <1>3 DEF IsPowers
  <1>5. QED
    BY <1>4

\* Every set of positions has a last one, and Max names it.
LEMMA MaximumIs ==
    ASSUME MxIsMax, NEW n \in Nat
    PROVE  \A u \in SUBSET (1 .. n) : u # {} => Mx(u) \in u /\ \A y \in u : y <= Mx(u)
  <1> DEFINE S == {m \in Nat : \A u \in SUBSET (1 .. m) :
                                  u # {} => \E x \in u : \A y \in u : x >= y}
  <1>1. 0 \in S
    <2>1. 1 .. 0 = {}
      OBVIOUS
    <2>2. QED
      BY <2>1
  <1>2. ASSUME NEW m \in Nat, m \in S PROVE m + 1 \in S
    <2> SUFFICES ASSUME NEW u \in SUBSET (1 .. m + 1), u # {}
                 PROVE  \E x \in u : \A y \in u : x >= y
      OBVIOUS
    <2>1. CASE m + 1 \in u
      BY <2>1
    <2>2. CASE m + 1 \notin u
      <3>1. u \in SUBSET (1 .. m)
        BY <2>2
      <3>2. QED
        BY <1>2, <3>1
    <2>3. QED
      BY <2>1, <2>2
  <1>3. n \in S
    <2> HIDE DEF S
    <2>1. QED
      BY <1>1, <1>2, SetInduction
  <1> SUFFICES ASSUME NEW u \in SUBSET (1 .. n), u # {}
               PROVE  Mx(u) \in u /\ \A y \in u : y <= Mx(u)
    OBVIOUS
  <1>4. \E x \in u : \A y \in u : x >= y
    BY <1>3
  <1>5. Mx(u) \in u /\ \A y \in u : Mx(u) >= y
    <2>1. Mx(u) = CHOOSE x \in u : \A y \in u : x >= y
      BY Zenon DEF MxIsMax
    <2>2. QED
      BY <1>4, <2>1, Zenon
  <1>6. \A y \in u : y \in Nat
    OBVIOUS
  <1>7. QED
    BY <1>4, <1>5, <1>6

(* The function by which a fold is defined: the fold over every set of     *)
(* positions, the last one taken off first.                                *)
Table(c, b, s, n, g) ==
    [u \in SUBSET (1 .. n) |-> IF u = {} THEN b ELSE Op(c, g[u \ {Mx(u)}], s[Mx(u)])]
IsTable(c, b, s, n, g) == g = Table(c, b, s, n, g)

\* The recursive definition of a fold has a solution.
LEMMA TableExists ==
    ASSUME NEW c, NEW b, NEW s, NEW n \in Nat,
           MxIsMax
    PROVE  \E g : IsTable(c, b, s, n, g)
  <1> DEFINE S == {m \in Nat : m <= n => \E g : g = Table(c, b, s, m, g)}
  <1>0. \A u \in SUBSET (1 .. n) : u # {} => Mx(u) \in u /\ \A y \in u : y <= Mx(u)
    BY MaximumIs
  <1>1. 0 \in S
    <2> DEFINE g == [u \in {{}} |-> b]
    <2>1. SUBSET (1 .. 0) = {{}}
      OBVIOUS
    <2>2. g = Table(c, b, s, 0, g)
      BY <2>1 DEF Table
    <2>3. QED
      BY <2>2
  <1>2. ASSUME NEW m \in Nat, m \in S PROVE m + 1 \in S
    <2> SUFFICES ASSUME m + 1 <= n PROVE \E g : g = Table(c, b, s, m + 1, g)
      OBVIOUS
    <2>1. PICK g : g = Table(c, b, s, m, g)
      <3>1. m <= n
        OBVIOUS
      <3>2. QED
        BY <1>2, <3>1
    <2> DEFINE h == [u \in SUBSET (1 .. m + 1) |->
                       IF u \in SUBSET (1 .. m) THEN g[u] ELSE Op(c, g[u \ {m + 1}], s[m + 1])]
    <2>2. ASSUME NEW u \in SUBSET (1 .. m + 1)
          PROVE  h[u] = IF u = {} THEN b ELSE Op(c, h[u \ {Mx(u)}], s[Mx(u)])
      <3>1. CASE u = {}
        BY <2>1, <3>1 DEF Table
      <3>2. CASE u # {} /\ u \in SUBSET (1 .. m)
        <4>1. g[u] = Op(c, g[u \ {Mx(u)}], s[Mx(u)])
          BY <2>1, <3>2 DEF Table
        <4>2. u \ {Mx(u)} \in SUBSET (1 .. m)
          BY <3>2
        <4>3. h[u] = g[u] /\ h[u \ {Mx(u)}] = g[u \ {Mx(u)}]
          BY <3>2, <4>2
        <4>4. QED
          BY <3>2, <4>1, <4>3
      <3>3. CASE u \notin SUBSET (1 .. m)
        <4>1. m + 1 \in u
          BY <3>3
        <4>2. Mx(u) = m + 1
          <5>1. u \in SUBSET (1 .. n) /\ u # {}
            BY <4>1
          <5>2. Mx(u) \in u /\ m + 1 <= Mx(u)
            BY <1>0, <4>1, <5>1
          <5>3. Mx(u) \in 1 .. m + 1
            BY <5>2
          <5>4. QED
            BY <5>2, <5>3
        <4>3. u \ {m + 1} \in SUBSET (1 .. m)
          OBVIOUS
        <4>4. h[u] = Op(c, g[u \ {m + 1}], s[m + 1]) /\ h[u \ {m + 1}] = g[u \ {m + 1}]
          BY <3>3, <4>3
        <4>5. QED
          BY <4>1, <4>2, <4>4
      <3>4. QED
        BY <3>1, <3>2, <3>3
    <2>3. h = Table(c, b, s, m + 1, h)
      <3> HIDE DEF h
      <3>1. h = [u \in SUBSET (1 .. m + 1) |-> h[u]]
        BY DEF h
      <3>2. QED
        BY <2>2, <3>1 DEF Table
    <2>4. QED
      BY <2>3
  <1>3. n \in S
    <2> HIDE DEF S
    <2>1. QED
      BY <1>1, <1>2, SetInduction
  <1>4. QED
    BY <1>3 DEF IsTable

\* out is what comes of taking the elements of s one after the other.
Trace(c, b, s, n, out) ==
    \E st : /\ st[0] = b
            /\ \A i \in 1 .. n : st[i] = Op(c, st[i - 1], s[i])
            /\ out = st[n]

\* A fold takes the elements of a sequence from the left, one at a time.
LEMMA TableTrace ==
    ASSUME NEW c, NEW b, NEW s, NEW n \in Nat, NEW g, IsTable(c, b, s, n, g),
           MxIsMax
    PROVE  Trace(c, b, s, n, g[1 .. n])
  <1>0. \A u \in SUBSET (1 .. n) : u # {} => Mx(u) \in u /\ \A y \in u : y <= Mx(u)
    BY MaximumIs
  <1>1. g[1 .. 0] = b
    BY DEF IsTable, Table
  <1>2. ASSUME NEW i \in 1 .. n PROVE g[1 .. i] = Op(c, g[1 .. (i - 1)], s[i])
    <2>1. 1 .. i \in SUBSET (1 .. n) /\ 1 .. i # {} /\ i \in 1 .. i
      OBVIOUS
    <2>2. Mx(1 .. i) \in 1 .. i /\ i <= Mx(1 .. i)
      BY <1>0, <2>1
    <2>3. Mx(1 .. i) = i
      BY <2>2
    <2>4. (1 .. i) \ {i} = 1 .. (i - 1)
      OBVIOUS
    <2>5. QED
      BY <2>1, <2>3, <2>4 DEF IsTable, Table
  <1> DEFINE st == [i \in 0 .. n |-> g[1 .. i]]
  <1>3. /\ st[0] = b /\ st[n] = g[1 .. n]
        /\ \A i \in 1 .. n : st[i] = g[1 .. i] /\ st[i - 1] = g[1 .. (i - 1)]
    BY <1>1
  <1>4. \A i \in 1 .. n : st[i] = Op(c, st[i - 1], s[i])
    BY <1>2, <1>3
  <1> HIDE DEF st
  <1>5. QED
    BY <1>3, <1>4 DEF Trace
=============================================================================
