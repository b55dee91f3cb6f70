------------------------------- MODULE Induction -------------------------------
(***************************************************************************)
(* Induction over natural numbers, with sets and functions in place of the *)
(* formulas and operators that the theorems of the library take: a lemma   *)
(* is used by naming the set of numbers for which something holds.  And    *)
(* loops: the states a loop leads through, round by round.                 *)
(***************************************************************************)
EXTENDS Integers, WellFoundedInduction, TLAPS

\* Among natural numbers there is a least one.
LEMMA Least ==
  ASSUME NEW S \in SUBSET Nat, S # {}
  PROVE  \E x \in S : \A y \in S : x <= y
<1> DEFINE R == {ss \in Nat \X Nat : ss[1] < ss[2]}
<1>1. IsWellFoundedOn(R, Nat)
  BY NatLessThanWellFounded, Zenon DEF OpToRel
<1> HIDE DEF R
<1>2. PICK x \in S : \A y \in S : ~ (<<y, x>> \in R)
  BY <1>1, WFMin
<1>3. ASSUME NEW y \in S
      PROVE  x <= y
  <2>1. x \in Nat /\ y \in Nat /\ ~ (<<y, x>> \in R)
    BY <1>2
  <2>2. ~ (y < x)
    BY <2>1 DEF R
  <2> QED
    BY <2>1, <2>2
<1> QED
  BY <1>3

\* What holds for 0, and for each number after one for which it holds, holds
\* for all numbers up to n.
LEMMA UpTo ==
  ASSUME NEW n \in Nat, NEW A, 0 \in A, \A k \in 1..n : k - 1 \in A => k \in A
  PROVE  \A k \in 0..n : k \in A
<1> DEFINE Bad == {k \in 0..n : k \notin A}
<1>1. SUFFICES ASSUME Bad # {}
               PROVE  FALSE
  OBVIOUS
<1>2. PICK m \in Bad : \A k \in Bad : m <= k
  <2>1. Bad \in SUBSET Nat
    OBVIOUS
  <2> HIDE DEF Bad
  <2> QED
    BY <1>1, <2>1, Least
<1>3. m \in 1..n /\ m - 1 \in 0..n
  BY <1>2
<1>4. m - 1 \in A
  BY <1>2, <1>3
<1> QED
  BY <1>2, <1>3, <1>4

\* Rounding down leaves a natural number.
LEMMA Quotient ==
  ASSUME NEW x \in Nat, NEW y \in Nat, y > 0
  PROVE  x \div y \in Nat
<1>1. x \div y \in Int
  OBVIOUS
<1>2. x \div y >= 0
  OBVIOUS
<1> QED
  BY <1>1, <1>2

\* A number is made of its quotient and its remainder.
LEMMA Divide ==
  ASSUME NEW x \in Nat, NEW y \in Nat, y > 0
  PROVE  /\ x \div y \in Nat /\ x % y \in 0 .. y - 1
         /\ x = (x \div y) * y + (x % y)
OBVIOUS

\* The functions on 0..n with the value base at 0 and, by g, each value from
\* the one before.
Recursive(n, S, base, g) ==
  {f \in [0..n -> S] : f[0] = base /\ \A i \in 1..n : f[i] = g[<<i, f[i - 1]>>]}

\* There is such a function.
LEMMA Recursion ==
  ASSUME NEW n \in Nat, NEW S, NEW base \in S, NEW g \in [Nat \X S -> S]
  PROVE  Recursive(n, S, base, g) # {}
<1> DEFINE Good(m, f) == /\ f \in [0..m -> S] /\ f[0] = base
                         /\ \A i \in 1..m : f[i] = g[<<i, f[i - 1]>>]
           A == {m \in 0..n : \E f : Good(m, f)}
<1>1. 0 \in A
  <2>1. Good(0, [i \in 0..0 |-> base])
    OBVIOUS
  <2> HIDE DEF Good
  <2> QED
    BY <2>1
<1>2. ASSUME NEW m \in 1..n, m - 1 \in A
      PROVE  m \in A
  <2>1. PICK f : Good(m - 1, f)
    BY <1>2
  <2> DEFINE h == [i \in 0..m |-> IF i = m THEN g[<<m, f[m - 1]>>] ELSE f[i]]
  <2>2. g[<<m, f[m - 1]>>] \in S
    BY <2>1
  <2>3. h \in [0..m -> S] /\ h[0] = base
    BY <2>1, <2>2
  <2>4. ASSUME NEW i \in 1..m
        PROVE  h[i] = g[<<i, h[i - 1]>>]
    <3>1. i \in 0..m /\ i - 1 \in 0..m /\ i - 1 # m
      OBVIOUS
    <3>2. h[i - 1] = f[i - 1]
      BY <3>1
    <3>3. CASE i = m
      BY <3>1, <3>2, <3>3
    <3>4. CASE i # m
      <4>1. i \in 1 .. m - 1
        BY <3>4
      <4>2. h[i] = f[i]
        BY <3>1, <3>4
      <4> QED
        BY <2>1, <3>2, <4>1, <4>2
    <3> QED
      BY <3>3, <3>4
  <2>5. Good(m, h)
    BY <2>3, <2>4
  <2> HIDE DEF Good, h
  <2> QED
    BY <2>5
<1> HIDE DEF A
<1>3. n \in A
  BY <1>1, <1>2, UpTo
<1> QED
  BY <1>3 DEF A, Recursive

\* Round R leads from T[i - 1] to T[i], and f are the states of a loop of n rounds.
Leading(n, T, R) == \A i \in 1..n : \A x \in T[i - 1] : R[<<i, x>>] \in T[i]
Path(n, T, base, R, f) ==
  /\ f = [i \in 0..n |-> IF i = 0 THEN base ELSE R[<<i, f[i - 1]>>]]
  /\ \A i \in 0..n : f[i] \in T[i]

\* The states of a loop whose rounds lead from each T to the next.
LEMMA LoopExists ==
  ASSUME NEW n \in Nat, NEW T, NEW base, base \in T[0], NEW R, Leading(n, T, R)
  PROVE  \E f : Path(n, T, base, R, f)
<1> DEFINE U == UNION {T[i] : i \in 0..n}
           Good(x) == x[1] \in 1..n /\ x[2] \in T[x[1] - 1]
           g == [x \in Nat \X U |-> IF Good(x) THEN R[x] ELSE x[2]]
<1>1. \A i \in 0..n : T[i] \subseteq U
  OBVIOUS
<1>2. ASSUME NEW x \in Nat \X U
      PROVE  g[x] \in U
  <2>1. CASE Good(x)
    <3>1. x = <<x[1], x[2]>> /\ x[1] \in 0..n
      BY <1>2, <2>1
    <3>2. R[<<x[1], x[2]>>] \in T[x[1]]
      BY <2>1 DEF Leading
    <3> QED
      BY <1>1, <2>1, <3>1, <3>2
  <2>2. CASE ~ Good(x)
    BY <2>2
  <2> QED
    BY <2>1, <2>2
<1>3. g \in [Nat \X U -> U]
  BY <1>2
<1>4. \A i \in 1..n : \A x \in T[i - 1] : g[<<i, x>>] = R[<<i, x>>]
  <2>1. ASSUME NEW i \in 1..n, NEW x \in T[i - 1]
        PROVE  g[<<i, x>>] = R[<<i, x>>]
    <3>1. x \in U /\ i \in Nat
      BY <1>1, <2>1
    <3>2. <<i, x>> \in Nat \X U /\ Good(<<i, x>>)
      BY <2>1, <3>1
    <3> QED
      BY <3>2
  <2> QED
    BY <2>1
<1>5. base \in U
  BY <1>1
<1> HIDE DEF g, U
<1>6. PICK f \in [0..n -> U] : f[0] = base /\ \A i \in 1..n : f[i] = g[<<i, f[i - 1]>>]
  <2>1. Recursive(n, U, base, g) # {}
    BY <1>3, <1>5, Recursion
  <2> QED
    BY <2>1 DEF Recursive
<1>7. \A i \in 0..n : f[i] \in T[i]
  <2> DEFINE A == {i \in 0..n : f[i] \in T[i]}
  <2>1. 0 \in A
    BY <1>6
  <2>2. ASSUME NEW i \in 1..n, i - 1 \in A
        PROVE  i \in A
    <3>1. f[i - 1] \in T[i - 1]
      BY <2>2
    <3>2. f[i] = R[<<i, f[i - 1]>>]
      BY <1>4, <1>6, <3>1
    <3>3. R[<<i, f[i - 1]>>] \in T[i]
      BY <3>1 DEF Leading
    <3> QED
      BY <3>2, <3>3
  <2> HIDE DEF A
  <2>3. \A i \in 0..n : i \in A
    BY <2>1, <2>2, UpTo
  <2> QED
    BY <2>3 DEF A
<1>8. \A i \in 1..n : f[i] = R[<<i, f[i - 1]>>]
  <2>1. ASSUME NEW i \in 1..n
        PROVE  f[i] = R[<<i, f[i - 1]>>]
    <3>1. f[i - 1] \in T[i - 1]
      BY <1>7
    <3> QED
      BY <1>4, <1>6, <3>1
  <2> QED
    BY <2>1
<1>9. f = [i \in 0..n |-> IF i = 0 THEN base ELSE R[<<i, f[i - 1]>>]]
  BY <1>6, <1>8
<1> QED
  BY <1>7, <1>9 DEF Path

\* A loop stays in T.
LEMMA LoopStays ==
  ASSUME NEW n \in Nat, NEW T, NEW f, f[0] \in T[0],
         \A i \in 1..n : f[i - 1] \in T[i - 1] => f[i] \in T[i]
  PROVE  f[n] \in T[n]
<1> DEFINE A == {i \in 0..n : f[i] \in T[i]}
<1>1. 0 \in A
  OBVIOUS
<1>2. ASSUME NEW i \in 1..n, i - 1 \in A
      PROVE  i \in A
  BY <1>2
<1> HIDE DEF A
<1>3. \A i \in 0..n : i \in A
  BY <1>1, <1>2, UpTo
<1>4. n \in A
  BY <1>3
<1> QED
  BY <1>4 DEF A
===============================================================================
