-------------------------------- MODULE Basics --------------------------------
(***************************************************************************)
(* Facts of arithmetic and of finite sets that the proofs need.            *)
(*                                                                         *)
(* Modules whose directories hold one of four things say so by the number  *)
(* of the four names; the proofs need that each differs from each.         *)
(* Induction is stated of a set of numbers, not of an operator, as no      *)
(* prover can be given an operator.                                        *)
(***************************************************************************)
EXTENDS Integers, FiniteSets, FiniteSetTheorems, TLAPS

\* Three names make at most three.
LEMMA AtMostThree == ASSUME NEW a, NEW b, NEW c PROVE Cardinality({a, b, c}) \in 0..3
  <1>1. IsFiniteSet({c}) /\ Cardinality({c}) = 1
    BY FS_Singleton
  <1>2. IsFiniteSet({b, c}) /\ Cardinality({b, c}) \in 0..2
    <2>1. {b, c} = {c} \cup {b}
      OBVIOUS
    <2> QED
      BY <1>1, <2>1, FS_AddElement
  <1>3. {a, b, c} = {b, c} \cup {a}
    OBVIOUS
  <1> QED
    BY <1>2, <1>3, FS_AddElement

\* Four names that make four are different from each other.
LEMMA FourDistinct ==
    ASSUME NEW a, NEW b, NEW c, NEW d, Cardinality({a, b, c, d}) = 4
    PROVE  a # b /\ a # c /\ a # d /\ b # c /\ b # d /\ c # d
  <1>1. ASSUME NEW x, NEW y, NEW z, {a, b, c, d} = {x, y, z} PROVE FALSE
    <2>1. Cardinality({x, y, z}) \in 0..3
      BY AtMostThree
    <2>2. Cardinality({x, y, z}) = 4
      BY <1>1
    <2> QED
      BY <2>1, <2>2
  <1>2. a = b => {a, b, c, d} = {b, c, d}
    OBVIOUS
  <1>3. a = c => {a, b, c, d} = {b, c, d}
    OBVIOUS
  <1>4. a = d => {a, b, c, d} = {b, c, d}
    OBVIOUS
  <1>5. b = c => {a, b, c, d} = {a, c, d}
    OBVIOUS
  <1>6. b = d => {a, b, c, d} = {a, c, d}
    OBVIOUS
  <1>7. c = d => {a, b, c, d} = {a, b, d}
    OBVIOUS
  <1> QED
    BY <1>1, <1>2, <1>3, <1>4, <1>5, <1>6, <1>7

\* Two names make at most two.
LEMMA AtMostTwoNames == ASSUME NEW a, NEW b PROVE Cardinality({a, b}) \in 0..2
  <1>1. IsFiniteSet({b}) /\ Cardinality({b}) = 1
    BY FS_Singleton
  <1>2. {a, b} = {b} \cup {a}
    OBVIOUS
  <1> QED
    BY <1>1, <1>2, FS_AddElement

\* Three names that make three are different from each other.
LEMMA ThreeDistinct ==
    ASSUME NEW a, NEW b, NEW c, Cardinality({a, b, c}) = 3
    PROVE  a # b /\ a # c /\ b # c
  <1>1. ASSUME NEW x, NEW y, {a, b, c} = {x, y} PROVE FALSE
    <2>1. Cardinality({x, y}) \in 0..2
      BY AtMostTwoNames
    <2>2. Cardinality({x, y}) = 3
      BY <1>1
    <2> QED
      BY <2>1, <2>2
  <1>2. a = b => {a, b, c} = {b, c}
    OBVIOUS
  <1>3. a = c => {a, b, c} = {b, c}
    OBVIOUS
  <1>4. b = c => {a, b, c} = {a, c}
    OBVIOUS
  <1> QED
    BY <1>1, <1>2, <1>3, <1>4
-----------------------------------------------------------------------------
\* Induction over the numbers, for a property that is given as a set.
LEMMA SetInduction ==
    ASSUME NEW S \in SUBSET Nat, 0 \in S, \A n \in S : n + 1 \in S
    PROVE  S = Nat
  <1> SUFFICES ASSUME NEW n \in Nat, n \notin S PROVE FALSE
    OBVIOUS
  <1> DEFINE f == [i \in 0..n |-> IF i \in S THEN i + 1 ELSE i]
  <1>1. f \in [0..n -> 1..n]
    OBVIOUS
  <1>2. \A x, y \in 0..n : f[x] = f[y] => x = y
    OBVIOUS
  <1>3. IsFiniteSet(0..n) /\ IsFiniteSet(1..n) /\ Cardinality(0..n) = n + 1 /\ Cardinality(1..n) = n
    BY FS_Interval
  <1> HIDE DEF f
  <1>4. \E x, y \in 0..n : x # y /\ f[x] = f[y]
    <2>1. Cardinality(1..n) < Cardinality(0..n)
      BY <1>3
    <2> QED
      BY <1>1, <1>3, <2>1, FS_PigeonHole
  <1> QED
    BY <1>2, <1>4

\* Numbers can be summed up one after another.
LEMMA RunningSum ==
    ASSUME NEW n \in Nat, NEW size \in [1..n -> Nat]
    PROVE  \E f \in [0..n -> Nat] :
               \A i \in 0..n : f[i] = IF i = 0 THEN 0 ELSE f[i - 1] + size[i]
  <1> DEFINE Sums(f, m) == \A i \in 0..m : f[i] = IF i = 0 THEN 0 ELSE f[i - 1] + size[i]
             Summed(m) == m <= n => \E f \in [0..m -> Nat] : Sums(f, m)
             S == {m \in Nat : Summed(m)}
  <1>1. Summed(0)
    <2>1. [i \in 0..0 |-> 0] \in [0..0 -> Nat] /\ Sums([i \in 0..0 |-> 0], 0)
      OBVIOUS
    <2> HIDE DEF Sums
    <2> QED
      BY <2>1
  <1>2. ASSUME NEW m \in Nat, Summed(m) PROVE Summed(m + 1)
    <2> SUFFICES ASSUME m + 1 <= n PROVE \E f \in [0..(m + 1) -> Nat] : Sums(f, m + 1)
      OBVIOUS
    <2>1. PICK f \in [0..m -> Nat] : Sums(f, m)
      <3> HIDE DEF Sums
      <3> QED
        BY <1>2
    <2> DEFINE g == [i \in 0..(m + 1) |-> IF i <= m THEN f[i] ELSE f[m] + size[m + 1]]
    <2>2. g \in [0..(m + 1) -> Nat]
      OBVIOUS
    <2>3. Sums(g, m + 1)
      BY <2>1
    <2> HIDE DEF g, Sums
    <2> QED
      BY <2>2, <2>3
  <1> HIDE DEF Summed
  <1>3. S = Nat
    <2>1. S \in SUBSET Nat /\ 0 \in S /\ \A m \in S : m + 1 \in S
      BY <1>1, <1>2
    <2> HIDE DEF S
    <2> QED
      BY <2>1, SetInduction
  <1>4. Summed(n)
    BY <1>3
  <1> HIDE DEF Sums
  <1>5. \E f \in [0..n -> Nat] : Sums(f, n)
    BY <1>4 DEF Summed
  <1> QED
    BY <1>5 DEF Sums
=============================================================================
